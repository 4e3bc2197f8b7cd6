-------------------------------- MODULE Pdp --------------------------------
(***************************************************************************)
(* The authorization service (services/authz/main.py): POST /check, the    *)
(* policy administration endpoints, and the Redis decision cache between   *)
(* them (services/common/cache.py).                                        *)
(*                                                                         *)
(* Requests run in a thread pool, in any number of replicas, and share     *)
(* Postgres (READ COMMITTED) and Redis.  A step of the model is one Redis  *)
(* command, one SELECT or one COMMIT.  A check runs                        *)
(*                                                                         *)
(*   GET epoch; GET entry; SELECT roles, role_hierarchy, role_permissions, *)
(*   membership_permissions, policies; INSERT audit, COMMIT; SETEX entry   *)
(*                                                                         *)
(* and an edit COMMIT; INCR epoch; INSERT audit, COMMIT.  Each id of Req   *)
(* and Op stands for one request and is used once; the id of a check is    *)
(* also the decision_id it draws.  Requests that a token check or a 4xx    *)
(* rejects change nothing and do not appear.                               *)
(***************************************************************************)
EXTENDS AuthzEngine, Naturals

CONSTANTS
  Req,          \* /check requests
  Op,           \* administration requests
  Request,      \* the checks callers may send: [caller, subject, action, resource, env]
  Token,        \* user access tokens in circulation: [user, tenant, roles, org]
  TenantAdmin,  \* the role name the administration endpoints require
  NoOrg,        \* the org_unit_id of a caller that has none
  Member,       \* memberships, as <<user, tenant>>
  InitCatalog,  \* the permission catalog and the tenants' tables at the start
  InitRows,
  Faults        \* "error": a call to Redis or Postgres fails, or the process
                \* dies, in the middle of a request; "flush": Redis loses its data

VARIABLES
  catalog,  \* permissions, global
  rows,     \* tenant -> its tables
  epoch,    \* tenant -> authzver:{tenant}
  cache,    \* the decision entries in Redis
  audit,    \* audit_logs
  pc,       \* check -> its next step
  call,     \* check -> its bound input, drawn with the request
  version,  \* check -> the epoch it read
  seen,     \* check -> the rows it has read
  answer,   \* check -> the decision it holds or returned
  op,       \* edit -> its next step, and its tenant while it runs
  dirty     \* history: tenant -> an edit was committed since the last INCR

db == <<catalog, rows, dirty>>
check == <<pc, call, version, seen, answer>>
vars == <<db, epoch, cache, audit, check, op>>

----------------------------------------------------------------------------

Field == {"roles", "edges", "grants", "direct", "policies"}

EmptyRows == [f \in Field |-> {}]

(* The order of the SELECTs of decide. *)
After(f) ==
  CASE f = "roles"  -> "edges"
    [] f = "edges"  -> "grants"
    [] f = "grants" -> "direct"
    [] f = "direct" -> "policies"
    [] OTHER        -> "commit"

CheckPc == {"idle", "lookup", "commit", "store", "done", "failed"} \cup Field

OpState == [pc : {"idle", "done", "failed"}]
             \cup [pc : {"bump", "audit"}, tenant : Tenant]

Answer == [decision : Effect, id : Req]

NoAnswer == [decision |-> "none"]

Key == [user : User, tenant : Tenant, action : Perm, resource : Resource, epoch : Nat]

(* A cache entry, and the audit row of a decision or of an edit. *)
Entry == [key : Key, decision : Effect, id : Req]

Decided == [id : Req, tenant : Tenant, user : User, action : Perm,
            resource : Resource, decision : Effect]

Informed == [op : Op, tenant : Tenant]

(* The trust boundary of check: a service's subject is taken as it is, an  *)
(* admin's is pinned to the admin's tenant, any other caller's is replaced *)
(* by the caller's own claims.  An identity token carries neither tenant,  *)
(* roles nor org unit.                                                     *)
Bind(q) ==
  LET c == q.caller
      subject ==
        CASE c.type = "service" -> q.subject
          [] c.type = "access" /\ TenantAdmin \in c.token.roles ->
               [q.subject EXCEPT !.tenant = c.token.tenant]
          [] c.type = "access" /\ TenantAdmin \notin c.token.roles -> c.token
          [] c.type = "identity" ->
               [user |-> c.user, tenant |-> q.subject.tenant, roles |-> {}, org |-> NoOrg]
  IN  [subject |-> subject, action |-> q.action, resource |-> q.resource, env |-> q.env]

(* Mutant of DecisionKey: the user is left out. *)
DecisionKeyShared(c, v) ==
  [user |-> CHOOSE u \in User : TRUE, tenant |-> c.subject.tenant,
   action |-> c.action, resource |-> c.resource, epoch |-> v]

(* decision_key: roles, org unit and environment are not part of it. *)
DecisionKey(c, v) ==
  [user |-> c.subject.user, tenant |-> c.subject.tenant,
   action |-> c.action, resource |-> c.resource, epoch |-> v]

TenantOf(r) == call[r].subject.tenant

KeyOf(r) == DecisionKey(call[r], version[r])

ASSUME PdpAssumption ==
  /\ \A q \in Request : Bind(q) \in Call
  /\ Token \subseteq Subject
  /\ Member \subseteq User \X Tenant
  /\ InitCatalog \subseteq Perm
  /\ InitRows \in [Tenant -> Rows]
  /\ \A t \in Tenant : /\ InitRows[t].grants \subseteq Role \X InitCatalog
                       /\ InitRows[t].direct \subseteq User \X InitCatalog

Init ==
  /\ catalog = InitCatalog
  /\ rows = InitRows
  /\ dirty = [t \in Tenant |-> FALSE]
  /\ epoch = [t \in Tenant |-> 0]
  /\ cache = {}
  /\ audit = {}
  /\ pc = [r \in Req |-> "idle"]
  /\ call \in [Req -> {Bind(q) : q \in Request}]
  /\ version = [r \in Req |-> 0]
  /\ seen = [r \in Req |-> EmptyRows]
  /\ answer = [r \in Req |-> NoAnswer]
  /\ op = [o \in Op |-> [pc |-> "idle"]]

----------------------------------------------------------------------------
(* POST /check *)

(* The handler reads the epoch before anything else. *)
ReadEpoch(r) ==
  /\ pc[r] = "idle"
  /\ version' = [version EXCEPT ![r] = epoch[TenantOf(r)]]
  /\ pc' = [pc EXCEPT ![r] = "lookup"]
  /\ UNCHANGED <<db, epoch, cache, audit, call, seen, answer, op>>

Hit(r, e) ==
  /\ pc[r] = "lookup"
  /\ e \in cache
  /\ e.key = KeyOf(r)
  /\ answer' = [answer EXCEPT ![r] = [decision |-> e.decision, id |-> e.id]]
  /\ pc' = [pc EXCEPT ![r] = "done"]
  /\ UNCHANGED <<db, epoch, cache, audit, call, version, seen, op>>

Miss(r) ==
  /\ pc[r] = "lookup"
  /\ \A e \in cache : e.key # KeyOf(r)
  /\ pc' = [pc EXCEPT ![r] = "roles"]
  /\ UNCHANGED <<db, epoch, cache, audit, call, version, seen, answer, op>>

(* One SELECT.  Each sees what is committed when it runs, so an edit may   *)
(* fall between two of them.  The SELECTs an early return skips are kept:  *)
(* what they read is then not used.                                        *)
Select(r, f) ==
  /\ pc[r] = f
  /\ seen' = [seen EXCEPT ![r][f] = rows[TenantOf(r)][f]]
  /\ pc' = [pc EXCEPT ![r] = After(f)]
  /\ UNCHANGED <<db, epoch, cache, audit, call, version, answer, op>>

(* Mutant of Decide: only what is allowed is written down. *)
DecideAuditsAllows(r) ==
  /\ pc[r] = "commit"
  /\ \E d \in Outcomes(catalog, seen[r], call[r]) \cap Effect :
       /\ answer' = [answer EXCEPT ![r] = [decision |-> d, id |-> r]]
       /\ audit' = IF d = "deny" THEN audit ELSE audit \cup
            {[id |-> r, tenant |-> TenantOf(r), user |-> call[r].subject.user,
              action |-> call[r].action, resource |-> call[r].resource, decision |-> d]}
  /\ pc' = [pc EXCEPT ![r] = "store"]
  /\ UNCHANGED <<db, epoch, cache, call, version, seen, op>>

(* The decision and its audit row, in the transaction of the SELECTs. *)
Decide(r) ==
  /\ pc[r] = "commit"
  /\ \E d \in Outcomes(catalog, seen[r], call[r]) \cap Effect :
       /\ answer' = [answer EXCEPT ![r] = [decision |-> d, id |-> r]]
       /\ audit' = audit \cup
            {[id |-> r, tenant |-> TenantOf(r), user |-> call[r].subject.user,
              action |-> call[r].action, resource |-> call[r].resource, decision |-> d]}
  /\ pc' = [pc EXCEPT ![r] = "store"]
  /\ UNCHANGED <<db, epoch, cache, call, version, seen, op>>

(* Mutant of Raise: the handler tries again from the start of decide. *)
RaiseRetries(r) ==
  /\ pc[r] = "commit"
  /\ "raise" \in Outcomes(catalog, seen[r], call[r])
  /\ pc' = [pc EXCEPT ![r] = "roles"]
  /\ UNCHANGED <<db, epoch, cache, audit, call, version, seen, answer, op>>

(* evaluate raises: the transaction is rolled back, the answer is a 500. *)
Raise(r) ==
  /\ pc[r] = "commit"
  /\ "raise" \in Outcomes(catalog, seen[r], call[r])
  /\ pc' = [pc EXCEPT ![r] = "failed"]
  /\ UNCHANGED <<db, epoch, cache, audit, call, version, seen, answer, op>>

(* Mutant of Store: the key is built again, with the epoch of now. *)
StoreAtEpochOfNow(r) ==
  /\ pc[r] = "store"
  /\ LET k == DecisionKey(call[r], epoch[TenantOf(r)])
     IN  cache' = {e \in cache : e.key # k}
                    \cup {[key |-> k, decision |-> answer[r].decision, id |-> r]}
  /\ pc' = [pc EXCEPT ![r] = "done"]
  /\ UNCHANGED <<db, epoch, audit, call, version, seen, answer, op>>

(* SETEX replaces the entry of the key, if there is one. *)
Store(r) ==
  /\ pc[r] = "store"
  /\ cache' = {e \in cache : e.key # KeyOf(r)}
                \cup {[key |-> KeyOf(r), decision |-> answer[r].decision, id |-> r]}
  /\ pc' = [pc EXCEPT ![r] = "done"]
  /\ UNCHANGED <<db, epoch, audit, call, version, seen, answer, op>>

(* No call is retried or caught: any failure ends the request with a 500,  *)
(* the Redis ones included.                                                *)
CheckFails(r) ==
  /\ "error" \in Faults
  /\ pc[r] \notin {"done", "failed"}
  /\ pc' = [pc EXCEPT ![r] = "failed"]
  /\ answer' = [answer EXCEPT ![r] = NoAnswer]
  /\ UNCHANGED <<db, epoch, cache, audit, call, version, seen, op>>

----------------------------------------------------------------------------
(* Policy administration.  Each endpoint commits its change in the tenant  *)
(* of the caller's token.                                                  *)

AdminOf(t) == \E c \in Token : c.tenant = t /\ TenantAdmin \in c.roles

Commit(o, t, new) ==
  /\ op[o].pc = "idle"
  /\ AdminOf(t)
  /\ rows' = [rows EXCEPT ![t] = new]
  /\ dirty' = [dirty EXCEPT ![t] = @ \/ new # rows[t]]
  /\ op' = [op EXCEPT ![o] = [pc |-> "bump", tenant |-> t]]
  /\ UNCHANGED <<catalog, epoch, cache, audit, check>>

(* The catalog is global: no epoch is bumped and nothing is audited. *)
CreatePermission(o, p) ==
  /\ op[o].pc = "idle"
  /\ \E t \in Tenant : AdminOf(t)
  /\ catalog' = catalog \cup {p}
  /\ op' = [op EXCEPT ![o] = [pc |-> "done"]]
  /\ UNCHANGED <<rows, dirty, epoch, cache, audit, check>>

CreateRole(o, t, r) ==
  /\ r \notin rows[t].roles
  /\ Commit(o, t, [rows[t] EXCEPT !.roles = @ \cup {r}])

(* Mutant of GrantPermission: the catalog is not looked up. *)
GrantUnlisted(o, t, r, p) ==
  /\ r \in rows[t].roles
  /\ Commit(o, t, [rows[t] EXCEPT !.grants = @ \cup {<<r, p>>}])

GrantPermission(o, t, r, p) ==
  /\ r \in rows[t].roles
  /\ p \in catalog
  /\ Commit(o, t, [rows[t] EXCEPT !.grants = @ \cup {<<r, p>>}])

RevokePermission(o, t, r, p) ==
  Commit(o, t, [rows[t] EXCEPT !.grants = @ \ {<<r, p>>}])

AddChildRole(o, t, parent, child) ==
  /\ parent # child
  /\ {parent, child} \subseteq rows[t].roles
  /\ Commit(o, t, [rows[t] EXCEPT !.edges = @ \cup {<<parent, child>>}])

GrantMembershipPermission(o, t, u, p) ==
  /\ <<u, t>> \in Member
  /\ p \in catalog
  /\ Commit(o, t, [rows[t] EXCEPT !.direct = @ \cup {<<u, p>>}])

RevokeMembershipPermission(o, t, u, p) ==
  Commit(o, t, [rows[t] EXCEPT !.direct = @ \ {<<u, p>>}])

(* The structural validation of a condition: it evaluates without an       *)
(* exception where every attribute is missing.                             *)
Valid(c) == Evaluate(c, NoContext) # "raise"

CreatePolicy(o, t, p) ==
  /\ \A u \in Tenant : \A x \in rows[u].policies : x.id # p.id
  /\ p.enabled
  /\ Valid(p.cond)
  /\ p.perm \in catalog
  /\ Commit(o, t, [rows[t] EXCEPT !.policies = @ \cup {p}])

(* Condition, effect and enabled are each optional. *)
UpdatePolicy(o, t, p, new) ==
  /\ p \in rows[t].policies
  /\ new.id = p.id /\ new.perm = p.perm
  /\ new.cond = p.cond \/ Valid(new.cond)
  /\ Commit(o, t, [rows[t] EXCEPT !.policies = (@ \ {p}) \cup {new}])

DeletePolicy(o, t, id) ==
  Commit(o, t, [rows[t] EXCEPT !.policies = {p \in @ : p.id # id}])

Edit(o) ==
  \/ \E p \in Perm : CreatePermission(o, p)
  \/ \E t \in Tenant :
       \/ \E r \in Role :
            \/ CreateRole(o, t, r)
            \/ \E p \in Perm : GrantPermission(o, t, r, p) \/ RevokePermission(o, t, r, p)
            \/ \E child \in Role : AddChildRole(o, t, r, child)
       \/ \E u \in User, p \in Perm :
            \/ GrantMembershipPermission(o, t, u, p)
            \/ RevokeMembershipPermission(o, t, u, p)
       \/ \E p \in Policy : CreatePolicy(o, t, p)
       \/ \E p \in rows[t].policies, new \in Policy : UpdatePolicy(o, t, p, new)
       \/ \E id \in PolicyId : DeletePolicy(o, t, id)

(* After the commit, in two more transactions. *)
Bump(o) ==
  /\ op[o].pc = "bump"
  /\ LET t == op[o].tenant
     IN  /\ epoch' = [epoch EXCEPT ![t] = @ + 1]
         /\ dirty' = [dirty EXCEPT ![t] = FALSE]
         /\ op' = [op EXCEPT ![o] = [pc |-> "audit", tenant |-> t]]
  /\ UNCHANGED <<catalog, rows, cache, audit, check>>

(* Mutant of AuditAdmin: the row does not say which tenant it is about. *)
AuditAdminGlobal(o) ==
  /\ op[o].pc = "audit"
  /\ audit' = audit \cup {[op |-> o]}
  /\ op' = [op EXCEPT ![o] = [pc |-> "done"]]
  /\ UNCHANGED <<db, epoch, cache, check>>

AuditAdmin(o) ==
  /\ op[o].pc = "audit"
  /\ audit' = audit \cup {[op |-> o, tenant |-> op[o].tenant]}
  /\ op' = [op EXCEPT ![o] = [pc |-> "done"]]
  /\ UNCHANGED <<db, epoch, cache, check>>

EditFails(o) ==
  /\ "error" \in Faults
  /\ op[o].pc \in {"bump", "audit"}
  /\ op' = [op EXCEPT ![o] = [pc |-> "failed"]]
  /\ UNCHANGED <<db, epoch, cache, audit, check>>

----------------------------------------------------------------------------
(* Redis *)

(* Mutant of Expire: SET instead of SETEX; only entries of past epochs are *)
(* ever cleaned up.                                                        *)
ExpireOrphans(e) ==
  /\ e \in cache
  /\ e.key.epoch # epoch[e.key.tenant]
  /\ cache' = cache \ {e}
  /\ UNCHANGED <<db, epoch, audit, check, op>>

Expire(e) ==
  /\ e \in cache
  /\ cache' = cache \ {e}
  /\ UNCHANGED <<db, epoch, audit, check, op>>

(* Redis restarts without its data: no epoch is a later epoch of 0. *)
Flush ==
  /\ "flush" \in Faults
  /\ cache' = {}
  /\ epoch' = [t \in Tenant |-> 0]
  /\ UNCHANGED <<db, audit, check, op>>

----------------------------------------------------------------------------

CheckStep(r) ==
  \/ ReadEpoch(r)
  \/ \E e \in cache : Hit(r, e)
  \/ Miss(r)
  \/ \E f \in Field : Select(r, f)
  \/ Decide(r)
  \/ Raise(r)
  \/ Store(r)

EditStep(o) == Edit(o) \/ Bump(o) \/ AuditAdmin(o)

Next ==
  \/ \E r \in Req : CheckStep(r) \/ CheckFails(r)
  \/ \E o \in Op : EditStep(o) \/ EditFails(o)
  \/ \E e \in cache : Expire(e)
  \/ Flush

Spec == Init /\ [][Next]_vars

(* A request that was accepted is run to its end, and Redis expires what   *)
(* it holds under a TTL.  That a request is ever sent is not assumed.      *)
Fairness ==
  /\ \A r \in Req : WF_vars(pc[r] # "idle" /\ CheckStep(r))
  /\ \A o \in Op : WF_vars(Bump(o) \/ AuditAdmin(o))
  /\ WF_vars(\E e \in cache : Expire(e))

FairSpec == Spec /\ Fairness

----------------------------------------------------------------------------
(* Properties *)

TypeOK ==
  /\ catalog \in SUBSET Perm
  /\ rows \in [Tenant -> Rows]
  /\ dirty \in [Tenant -> BOOLEAN]
  /\ epoch \in [Tenant -> Nat]
  /\ cache \subseteq Entry
  /\ audit \subseteq Decided \cup Informed
  /\ pc \in [Req -> CheckPc]
  /\ call \in [Req -> Call]
  /\ version \in [Req -> Nat]
  /\ seen \in [Req -> Rows]
  /\ answer \in [Req -> Answer \cup {NoAnswer}]
  /\ op \in [Op -> OpState]

(* A decision is coherent when evaluating the call it was made for on what *)
(* is committed now could give it, and current when a check that starts    *)
(* now would be served by it.                                              *)
OutcomesNow(c) == Outcomes(catalog, rows[c.subject.tenant], c)

Coherent(e) == e.decision \in OutcomesNow(call[e.id])

Current(e) == e.key.epoch = epoch[e.key.tenant]

(* cache.py:44-46: a change of roles, permissions or policies invalidates  *)
(* all cached decisions of the tenant.  Once the INCR that follows a       *)
(* commit has run, no entry of the new epoch disagrees with the tables,    *)
(* even one computed and stored by a check that ran across the edit.       *)
CacheCoherent ==
  \A e \in cache : Current(e) /\ ~dirty[e.key.tenant] => Coherent(e)

(* The same as an administrator sees it: with no edit of the tenant still  *)
(* on its way to the INCR, what is cached agrees with the tables.  This    *)
(* needs every edit to get to its INCR.                                    *)
InFlight(t) == \E o \in Op : op[o].pc = "bump" /\ op[o].tenant = t

EditsInvalidate ==
  \A e \in cache : Current(e) /\ ~InFlight(e.key.tenant) => Coherent(e)

(* main.py:172-177, DESIGN.md:639-640: what check returns, from the cache  *)
(* or not, is a decision on the caller's own roles, attributes and         *)
(* environment, and stays one until the next edit.                         *)
AnswersAreCurrent ==
  \A r \in Req :
    /\ pc[r] = "done"
    /\ version[r] = epoch[TenantOf(r)]
    /\ ~dirty[TenantOf(r)]
    => answer[r].decision \in OutcomesNow(call[r])

(* DESIGN.md:586: a decision is written to the audit trail before it is    *)
(* returned.  A decision served from the cache names the record of the     *)
(* check that computed it, in the same tenant, for the same user, action   *)
(* and resource, with the same decision.                                   *)
ServedIsAudited ==
  \A r \in Req :
    pc[r] = "done" =>
      [id |-> answer[r].id, tenant |-> TenantOf(r), user |-> call[r].subject.user,
       action |-> call[r].action, resource |-> call[r].resource,
       decision |-> answer[r].decision] \in audit

(* engine.py:181-189: revoking and denying can take an allow away and      *)
(* never give one, and so does the first allow policy of a permission;     *)
(* granting and inheriting can only give one.                              *)
Restricting(o, t) ==
  /\ op'[o] # op[o]
  /\ \/ \E r \in Role, p \in Perm : RevokePermission(o, t, r, p)
     \/ \E u \in User, p \in Perm : RevokeMembershipPermission(o, t, u, p)
     \/ \E p \in Policy :
          /\ p.effect = "deny" \/ Applicable(rows[t], p.perm, "allow") = {}
          /\ CreatePolicy(o, t, p)

Widening(o, t) ==
  /\ op'[o] # op[o]
  /\ \/ \E r \in Role, p \in Perm : GrantPermission(o, t, r, p)
     \/ \E r, child \in Role : AddChildRole(o, t, r, child)
     \/ \E u \in User, p \in Perm : GrantMembershipPermission(o, t, u, p)

MayAllow(c) == "allow" \in OutcomesNow(c)

EditsAreMonotone ==
  [][\A o \in Op, t \in Tenant :
       /\ Restricting(o, t) => \A r \in Req : MayAllow(call[r])' => MayAllow(call[r])
       /\ Widening(o, t) => \A r \in Req : MayAllow(call[r]) => MayAllow(call[r])']_rows

(* main.py:202-223: a new catalog entry changes no decision of any tenant, *)
(* which is why that endpoint can do without bumping an epoch.             *)
CatalogNeedsNoBump ==
  [][\A o \in Op, p \in Perm :
       CreatePermission(o, p) => \A r \in Req : OutcomesNow(call[r])' = OutcomesNow(call[r])]_catalog

(* README.md:185-187: edits take effect within the TTL.  Also when an INCR *)
(* is lost, an entry that disagrees with the tables does not stay.         *)
Stale(r) == \E e \in cache : e.id = r /\ Current(e) /\ ~Coherent(e)

StalenessEnds == \A r \in Req : Stale(r) ~> ~Stale(r)

(* Every accepted check is answered, with a decision or with an error, and *)
(* every edit that was committed ends.                                     *)
RequestsEnd ==
  /\ \A r \in Req : pc[r] # "idle" ~> pc[r] \in {"done", "failed"}
  /\ \A o \in Op : op[o].pc = "bump" ~> op[o].pc \in {"done", "failed"}
=============================================================================
