----------------------------- MODULE PdpProofs -----------------------------
(***************************************************************************)
(* Type correctness of the authorization service and the coherence of its  *)
(* decision cache, for any tenants, users, roles, permissions, policies,   *)
(* conditions and requests, and any number of concurrent checks and edits. *)
(***************************************************************************)
EXTENDS Pdp, TLAPS

(* The foreign keys of role_permissions and membership_permissions. *)
Keyed(tables) ==
  /\ tables.grants \subseteq Role \X catalog
  /\ tables.direct \subseteq User \X catalog

ForeignKeys == \A t \in Tenant : Keyed(rows[t])

(* A check that is about to store holds the decision it has made itself.  *)
Holding == \A r \in Req : pc[r] = "store" => answer[r] \in Answer /\ answer[r].id = r

(* Every edit adds to the catalog, or commits tables of the right type     *)
(* that satisfy the foreign keys and announces them.                       *)
LEMMA EditShape ==
  ASSUME TypeOK, ForeignKeys, NEW o \in Op, Edit(o)
  PROVE  \/ \E p \in Perm : CreatePermission(o, p)
         \/ \E t \in Tenant, new \in Rows : Keyed(new) /\ Commit(o, t, new)
<1>1. \A t \in Tenant : rows[t] \in Rows /\ Keyed(rows[t])
  BY DEF TypeOK, ForeignKeys
<1>2. CASE \E p \in Perm : CreatePermission(o, p)
  BY <1>2
<1>3. ASSUME NEW t \in Tenant, NEW r \in Role, CreateRole(o, t, r)
      PROVE  \E new \in Rows : Keyed(new) /\ Commit(o, t, new)
  <2> DEFINE new == [rows[t] EXCEPT !.roles = @ \cup {r}]
  <2>1. new \in Rows /\ Keyed(new)
    BY <1>1 DEF Rows, Keyed
  <2>2. QED
    BY <2>1, <1>3 DEF CreateRole
<1>4. ASSUME NEW t \in Tenant, NEW r \in Role, NEW p \in Perm, GrantPermission(o, t, r, p)
      PROVE  \E new \in Rows : Keyed(new) /\ Commit(o, t, new)
  <2> DEFINE new == [rows[t] EXCEPT !.grants = @ \cup {<<r, p>>}]
  <2>1. new \in Rows /\ Keyed(new)
    BY <1>1, <1>4 DEF Rows, Keyed, GrantPermission
  <2>2. QED
    BY <2>1, <1>4 DEF GrantPermission
<1>5. ASSUME NEW t \in Tenant, NEW r \in Role, NEW p \in Perm, RevokePermission(o, t, r, p)
      PROVE  \E new \in Rows : Keyed(new) /\ Commit(o, t, new)
  <2> DEFINE new == [rows[t] EXCEPT !.grants = @ \ {<<r, p>>}]
  <2>1. new \in Rows /\ Keyed(new)
    BY <1>1 DEF Rows, Keyed
  <2>2. QED
    BY <2>1, <1>5 DEF RevokePermission
<1>6. ASSUME NEW t \in Tenant, NEW r \in Role, NEW child \in Role, AddChildRole(o, t, r, child)
      PROVE  \E new \in Rows : Keyed(new) /\ Commit(o, t, new)
  <2> DEFINE new == [rows[t] EXCEPT !.edges = @ \cup {<<r, child>>}]
  <2>1. new \in Rows /\ Keyed(new)
    BY <1>1 DEF Rows, Keyed
  <2>2. QED
    BY <2>1, <1>6 DEF AddChildRole
<1>7. ASSUME NEW t \in Tenant, NEW u \in User, NEW p \in Perm,
             GrantMembershipPermission(o, t, u, p)
      PROVE  \E new \in Rows : Keyed(new) /\ Commit(o, t, new)
  <2> DEFINE new == [rows[t] EXCEPT !.direct = @ \cup {<<u, p>>}]
  <2>1. new \in Rows /\ Keyed(new)
    BY <1>1, <1>7 DEF Rows, Keyed, GrantMembershipPermission
  <2>2. QED
    BY <2>1, <1>7 DEF GrantMembershipPermission
<1>8. ASSUME NEW t \in Tenant, NEW u \in User, NEW p \in Perm,
             RevokeMembershipPermission(o, t, u, p)
      PROVE  \E new \in Rows : Keyed(new) /\ Commit(o, t, new)
  <2> DEFINE new == [rows[t] EXCEPT !.direct = @ \ {<<u, p>>}]
  <2>1. new \in Rows /\ Keyed(new)
    BY <1>1 DEF Rows, Keyed
  <2>2. QED
    BY <2>1, <1>8 DEF RevokeMembershipPermission
<1>9. ASSUME NEW t \in Tenant, NEW p \in Policy, CreatePolicy(o, t, p)
      PROVE  \E new \in Rows : Keyed(new) /\ Commit(o, t, new)
  <2> DEFINE new == [rows[t] EXCEPT !.policies = @ \cup {p}]
  <2>1. new \in Rows /\ Keyed(new)
    BY <1>1 DEF Rows, Keyed
  <2>2. QED
    BY <2>1, <1>9 DEF CreatePolicy
<1>10. ASSUME NEW t \in Tenant, NEW p \in rows[t].policies, NEW q \in Policy,
              UpdatePolicy(o, t, p, q)
       PROVE  \E new \in Rows : Keyed(new) /\ Commit(o, t, new)
  <2> DEFINE new == [rows[t] EXCEPT !.policies = (@ \ {p}) \cup {q}]
  <2>1. new \in Rows /\ Keyed(new)
    BY <1>1 DEF Rows, Keyed
  <2>2. QED
    BY <2>1, <1>10 DEF UpdatePolicy
<1>11. ASSUME NEW t \in Tenant, NEW id \in PolicyId, DeletePolicy(o, t, id)
       PROVE  \E new \in Rows : Keyed(new) /\ Commit(o, t, new)
  <2> DEFINE new == [rows[t] EXCEPT !.policies = {p \in @ : p.id # id}]
  <2>1. new \in Rows /\ Keyed(new)
    BY <1>1 DEF Rows, Keyed
  <2>2. QED
    BY <2>1, <1>11 DEF DeletePolicy
<1>12. QED
  BY <1>2, <1>3, <1>4, <1>5, <1>6, <1>7, <1>8, <1>9, <1>10, <1>11 DEF Edit

----------------------------------------------------------------------------
(* Types *)

LEMMA InitTypes == Init => TypeOK /\ ForeignKeys /\ Holding
<1> SUFFICES ASSUME Init PROVE TypeOK /\ ForeignKeys /\ Holding
  OBVIOUS
<1>1. EmptyRows \in Rows
  BY DEF EmptyRows, Rows, Field
<1>2. call \in [Req -> Call]
  BY PdpAssumption DEF Init
<1>3. op \in [Op -> OpState]
  BY DEF Init, OpState
<1>4. TypeOK
  BY <1>1, <1>2, <1>3, PdpAssumption DEF Init, TypeOK, CheckPc
<1>5. ForeignKeys
  BY PdpAssumption DEF Init, ForeignKeys, Keyed
<1>6. Holding
  BY DEF Init, Holding
<1>7. QED
  BY <1>4, <1>5, <1>6

(* Reading one table keeps what was read a set of tables. *)
LEMMA SelectTypes ==
  ASSUME TypeOK, NEW r \in Req, NEW f \in Field, Select(r, f)
  PROVE  seen' \in [Req -> Rows]
<1>1. TenantOf(r) \in Tenant
  BY DEF TenantOf, TypeOK, Call, Subject
<1>2. seen[r] \in Rows /\ rows[TenantOf(r)] \in Rows
  BY <1>1 DEF TypeOK
<1>3. [seen[r] EXCEPT ![f] = rows[TenantOf(r)][f]] \in Rows
  BY <1>2 DEF Rows, Field
<1>4. seen' = [seen EXCEPT ![r] = [seen[r] EXCEPT ![f] = rows[TenantOf(r)][f]]]
  BY DEF Select
<1>5. QED
  BY <1>3, <1>4 DEF TypeOK

LEMMA TypeStep == TypeOK /\ ForeignKeys /\ Holding /\ [Next]_vars => TypeOK' /\ ForeignKeys'
<1> SUFFICES ASSUME TypeOK, ForeignKeys, Holding, [Next]_vars PROVE TypeOK' /\ ForeignKeys'
  OBVIOUS
<1>0. \A r \in Req : TenantOf(r) \in Tenant
  BY DEF TenantOf, TypeOK, Call, Subject
<1>1. ASSUME NEW r \in Req, ReadEpoch(r) PROVE TypeOK' /\ ForeignKeys'
  BY <1>1, <1>0 DEF ReadEpoch, TypeOK, ForeignKeys, Keyed, CheckPc, db
<1>2. ASSUME NEW r \in Req, NEW e \in cache, Hit(r, e) PROVE TypeOK' /\ ForeignKeys'
  BY <1>2 DEF Hit, TypeOK, ForeignKeys, Keyed, CheckPc, Entry, Answer, db
<1>3. ASSUME NEW r \in Req, Miss(r) PROVE TypeOK' /\ ForeignKeys'
  BY <1>3 DEF Miss, TypeOK, ForeignKeys, Keyed, CheckPc, Field, db
<1>4. ASSUME NEW r \in Req, NEW f \in Field, Select(r, f) PROVE TypeOK' /\ ForeignKeys'
  <2>1. After(f) \in CheckPc
    BY DEF After, CheckPc, Field
  <2>2. QED
    BY <1>4, <2>1, SelectTypes DEF Select, TypeOK, ForeignKeys, Keyed, db
<1>5. ASSUME NEW r \in Req, Decide(r) PROVE TypeOK' /\ ForeignKeys'
  <2>1. PICK d \in Effect :
          /\ answer' = [answer EXCEPT ![r] = [decision |-> d, id |-> r]]
          /\ audit' = audit \cup
               {[id |-> r, tenant |-> TenantOf(r), user |-> call[r].subject.user,
                 action |-> call[r].action, resource |-> call[r].resource, decision |-> d]}
    BY <1>5 DEF Decide
  <2>2. call[r].subject.user \in User /\ call[r].action \in Perm /\ call[r].resource \in Resource
    BY DEF TypeOK, Call, Subject
  <2>3. [id |-> r, tenant |-> TenantOf(r), user |-> call[r].subject.user,
         action |-> call[r].action, resource |-> call[r].resource, decision |-> d] \in Decided
    BY <2>2, <1>0 DEF Decided
  <2>4. audit' \subseteq Decided \cup Informed
    BY <2>1, <2>3 DEF TypeOK
  <2>5. answer' \in [Req -> Answer \cup {NoAnswer}]
    BY <2>1 DEF TypeOK, Answer
  <2>6. QED
    BY <1>5, <2>4, <2>5 DEF Decide, TypeOK, ForeignKeys, Keyed, CheckPc, db
<1>6. ASSUME NEW r \in Req, Raise(r) PROVE TypeOK' /\ ForeignKeys'
  BY <1>6 DEF Raise, TypeOK, ForeignKeys, Keyed, CheckPc, db
<1>7. ASSUME NEW r \in Req, Store(r) PROVE TypeOK' /\ ForeignKeys'
  <2>1. KeyOf(r) \in Key
    BY <1>0 DEF KeyOf, DecisionKey, Key, TypeOK, Call, Subject
  <2>2. [key |-> KeyOf(r), decision |-> answer[r].decision, id |-> r] \in Entry
    BY <1>7, <2>1 DEF Store, Entry, Answer, Holding
  <2>3. cache' \subseteq Entry
    BY <1>7, <2>2 DEF Store, TypeOK
  <2>4. QED
    BY <1>7, <2>3 DEF Store, TypeOK, ForeignKeys, Keyed, CheckPc, db
<1>8. ASSUME NEW r \in Req, CheckFails(r) PROVE TypeOK' /\ ForeignKeys'
  BY <1>8 DEF CheckFails, TypeOK, ForeignKeys, Keyed, CheckPc, db
<1>9. ASSUME NEW o \in Op, Edit(o) PROVE TypeOK' /\ ForeignKeys'
  <2>1. ASSUME NEW p \in Perm, CreatePermission(o, p) PROVE TypeOK' /\ ForeignKeys'
    BY <2>1 DEF CreatePermission, TypeOK, ForeignKeys, Keyed, OpState, check
  <2>2. ASSUME NEW t \in Tenant, NEW new \in Rows, Keyed(new), Commit(o, t, new)
        PROVE  TypeOK' /\ ForeignKeys'
    <3>1. [pc |-> "bump", tenant |-> t] \in OpState
      BY DEF OpState
    <3>2. rows' \in [Tenant -> Rows] /\ dirty' \in [Tenant -> BOOLEAN]
      BY <2>2 DEF Commit, TypeOK
    <3>3. op' \in [Op -> OpState]
      BY <2>2, <3>1 DEF Commit, TypeOK
    <3>4. ForeignKeys'
      BY <2>2 DEF Commit, TypeOK, ForeignKeys, Keyed
    <3>5. QED
      BY <2>2, <3>2, <3>3, <3>4 DEF Commit, TypeOK, check
  <2>3. QED
    BY <1>9, <2>1, <2>2, EditShape
<1>10. ASSUME NEW o \in Op, Bump(o) PROVE TypeOK' /\ ForeignKeys'
  <2>1. op[o].tenant \in Tenant
    BY <1>10 DEF Bump, TypeOK, OpState
  <2>2. [pc |-> "audit", tenant |-> op[o].tenant] \in OpState
    BY <2>1 DEF OpState
  <2>3. QED
    BY <1>10, <2>1, <2>2 DEF Bump, TypeOK, ForeignKeys, Keyed, check
<1>11. ASSUME NEW o \in Op, AuditAdmin(o) PROVE TypeOK' /\ ForeignKeys'
  <2>1. op[o].tenant \in Tenant
    BY <1>11 DEF AuditAdmin, TypeOK, OpState
  <2>2. [op |-> o, tenant |-> op[o].tenant] \in Informed /\ [pc |-> "done"] \in OpState
    BY <2>1 DEF Informed, OpState
  <2>3. QED
    BY <1>11, <2>2 DEF AuditAdmin, TypeOK, ForeignKeys, Keyed, check, db
<1>12. ASSUME NEW o \in Op, EditFails(o) PROVE TypeOK' /\ ForeignKeys'
  <2>1. [pc |-> "failed"] \in OpState
    BY DEF OpState
  <2>2. QED
    BY <1>12, <2>1 DEF EditFails, TypeOK, ForeignKeys, Keyed, check, db
<1>13. ASSUME NEW e \in cache, Expire(e) PROVE TypeOK' /\ ForeignKeys'
  BY <1>13 DEF Expire, TypeOK, ForeignKeys, Keyed, check, db
<1>14. CASE Flush
  BY <1>14 DEF Flush, TypeOK, ForeignKeys, Keyed, check, db
<1>15. CASE UNCHANGED vars
  BY <1>15 DEF vars, check, db, TypeOK, ForeignKeys, Keyed
<1>16. QED
  BY <1>1, <1>2, <1>3, <1>4, <1>5, <1>6, <1>7, <1>8, <1>9, <1>10, <1>11, <1>12, <1>13, <1>14,
     <1>15 DEF Next, CheckStep, EditStep

LEMMA HoldingStep == TypeOK /\ ForeignKeys /\ Holding /\ [Next]_vars => Holding'
<1> SUFFICES ASSUME TypeOK, ForeignKeys, Holding, [Next]_vars PROVE Holding'
  OBVIOUS
<1>1. ASSUME NEW r \in Req, CheckStep(r) \/ CheckFails(r) PROVE Holding'
  <2>1. ASSUME NEW f \in Field, Select(r, f) PROVE Holding'
    <3>1. After(f) # "store"
      BY DEF After, Field
    <3>2. QED
      BY <2>1, <3>1 DEF Select, Holding, TypeOK
  <2>2. CASE Decide(r)
    <3>1. \E d \in Effect : answer' = [answer EXCEPT ![r] = [decision |-> d, id |-> r]]
      BY <2>2 DEF Decide
    <3>2. answer'[r] \in Answer /\ answer'[r].id = r
      BY <3>1 DEF Answer, TypeOK
    <3>3. \A q \in Req : q # r => answer'[q] = answer[q] /\ pc'[q] = pc[q]
      BY <2>2, <3>1 DEF Decide, TypeOK
    <3>4. QED
      BY <3>2, <3>3 DEF Holding
  <2>3. CASE ReadEpoch(r)
    BY <2>3 DEF ReadEpoch, Holding, TypeOK
  <2>4. CASE \E e \in cache : Hit(r, e)
    BY <2>4 DEF Hit, Holding, TypeOK
  <2>5. CASE Miss(r) \/ Raise(r) \/ Store(r) \/ CheckFails(r)
    BY <2>5 DEF Miss, Raise, Store, CheckFails, Holding, TypeOK
  <2>6. QED
    BY <1>1, <2>1, <2>2, <2>3, <2>4, <2>5 DEF CheckStep
<1>2. ASSUME NEW o \in Op, EditStep(o) \/ EditFails(o) PROVE UNCHANGED <<pc, answer>>
  <2>1. CASE Edit(o)
    BY <2>1, EditShape DEF CreatePermission, Commit, check
  <2>2. QED
    BY <1>2, <2>1 DEF EditStep, Bump, AuditAdmin, EditFails, check
<1>3. CASE \E e \in cache : Expire(e)
  BY <1>3 DEF Expire, check, Holding
<1>4. CASE Flush
  BY <1>4 DEF Flush, check, Holding
<1>5. CASE UNCHANGED vars
  BY <1>5 DEF vars, check, Holding
<1>6. QED
  BY <1>1, <1>2, <1>3, <1>4, <1>5 DEF Next, Holding

(* The types of every variable of the authorization service. *)
THEOREM TypeCorrect == Spec => []TypeOK
<1>1. QED
  BY InitTypes, TypeStep, HoldingStep, PTL DEF Spec

----------------------------------------------------------------------------
(* Coherence of the cache *)

(* The catalog can grow without changing a decision: what a role or a      *)
(* membership is granted is in the catalog already.                        *)
LEMMA CatalogIrrelevant ==
  ASSUME NEW tables \in Rows, Keyed(tables), NEW more, catalog \subseteq more, NEW c
  PROVE  Outcomes(more, tables, c) = Outcomes(catalog, tables, c)
<1> DEFINE granted == EffectivePermissionKeys(tables, c.subject.roles)
                        \cup DirectPermissionKeys(tables, c.subject.user)
<1>1. granted \subseteq catalog
  BY DEF EffectivePermissionKeys, DirectPermissionKeys, Keyed
<1>2. QED
  BY <1>1 DEF Outcomes

(* What a check has read when it is at p. *)
ReadAt(p) ==
  CASE p = "edges"    -> {"roles"}
    [] p = "grants"   -> {"roles", "edges"}
    [] p = "direct"   -> {"roles", "edges", "grants"}
    [] p = "policies" -> {"roles", "edges", "grants", "direct"}
    [] p = "commit"   -> Field
    [] OTHER          -> {}

(* The inductive invariant.  No epoch is ahead of the counter, so that an  *)
(* INCR leaves every running check and every entry behind.  As long as no  *)
(* edit has been committed since a check read the epoch, what it has read  *)
(* is what is committed, and so is what it decided.                        *)
Fresh(r) == version[r] = epoch[TenantOf(r)] /\ ~dirty[TenantOf(r)]

NotAhead ==
  /\ \A r \in Req : version[r] <= epoch[TenantOf(r)]
  /\ \A e \in cache : e.key.epoch <= epoch[e.key.tenant]

EntryTenant == \A e \in cache : e.key.tenant = call[e.id].subject.tenant

ReadsFresh ==
  \A r \in Req : Fresh(r) => \A f \in ReadAt(pc[r]) : seen[r][f] = rows[TenantOf(r)][f]

DecisionFresh ==
  \A r \in Req : pc[r] = "store" /\ Fresh(r) => answer[r].decision \in OutcomesNow(call[r])

Coherence ==
  NotAhead /\ EntryTenant /\ ReadsFresh /\ DecisionFresh /\ CacheCoherent

IInv == TypeOK /\ ForeignKeys /\ Holding /\ Coherence

LEMMA InitCoherence == Init => Coherence
<1> SUFFICES ASSUME Init PROVE Coherence
  OBVIOUS
<1>1. \A r \in Req : TenantOf(r) \in Tenant
  BY InitTypes DEF TenantOf, TypeOK, Call, Subject
<1>2. \A r \in Req : ReadAt(pc[r]) = {}
  BY DEF Init, ReadAt
<1>3. QED
  BY <1>1, <1>2 DEF Init, Coherence, NotAhead, EntryTenant, ReadsFresh, DecisionFresh,
     CacheCoherent

(* A step that leaves the tables and the epochs alone.                     *)
LEMMA CheckKeepsCoherence ==
  ASSUME IInv, NEW r \in Req, CheckStep(r) \/ CheckFails(r)
  PROVE  Coherence'
<1>1. /\ UNCHANGED <<catalog, rows, dirty, epoch, call>>
      /\ \A q \in Req : TenantOf(q)' = TenantOf(q) /\ TenantOf(q) \in Tenant
      /\ \A c : OutcomesNow(c)' = OutcomesNow(c)
  <2>1. UNCHANGED <<catalog, rows, dirty, epoch, call>>
    BY DEF CheckStep, CheckFails, ReadEpoch, Hit, Miss, Select, Decide, Raise, Store, db
  <2>2. QED
    BY <2>1 DEF TenantOf, OutcomesNow, IInv, TypeOK, Call, Subject
<1>2. \A q \in Req : q # r => /\ UNCHANGED <<pc[q], version[q], seen[q], answer[q]>>
                              /\ Fresh(q)' = Fresh(q)
  <2>1. \A q \in Req : q # r => UNCHANGED <<pc[q], version[q], seen[q], answer[q]>>
    BY DEF CheckStep, CheckFails, ReadEpoch, Hit, Miss, Select, Decide, Raise, Store,
       IInv, TypeOK
  <2>2. QED
    BY <2>1, <1>1 DEF Fresh
<1>3. NotAhead' /\ EntryTenant' /\ CacheCoherent'
  <2>1. \A q \in Req : (version[q] <= epoch[TenantOf(q)])'
    <3>1. CASE ReadEpoch(r)
      BY <3>1, <1>1 DEF ReadEpoch, IInv, TypeOK, Coherence, NotAhead
    <3>2. CASE ~ReadEpoch(r)
      <4>1. version' = version
        BY <3>2 DEF CheckStep, CheckFails, Hit, Miss, Select, Decide, Raise, Store
      <4>2. QED
        BY <4>1, <1>1 DEF IInv, Coherence, NotAhead
    <3>3. QED
      BY <3>1, <3>2
  <2>2. CASE Store(r)
    <3> DEFINE new == [key |-> KeyOf(r), decision |-> answer[r].decision, id |-> r]
    <3>1. cache' \subseteq cache \cup {new}
      BY <2>2 DEF Store
    <3>2. /\ new.key.tenant = TenantOf(r) /\ new.key.epoch = version[r] /\ new.id = r
          /\ TenantOf(r) = call[r].subject.tenant
      BY DEF KeyOf, DecisionKey, TenantOf
    <3>3. new.key.epoch <= epoch[new.key.tenant]
      BY <3>2 DEF IInv, Coherence, NotAhead
    <3>4. Current(new) /\ ~dirty[new.key.tenant] => new.decision \in OutcomesNow(call[r])
      BY <2>2, <3>2 DEF Current, Fresh, Store, IInv, Coherence, DecisionFresh
    <3>5. \A e \in cache' : /\ e.key.epoch <= epoch[e.key.tenant]
                            /\ e.key.tenant = call[e.id].subject.tenant
      BY <3>1, <3>2, <3>3 DEF IInv, Coherence, NotAhead, EntryTenant
    <3>6. \A e \in cache' : Current(e) /\ ~dirty[e.key.tenant] => Coherent(e)
      BY <3>1, <3>2, <3>4 DEF IInv, Coherence, CacheCoherent, Coherent
    <3>7. QED
      BY <1>1, <2>1, <3>5, <3>6 DEF NotAhead, EntryTenant, CacheCoherent, Current, Coherent
  <2>3. CASE ~Store(r)
    <3>1. cache' = cache
      BY <2>3 DEF CheckStep, CheckFails, ReadEpoch, Hit, Miss, Select, Decide, Raise
    <3>2. QED
      BY <3>1, <1>1, <2>1 DEF IInv, Coherence, NotAhead, EntryTenant, CacheCoherent, Current,
         Coherent
  <2>4. QED
    BY <2>2, <2>3
<1>4. ReadsFresh'
  <2>1. ASSUME Fresh(r)', NEW f \in ReadAt(pc'[r]) PROVE seen'[r][f] = rows[TenantOf(r)][f]
    <3>1. CASE \E g \in Field : Select(r, g)
      <4>1. PICK g \in Field : Select(r, g)
        BY <3>1
      <4>2. pc[r] = g /\ pc'[r] = After(g) /\ version'[r] = version[r]
        BY <4>1 DEF Select, IInv, TypeOK
      <4>3. Fresh(r)
        BY <2>1, <4>2, <1>1 DEF Fresh
      <4>4. f = g \/ f \in ReadAt(pc[r])
        BY <4>2 DEF ReadAt, After, Field
      <4>5. seen'[r] = [seen[r] EXCEPT ![g] = rows[TenantOf(r)][g]]
        BY <4>1 DEF Select, IInv, TypeOK
      <4>6. f \in Field
        BY DEF ReadAt, Field
      <4>7. DOMAIN seen[r] = Field
        BY DEF IInv, TypeOK, Rows, Field
      <4>8. QED
        BY <4>3, <4>4, <4>5, <4>6, <4>7 DEF IInv, Coherence, ReadsFresh
    <3>2. CASE ~\E g \in Field : Select(r, g)
      <4>1. CASE ReadEpoch(r) \/ Miss(r) \/ Raise(r) \/ Store(r) \/ CheckFails(r)
                 \/ (\E e \in cache : Hit(r, e)) \/ Decide(r)
        <5>1. pc'[r] \in {"lookup", "roles", "failed", "done", "store"}
          BY <4>1 DEF ReadEpoch, Miss, Raise, Store, CheckFails, Hit, Decide, IInv, TypeOK
        <5>2. ReadAt(pc'[r]) = {}
          BY <5>1 DEF ReadAt
        <5>3. QED
          BY <5>2
      <4>2. QED
        BY <3>2, <4>1 DEF CheckStep
    <3>3. QED
      BY <3>1, <3>2
  <2>2. QED
    BY <1>1, <1>2, <2>1 DEF ReadsFresh, IInv, Coherence
<1>5. DecisionFresh'
  <2>1. ASSUME pc'[r] = "store", Fresh(r)' PROVE answer'[r].decision \in OutcomesNow(call[r])
    <3>1. Decide(r)
      <4>1. ASSUME NEW g \in Field, Select(r, g) PROVE FALSE
        BY <4>1, <2>1 DEF Select, After, Field, IInv, TypeOK
      <4>2. QED
        BY <2>1, <4>1 DEF CheckStep, CheckFails, ReadEpoch, Hit, Miss, Raise, Store, IInv, TypeOK
    <3>2. Fresh(r)
      BY <2>1, <3>1, <1>1 DEF Fresh, Decide
    <3>3. pc[r] = "commit" /\ ReadAt(pc[r]) = Field
      BY <3>1 DEF Decide, ReadAt
    <3>4. \A f \in Field : seen[r][f] = rows[TenantOf(r)][f]
      BY <3>2, <3>3 DEF IInv, Coherence, ReadsFresh
    <3>5. seen[r] = rows[TenantOf(r)]
      <4>1. seen[r] \in Rows /\ rows[TenantOf(r)] \in Rows
        BY <1>1 DEF IInv, TypeOK
      <4>2. QED
        BY <4>1, <3>4 DEF Rows, Field
    <3>6. PICK d \in Outcomes(catalog, seen[r], call[r]) :
            answer' = [answer EXCEPT ![r] = [decision |-> d, id |-> r]]
      BY <3>1 DEF Decide
    <3>7. answer'[r].decision = d
      BY <3>6 DEF IInv, TypeOK
    <3>8. QED
      BY <3>5, <3>6, <3>7 DEF OutcomesNow, TenantOf
  <2>2. QED
    BY <1>1, <1>2, <2>1 DEF DecisionFresh, IInv, Coherence
<1>6. QED
  BY <1>3, <1>4, <1>5 DEF Coherence

(* A commit either changes nothing or makes the tenant dirty, and what is  *)
(* cached or read of the other tenants is as it was.                       *)
LEMMA CommitKeepsCoherence ==
  ASSUME IInv, NEW o \in Op, NEW t \in Tenant, NEW new \in Rows, Commit(o, t, new)
  PROVE  Coherence'
<1>1. /\ UNCHANGED <<catalog, epoch, cache, pc, call, version, seen, answer>>
      /\ \A q \in Req : TenantOf(q)' = TenantOf(q) /\ TenantOf(q) \in Tenant
  BY DEF Commit, check, TenantOf, IInv, TypeOK, Call, Subject
<1>2. \A u \in Tenant : ~dirty'[u] => ~dirty[u] /\ rows'[u] = rows[u]
  BY DEF Commit, IInv, TypeOK
<1>3. \A q \in Req : Fresh(q)' => Fresh(q) /\ rows'[TenantOf(q)] = rows[TenantOf(q)]
  BY <1>1, <1>2 DEF Fresh
<1>4. \A e \in cache : e.key.tenant \in Tenant /\ e.id \in Req
  BY DEF IInv, TypeOK, Entry, Key
<1>5. NotAhead' /\ EntryTenant'
  BY <1>1 DEF IInv, Coherence, NotAhead, EntryTenant
<1>6. ReadsFresh' /\ DecisionFresh'
  BY <1>1, <1>3 DEF IInv, Coherence, ReadsFresh, DecisionFresh, OutcomesNow, TenantOf
<1>7. CacheCoherent'
  BY <1>1, <1>2, <1>4 DEF IInv, Coherence, EntryTenant, CacheCoherent, Current, Coherent,
     OutcomesNow
<1>8. QED
  BY <1>5, <1>6, <1>7 DEF Coherence

LEMMA CatalogKeepsCoherence ==
  ASSUME IInv, NEW o \in Op, NEW p \in Perm, CreatePermission(o, p)
  PROVE  Coherence'
<1>1. /\ UNCHANGED <<rows, dirty, epoch, cache, pc, call, version, seen, answer>>
      /\ catalog \subseteq catalog'
      /\ \A q \in Req : TenantOf(q)' = TenantOf(q)
  BY DEF CreatePermission, check, TenantOf
<1>2. \A q \in Req : OutcomesNow(call[q])' = OutcomesNow(call[q])
  <2> SUFFICES ASSUME NEW q \in Req
               PROVE  Outcomes(catalog', rows[TenantOf(q)], call[q])
                        = Outcomes(catalog, rows[TenantOf(q)], call[q])
    BY <1>1 DEF OutcomesNow, TenantOf
  <2>1. TenantOf(q) \in Tenant
    BY DEF TenantOf, IInv, TypeOK, Call, Subject
  <2>2. rows[TenantOf(q)] \in Rows /\ Keyed(rows[TenantOf(q)])
    BY <2>1 DEF IInv, TypeOK, ForeignKeys
  <2>3. QED
    BY <1>1, <2>2, CatalogIrrelevant
<1>3. \A e \in cache : e.id \in Req
  BY DEF IInv, TypeOK, Entry
<1>4. QED
  BY <1>1, <1>2, <1>3 DEF IInv, Coherence, NotAhead, EntryTenant, ReadsFresh, DecisionFresh,
     CacheCoherent, Current, Coherent, Fresh

(* After an INCR no entry of the tenant is current and no check is fresh.  *)
LEMMA BumpKeepsCoherence ==
  ASSUME IInv, NEW o \in Op, Bump(o)
  PROVE  Coherence'
<1> DEFINE t == op[o].tenant
<1>1. /\ UNCHANGED <<catalog, rows, cache, pc, call, version, seen, answer>>
      /\ \A q \in Req : TenantOf(q)' = TenantOf(q) /\ TenantOf(q) \in Tenant
  BY DEF Bump, check, TenantOf, IInv, TypeOK, Call, Subject
<1>2. t \in Tenant
  BY DEF Bump, IInv, TypeOK, OpState
<1>3. /\ epoch'[t] = epoch[t] + 1
      /\ \A u \in Tenant : u # t => epoch'[u] = epoch[u] /\ dirty'[u] = dirty[u]
  BY <1>2 DEF Bump, IInv, TypeOK
<1>4. /\ epoch \in [Tenant -> Nat] /\ version \in [Req -> Nat]
      /\ \A e \in cache : e.key.tenant \in Tenant /\ e.id \in Req /\ e.key.epoch \in Nat
  BY DEF IInv, TypeOK, Entry, Key
<1>5. NotAhead' /\ EntryTenant'
  BY <1>1, <1>2, <1>3, <1>4 DEF IInv, Coherence, NotAhead, EntryTenant
<1>6. \A q \in Req : Fresh(q)' => Fresh(q)
  BY <1>1, <1>2, <1>3, <1>4 DEF IInv, Coherence, NotAhead, Fresh
<1>7. ReadsFresh' /\ DecisionFresh'
  BY <1>1, <1>6 DEF IInv, Coherence, ReadsFresh, DecisionFresh, OutcomesNow
<1>8. \A e \in cache : Current(e)' => Current(e) /\ e.key.tenant # t
  BY <1>2, <1>3, <1>4 DEF IInv, Coherence, NotAhead, Current
<1>9. CacheCoherent'
  BY <1>1, <1>3, <1>4, <1>8 DEF IInv, Coherence, CacheCoherent, Coherent, OutcomesNow
<1>10. QED
  BY <1>5, <1>7, <1>9 DEF Coherence

LEMMA InvStep == "flush" \notin Faults /\ IInv /\ [Next]_vars => IInv'
<1> SUFFICES ASSUME "flush" \notin Faults, IInv, [Next]_vars PROVE IInv'
  OBVIOUS
<1>1. TypeOK' /\ ForeignKeys' /\ Holding'
  BY TypeStep, HoldingStep DEF IInv
<1>2. ASSUME NEW r \in Req, CheckStep(r) \/ CheckFails(r) PROVE Coherence'
  BY <1>2, CheckKeepsCoherence
<1>3. ASSUME NEW o \in Op, Edit(o) PROVE Coherence'
  BY <1>3, EditShape, CommitKeepsCoherence, CatalogKeepsCoherence DEF IInv
<1>4. ASSUME NEW o \in Op, Bump(o) PROVE Coherence'
  BY <1>4, BumpKeepsCoherence
<1>5. ASSUME UNCHANGED <<db, epoch, check>>, cache' \subseteq cache PROVE Coherence'
  <2>1. /\ UNCHANGED <<catalog, rows, dirty, epoch, pc, call, version, seen, answer>>
        /\ \A q \in Req : TenantOf(q)' = TenantOf(q)
    BY <1>5 DEF db, check, TenantOf
  <2>2. QED
    BY <1>5, <2>1 DEF IInv, Coherence, NotAhead, EntryTenant, ReadsFresh, DecisionFresh,
       CacheCoherent, Current, Coherent, Fresh, OutcomesNow
<1>6. ASSUME NEW o \in Op, AuditAdmin(o) \/ EditFails(o) PROVE Coherence'
  BY <1>5, <1>6 DEF AuditAdmin, EditFails
<1>7. ASSUME NEW e \in cache, Expire(e) PROVE Coherence'
  BY <1>5, <1>7 DEF Expire
<1>8. CASE Flush
  BY <1>8 DEF Flush
<1>9. CASE UNCHANGED vars
  BY <1>1, <1>5, <1>9 DEF vars, IInv
<1>10. QED
  BY <1>1, <1>2, <1>3, <1>4, <1>6, <1>7, <1>8, <1>9 DEF Next, EditStep, IInv

(* As long as Redis keeps its data, a cached decision of the current epoch *)
(* agrees with the committed tables whenever no commit awaits its INCR,    *)
(* whatever failures, interleavings and expiries there are                 *)
(* (cache.py:44-53, main.py:172-196).                                      *)
THEOREM CacheIsCoherent == "flush" \notin Faults /\ Spec => []CacheCoherent
<1> SUFFICES ASSUME "flush" \notin Faults PROVE Spec => []CacheCoherent
  OBVIOUS
<1>1. Init => IInv
  BY InitTypes, InitCoherence DEF IInv
<1>2. IInv /\ [Next]_vars => IInv'
  BY InvStep
<1>3. IInv => CacheCoherent
  BY DEF IInv, Coherence
<1>4. QED
  BY <1>1, <1>2, <1>3, PTL DEF Spec

----------------------------------------------------------------------------
(* Edits invalidate *)

(* Where no step of an edit is lost, a committed change that has not been  *)
(* announced belongs to an edit that is about to announce it.              *)
DirtyInFlight == \A t \in Tenant : dirty[t] => InFlight(t)

LEMMA DirtyStep ==
  "error" \notin Faults /\ TypeOK /\ ForeignKeys /\ DirtyInFlight /\ [Next]_vars
    => DirtyInFlight'
<1> SUFFICES ASSUME "error" \notin Faults, TypeOK, ForeignKeys, DirtyInFlight, [Next]_vars
             PROVE  DirtyInFlight'
  OBVIOUS
<1>1. ASSUME UNCHANGED <<dirty, op>> PROVE DirtyInFlight'
  BY <1>1 DEF DirtyInFlight, InFlight
<1>2. ASSUME NEW r \in Req, CheckStep(r) \/ CheckFails(r) PROVE DirtyInFlight'
  BY <1>1, <1>2 DEF CheckStep, CheckFails, ReadEpoch, Hit, Miss, Select, Decide, Raise, Store, db
<1>3. ASSUME NEW o \in Op, NEW t \in Tenant, NEW new \in Rows, Commit(o, t, new)
      PROVE  DirtyInFlight'
  <2>1. op'[o].pc = "bump" /\ op'[o].tenant = t
    BY <1>3 DEF Commit, TypeOK
  <2>2. \A q \in Op : op[q].pc = "bump" => op'[q] = op[q]
    BY <1>3 DEF Commit, TypeOK
  <2>3. \A u \in Tenant : u # t => dirty'[u] = dirty[u]
    BY <1>3 DEF Commit, TypeOK
  <2>4. QED
    BY <2>1, <2>2, <2>3 DEF DirtyInFlight, InFlight
<1>4. ASSUME NEW o \in Op, NEW p \in Perm, CreatePermission(o, p) PROVE DirtyInFlight'
  <2>1. dirty' = dirty /\ \A q \in Op : op[q].pc = "bump" => op'[q] = op[q]
    BY <1>4 DEF CreatePermission, TypeOK
  <2>2. QED
    BY <2>1 DEF DirtyInFlight, InFlight
<1>5. ASSUME NEW o \in Op, Bump(o) PROVE DirtyInFlight'
  <2>1. ~dirty'[op[o].tenant] /\ op[o].tenant \in Tenant
    BY <1>5 DEF Bump, TypeOK, OpState
  <2>2. \A u \in Tenant : u # op[o].tenant => dirty'[u] = dirty[u]
    BY <1>5 DEF Bump, TypeOK
  <2>3. \A q \in Op : q # o => op'[q] = op[q]
    BY <1>5 DEF Bump, TypeOK
  <2>4. QED
    BY <2>1, <2>2, <2>3 DEF DirtyInFlight, InFlight
<1>6. ASSUME NEW o \in Op, AuditAdmin(o) PROVE DirtyInFlight'
  <2>1. dirty' = dirty /\ \A q \in Op : op[q].pc = "bump" => op'[q] = op[q]
    BY <1>6 DEF AuditAdmin, TypeOK, db
  <2>2. QED
    BY <2>1 DEF DirtyInFlight, InFlight
<1>7. ASSUME NEW o \in Op, Edit(o) PROVE DirtyInFlight'
  BY <1>3, <1>4, <1>7, EditShape
<1>8. CASE \E e \in cache : Expire(e)
  BY <1>1, <1>8 DEF Expire, db
<1>9. CASE Flush
  BY <1>1, <1>9 DEF Flush, db
<1>10. CASE UNCHANGED vars
  BY <1>1, <1>10 DEF vars, db
<1>11. QED
  BY <1>2, <1>5, <1>6, <1>7, <1>8, <1>9, <1>10 DEF Next, EditStep, EditFails

(* Where no request is cut short and Redis keeps its data, an edit whose   *)
(* INCR has run has invalidated every cached decision it contradicts       *)
(* (cache.py:44-46).                                                       *)
THEOREM EditsDoInvalidate == Faults = {} /\ Spec => []EditsInvalidate
<1> SUFFICES ASSUME Faults = {} PROVE Spec => []EditsInvalidate
  OBVIOUS
<1>1. Init => IInv /\ DirtyInFlight
  BY InitTypes, InitCoherence DEF IInv, Init, DirtyInFlight
<1>2. IInv /\ DirtyInFlight /\ [Next]_vars => IInv' /\ DirtyInFlight'
  BY InvStep, DirtyStep DEF IInv
<1>3. IInv /\ DirtyInFlight => EditsInvalidate
  BY DEF IInv, TypeOK, Entry, Key, Coherence, CacheCoherent, DirtyInFlight, EditsInvalidate
<1>4. QED
  BY <1>1, <1>2, <1>3, PTL DEF Spec

----------------------------------------------------------------------------
(* Audit *)

(* A decision that is stored or served is on record: the inductive form of *)
(* ServedIsAudited covers the checks about to store and the cache.         *)
Record(c, decision, id) ==
  [id |-> id, tenant |-> c.subject.tenant, user |-> c.subject.user,
   action |-> c.action, resource |-> c.resource, decision |-> decision]

KeyRecord(k, decision, id) ==
  [id |-> id, tenant |-> k.tenant, user |-> k.user,
   action |-> k.action, resource |-> k.resource, decision |-> decision]

OnRecord ==
  /\ \A r \in Req : pc[r] \in {"store", "done"} =>
       Record(call[r], answer[r].decision, answer[r].id) \in audit
  /\ \A e \in cache : KeyRecord(e.key, e.decision, e.id) \in audit

LEMMA RecordStep == TypeOK /\ ForeignKeys /\ Holding /\ OnRecord /\ [Next]_vars => OnRecord'
<1> SUFFICES ASSUME TypeOK, ForeignKeys, Holding, OnRecord, [Next]_vars PROVE OnRecord'
  OBVIOUS
<1>1. ASSUME UNCHANGED <<pc, call, answer>>, audit \subseteq audit', cache' \subseteq cache
      PROVE  OnRecord'
  BY <1>1 DEF OnRecord
<1>2. ASSUME NEW r \in Req, NEW e \in cache, Hit(r, e) PROVE OnRecord'
  <2>1. e.key = DecisionKey(call[r], version[r])
    BY <1>2 DEF Hit, KeyOf
  <2>2. KeyRecord(e.key, e.decision, e.id) = Record(call[r], e.decision, e.id)
    BY <2>1 DEF DecisionKey, KeyRecord, Record
  <2>3. Record(call[r], e.decision, e.id) \in audit
    BY <2>2 DEF OnRecord
  <2>4. answer'[r].decision = e.decision /\ answer'[r].id = e.id
    BY <1>2 DEF Hit, TypeOK
  <2>5. \A q \in Req : q # r => pc'[q] = pc[q] /\ answer'[q] = answer[q]
    BY <1>2 DEF Hit, TypeOK
  <2>6. UNCHANGED <<audit, cache, call>>
    BY <1>2 DEF Hit
  <2>7. QED
    BY <2>3, <2>4, <2>5, <2>6 DEF OnRecord
<1>3. ASSUME NEW r \in Req, Decide(r) PROVE OnRecord'
  <2>1. PICK d \in Effect :
          /\ answer' = [answer EXCEPT ![r] = [decision |-> d, id |-> r]]
          /\ audit' = audit \cup {Record(call[r], d, r)}
    BY <1>3 DEF Decide, Record, TenantOf
  <2>2. answer'[r].decision = d /\ answer'[r].id = r
    BY <2>1 DEF TypeOK
  <2>3. \A q \in Req : q # r => pc'[q] = pc[q] /\ answer'[q] = answer[q]
    BY <1>3, <2>1 DEF Decide, TypeOK
  <2>4. UNCHANGED <<cache, call>>
    BY <1>3 DEF Decide
  <2>5. QED
    BY <2>1, <2>2, <2>3, <2>4 DEF OnRecord
<1>4. ASSUME NEW r \in Req, Store(r) PROVE OnRecord'
  <2> DEFINE new == [key |-> KeyOf(r), decision |-> answer[r].decision, id |-> r]
  <2>1. pc[r] = "store" /\ answer[r].id = r
    BY <1>4 DEF Store, Holding
  <2>2. Record(call[r], answer[r].decision, r) \in audit
    BY <2>1 DEF OnRecord
  <2>3. KeyRecord(new.key, new.decision, new.id) \in audit
    BY <2>2 DEF KeyOf, DecisionKey, KeyRecord, Record
  <2>4. cache' \subseteq cache \cup {new} /\ UNCHANGED <<audit, call, answer>>
    BY <1>4 DEF Store
  <2>5. \A q \in Req : pc'[q] \in {"store", "done"} => pc[q] \in {"store", "done"}
    BY <1>4, <2>1 DEF Store, TypeOK
  <2>6. QED
    BY <2>3, <2>4, <2>5 DEF OnRecord
<1>5. ASSUME NEW r \in Req,
             ReadEpoch(r) \/ Miss(r) \/ (\E f \in Field : Select(r, f)) \/ Raise(r) \/ CheckFails(r)
      PROVE  OnRecord'
  <2>1. \A f \in Field : After(f) \notin {"store", "done"}
    BY DEF After, Field
  <2>2. UNCHANGED <<audit, cache, call>>
    BY <1>5 DEF ReadEpoch, Miss, Select, Raise, CheckFails
  <2>3. /\ pc'[r] \notin {"store", "done"}
        /\ \A q \in Req : q # r => pc'[q] = pc[q] /\ answer'[q] = answer[q]
    BY <1>5, <2>1 DEF ReadEpoch, Miss, Select, Raise, CheckFails, TypeOK
  <2>4. QED
    BY <2>2, <2>3 DEF OnRecord
<1>6. ASSUME NEW o \in Op, Edit(o) PROVE OnRecord'
  BY <1>1, <1>6, EditShape DEF CreatePermission, Commit, check
<1>7. ASSUME NEW o \in Op, Bump(o) \/ AuditAdmin(o) \/ EditFails(o) PROVE OnRecord'
  BY <1>1, <1>7 DEF Bump, AuditAdmin, EditFails, check
<1>8. CASE \E e \in cache : Expire(e)
  BY <1>1, <1>8 DEF Expire, check
<1>9. CASE Flush
  BY <1>1, <1>9 DEF Flush, check
<1>10. CASE UNCHANGED vars
  BY <1>1, <1>10 DEF vars, check
<1>11. QED
  BY <1>2, <1>3, <1>4, <1>5, <1>6, <1>7, <1>8, <1>9, <1>10 DEF Next, CheckStep, EditStep

(* Whatever fails, every decision that is returned, computed or from the   *)
(* cache, is in the audit trail of its tenant under the decision_id that   *)
(* is returned with it (main.py:175-196).                                  *)
THEOREM ServedDecisionsAreAudited == Spec => []ServedIsAudited
<1>1. Init => TypeOK /\ ForeignKeys /\ Holding /\ OnRecord
  <2>1. Init => OnRecord
    BY DEF Init, OnRecord
  <2>2. QED
    BY <2>1, InitTypes
<1>2. OnRecord => ServedIsAudited
  BY DEF OnRecord, ServedIsAudited, Record, TenantOf
<1>3. QED
  BY <1>1, <1>2, TypeStep, HoldingStep, RecordStep, PTL DEF Spec

----------------------------------------------------------------------------
(* Answers *)

(* No two checks differ in nothing but what the cache key leaves out: the  *)
(* roles and org unit of the subject and the environment.                  *)
OneCallPerKey ==
  \A p, q \in Request :
    DecisionKey(Bind(p), 0) = DecisionKey(Bind(q), 0) => Bind(p) = Bind(q)

Asked == \A r \in Req : \E q \in Request : call[r] = Bind(q)

EntryKeyed == \A e \in cache : e.key = DecisionKey(call[e.id], e.key.epoch)

AInv == IInv /\ Asked /\ EntryKeyed /\ AnswersAreCurrent

LEMMA SameKeySameCall ==
  ASSUME OneCallPerKey, Asked, NEW p \in Req, NEW r \in Req, NEW v, NEW w,
         DecisionKey(call[p], v) = DecisionKey(call[r], w)
  PROVE  call[p] = call[r]
<1>1. DecisionKey(call[p], 0) = DecisionKey(call[r], 0)
  BY DEF DecisionKey
<1>2. QED
  BY <1>1 DEF OneCallPerKey, Asked

LEMMA CheckKeepsAnswers ==
  ASSUME AInv, OneCallPerKey, NEW r \in Req, CheckStep(r) \/ CheckFails(r)
  PROVE  Asked' /\ EntryKeyed' /\ AnswersAreCurrent'
<1>1. /\ UNCHANGED <<catalog, rows, dirty, epoch, call>>
      /\ \A q \in Req : TenantOf(q)' = TenantOf(q)
      /\ \A c : OutcomesNow(c)' = OutcomesNow(c)
      /\ \A q \in Req : q # r => UNCHANGED <<pc[q], version[q], answer[q]>>
  <2>1. UNCHANGED <<catalog, rows, dirty, epoch, call>>
    BY DEF CheckStep, CheckFails, ReadEpoch, Hit, Miss, Select, Decide, Raise, Store, db
  <2>2. \A q \in Req : q # r => UNCHANGED <<pc[q], version[q], answer[q]>>
    BY DEF CheckStep, CheckFails, ReadEpoch, Hit, Miss, Select, Decide, Raise, Store,
       AInv, IInv, TypeOK
  <2>3. QED
    BY <2>1, <2>2 DEF TenantOf, OutcomesNow
<1>2. Asked'
  BY <1>1 DEF AInv, Asked
<1>3. EntryKeyed'
  <2>1. CASE Store(r)
    <3>1. cache' \subseteq cache \cup
            {[key |-> KeyOf(r), decision |-> answer[r].decision, id |-> r]}
      BY <2>1 DEF Store
    <3>2. KeyOf(r) = DecisionKey(call[r], KeyOf(r).epoch)
      BY DEF KeyOf, DecisionKey
    <3>3. QED
      BY <1>1, <3>1, <3>2 DEF AInv, EntryKeyed, DecisionKey
  <2>2. CASE ~Store(r)
    <3>1. cache' = cache
      BY <2>2 DEF CheckStep, CheckFails, ReadEpoch, Hit, Miss, Select, Decide, Raise
    <3>2. QED
      BY <1>1, <3>1 DEF AInv, EntryKeyed, DecisionKey
  <2>3. QED
    BY <2>1, <2>2
<1>4. ASSUME pc'[r] = "done", version'[r] = epoch[TenantOf(r)], ~dirty[TenantOf(r)]
      PROVE  answer'[r].decision \in OutcomesNow(call[r])
  <2>1. Store(r) \/ \E e \in cache : Hit(r, e)
    <3>1. ASSUME NEW f \in Field, Select(r, f) PROVE FALSE
      BY <1>4, <3>1 DEF Select, After, Field, AInv, IInv, TypeOK
    <3>2. QED
      BY <1>4, <3>1 DEF CheckStep, CheckFails, ReadEpoch, Miss, Decide, Raise, AInv, IInv, TypeOK
  <2>2. CASE Store(r)
    <3>1. pc[r] = "store" /\ version' = version /\ answer' = answer
      BY <2>2 DEF Store
    <3>2. QED
      BY <1>4, <3>1 DEF AInv, IInv, Coherence, DecisionFresh, Fresh
  <2>3. ASSUME NEW e \in cache, Hit(r, e)
        PROVE  answer'[r].decision \in OutcomesNow(call[r])
    <3>1. /\ e.key = DecisionKey(call[r], version[r]) /\ e.id \in Req
          /\ version' = version /\ answer'[r].decision = e.decision
      BY <2>3 DEF Hit, KeyOf, AInv, IInv, TypeOK, Entry
    <3>2. call[e.id] = call[r]
      BY <3>1, SameKeySameCall DEF AInv, EntryKeyed
    <3>3. e.key.tenant = TenantOf(r) /\ e.key.epoch = version[r]
      BY <3>1 DEF DecisionKey, TenantOf
    <3>4. Coherent(e)
      BY <1>4, <3>1, <3>3 DEF AInv, IInv, Coherence, CacheCoherent, Current
    <3>5. QED
      BY <3>1, <3>2, <3>4 DEF Coherent
  <2>4. QED
    BY <2>1, <2>2, <2>3
<1>5. AnswersAreCurrent'
  BY <1>1, <1>4 DEF AInv, AnswersAreCurrent
<1>6. QED
  BY <1>2, <1>3, <1>5

(* Any other step leaves the answers alone and makes no check fresh.       *)
LEMMA OthersKeepAnswers ==
  ASSUME AInv, UNCHANGED <<pc, call, version, answer>>, cache' \subseteq cache,
         \A q \in Req : Fresh(q)' =>
           Fresh(q) /\ (answer[q].decision \in OutcomesNow(call[q])
                          => answer[q].decision \in OutcomesNow(call[q])')
  PROVE  Asked' /\ EntryKeyed' /\ AnswersAreCurrent'
<1>1. Asked' /\ EntryKeyed'
  BY DEF AInv, Asked, EntryKeyed, DecisionKey
<1>2. AnswersAreCurrent'
  BY DEF AInv, AnswersAreCurrent, Fresh
<1>3. QED
  BY <1>1, <1>2

LEMMA AnswersStep ==
  "flush" \notin Faults /\ OneCallPerKey /\ AInv /\ [Next]_vars => AInv'
<1> SUFFICES ASSUME "flush" \notin Faults, OneCallPerKey, AInv, [Next]_vars PROVE AInv'
  OBVIOUS
<1>1. IInv'
  BY InvStep DEF AInv
<1>2. ASSUME NEW r \in Req, CheckStep(r) \/ CheckFails(r) PROVE AInv'
  BY <1>1, <1>2, CheckKeepsAnswers DEF AInv
<1>3. \A q \in Req : TenantOf(q) \in Tenant
  BY DEF TenantOf, AInv, IInv, TypeOK, Call, Subject
<1>4. ASSUME NEW o \in Op, Edit(o) PROVE AInv'
  <2>1. ASSUME NEW t \in Tenant, NEW new \in Rows, Commit(o, t, new) PROVE AInv'
    <3>1. UNCHANGED <<catalog, epoch, cache, pc, call, version, answer>>
      BY <2>1 DEF Commit, check
    <3>2. \A u \in Tenant : ~dirty'[u] => ~dirty[u] /\ rows'[u] = rows[u]
      BY <2>1 DEF Commit, AInv, IInv, TypeOK
    <3>3. \A q \in Req : Fresh(q)' => Fresh(q) /\ OutcomesNow(call[q])' = OutcomesNow(call[q])
      BY <1>3, <3>1, <3>2 DEF Fresh, OutcomesNow, TenantOf
    <3>4. QED
      BY <1>1, <3>1, <3>3, OthersKeepAnswers DEF AInv
  <2>2. ASSUME NEW p \in Perm, CreatePermission(o, p) PROVE AInv'
    <3>1. /\ UNCHANGED <<rows, dirty, epoch, cache, pc, call, version, answer>>
          /\ catalog \subseteq catalog'
      BY <2>2 DEF CreatePermission, check
    <3>2. \A q \in Req : OutcomesNow(call[q])' = OutcomesNow(call[q])
      <4> SUFFICES ASSUME NEW q \in Req
                   PROVE  Outcomes(catalog', rows[TenantOf(q)], call[q])
                            = Outcomes(catalog, rows[TenantOf(q)], call[q])
        BY <3>1 DEF OutcomesNow, TenantOf
      <4>1. rows[TenantOf(q)] \in Rows /\ Keyed(rows[TenantOf(q)])
        BY <1>3 DEF AInv, IInv, TypeOK, ForeignKeys
      <4>2. QED
        BY <3>1, <4>1, CatalogIrrelevant
    <3>3. \A q \in Req : Fresh(q)' = Fresh(q)
      BY <3>1 DEF Fresh, TenantOf
    <3>4. QED
      BY <1>1, <3>1, <3>2, <3>3, OthersKeepAnswers DEF AInv
  <2>3. QED
    BY <1>4, <2>1, <2>2, EditShape DEF AInv, IInv
<1>5. ASSUME NEW o \in Op, Bump(o) PROVE AInv'
  <2> DEFINE t == op[o].tenant
  <2>1. UNCHANGED <<catalog, rows, cache, pc, call, version, answer>> /\ t \in Tenant
    BY <1>5 DEF Bump, check, AInv, IInv, TypeOK, OpState
  <2>2. /\ epoch'[t] = epoch[t] + 1 /\ epoch[t] \in Nat
        /\ \A u \in Tenant : u # t => epoch'[u] = epoch[u] /\ dirty'[u] = dirty[u]
    BY <1>5, <2>1 DEF Bump, AInv, IInv, TypeOK
  <2>3. \A q \in Req : version[q] <= epoch[TenantOf(q)] /\ version[q] \in Nat
    BY DEF AInv, IInv, Coherence, NotAhead, TypeOK
  <2>4. \A q \in Req : Fresh(q)' => Fresh(q) /\ OutcomesNow(call[q])' = OutcomesNow(call[q])
    BY <1>3, <2>1, <2>2, <2>3 DEF Fresh, OutcomesNow, TenantOf
  <2>5. QED
    BY <1>1, <2>1, <2>4, OthersKeepAnswers DEF AInv
<1>6. ASSUME UNCHANGED <<db, epoch, check>>, cache' \subseteq cache PROVE AInv'
  <2>1. UNCHANGED <<catalog, rows, dirty, epoch, pc, call, version, answer>>
    BY <1>6 DEF db, check
  <2>2. \A q \in Req : Fresh(q)' = Fresh(q) /\ OutcomesNow(call[q])' = OutcomesNow(call[q])
    BY <2>1 DEF Fresh, OutcomesNow, TenantOf
  <2>3. QED
    BY <1>1, <1>6, <2>1, <2>2, OthersKeepAnswers DEF AInv
<1>7. ASSUME NEW o \in Op, AuditAdmin(o) \/ EditFails(o) PROVE AInv'
  BY <1>6, <1>7 DEF AuditAdmin, EditFails
<1>8. ASSUME NEW e \in cache, Expire(e) PROVE AInv'
  BY <1>6, <1>8 DEF Expire
<1>9. CASE Flush
  BY <1>9 DEF Flush
<1>10. CASE UNCHANGED vars
  BY <1>6, <1>10 DEF vars
<1>11. QED
  BY <1>2, <1>4, <1>5, <1>7, <1>8, <1>9, <1>10 DEF Next, EditStep

(* As long as Redis keeps its data and no two checks differ only in what   *)
(* the cache key leaves out, the answer of a check whose epoch is still    *)
(* the tenant's is what the committed tables give, until the next edit     *)
(* (main.py:172-196).  The run pdp_demoted shows that the second condition *)
(* is needed.                                                              *)
THEOREM CurrentAnswers ==
  "flush" \notin Faults /\ OneCallPerKey /\ Spec => []AnswersAreCurrent
<1> SUFFICES ASSUME "flush" \notin Faults, OneCallPerKey PROVE Spec => []AnswersAreCurrent
  OBVIOUS
<1>1. Init => AInv
  <2>1. Init => IInv
    BY InitTypes, InitCoherence DEF IInv
  <2>2. Init => Asked /\ EntryKeyed /\ AnswersAreCurrent
    BY DEF Init, Asked, EntryKeyed, AnswersAreCurrent
  <2>3. QED
    BY <2>1, <2>2 DEF AInv
<1>2. AInv /\ [Next]_vars => AInv'
  BY AnswersStep
<1>3. AInv => AnswersAreCurrent
  BY DEF AInv
<1>4. QED
  BY <1>1, <1>2, <1>3, PTL DEF Spec

----------------------------------------------------------------------------
(* Edits *)

(* A new catalog entry changes no decision, whatever the tables and the    *)
(* call (main.py:202-223).                                                 *)
THEOREM CatalogNeedsNone == Spec => CatalogNeedsNoBump
<1>1. ASSUME TypeOK, ForeignKeys, NEW o \in Op, NEW p \in Perm, CreatePermission(o, p),
             NEW r \in Req
      PROVE  OutcomesNow(call[r])' = OutcomesNow(call[r])
  <2>1. UNCHANGED <<rows, call>> /\ catalog \subseteq catalog'
    BY <1>1 DEF CreatePermission, check
  <2>2. rows[TenantOf(r)] \in Rows /\ Keyed(rows[TenantOf(r)])
    BY <1>1 DEF TenantOf, TypeOK, ForeignKeys, Call, Subject
  <2>3. Outcomes(catalog', rows[TenantOf(r)], call[r]) = Outcomes(catalog, rows[TenantOf(r)], call[r])
    BY <2>1, <2>2, CatalogIrrelevant
  <2>4. QED
    BY <2>1, <2>3 DEF OutcomesNow, TenantOf
<1>2. TypeOK /\ ForeignKeys /\ [Next]_vars =>
        [\A o \in Op, p \in Perm :
           CreatePermission(o, p) => \A r \in Req : OutcomesNow(call[r])' = OutcomesNow(call[r])]_catalog
  BY <1>1
<1>3. QED
  BY <1>2, InitTypes, TypeStep, HoldingStep, PTL DEF Spec, CatalogNeedsNoBump

(* More edges between roles make more roles effective. *)
LEMMA ClosureGrows ==
  ASSUME NEW edges, NEW more, edges \subseteq more, NEW roles
  PROVE  Closure(edges, roles) \subseteq Closure(more, roles)
BY DEF Closure

LEMMA GrantsGrow ==
  ASSUME NEW less, NEW more, NEW call1,
         less.edges \subseteq more.edges, less.grants \subseteq more.grants,
         less.direct \subseteq more.direct, less.roles = more.roles
  PROVE  /\ EffectivePermissionKeys(less, call1.subject.roles)
              \subseteq EffectivePermissionKeys(more, call1.subject.roles)
         /\ DirectPermissionKeys(less, call1.subject.user)
              \subseteq DirectPermissionKeys(more, call1.subject.user)
BY ClosureGrows DEF EffectivePermissionKeys, DirectPermissionKeys

(* The policies allow when every deny policy evaluates to false and some   *)
(* allow policy to true, or there is none.                                 *)
LEMMA AllowedWhen ==
  ASSUME NEW tables \in Rows, NEW c \in Call
  PROVE  "allow" \in PolicyOutcomes(tables, c) <=>
           /\ \A p \in Applicable(tables, c.action, "deny") : Evaluate(p.cond, c) = "false"
           /\ \/ Applicable(tables, c.action, "allow") = {}
              \/ \E p \in Applicable(tables, c.action, "allow") : Evaluate(p.cond, c) = "true"
<1> DEFINE denies == Applicable(tables, c.action, "deny")
           allows == Applicable(tables, c.action, "allow")
<1>1. \A p \in denies \cup allows : Evaluate(p.cond, c) \in {"true", "false", "raise"}
  BY EngineAssumption DEF Applicable, Rows, Policy, Truth
<1>2. /\ Scan(denies, c) \subseteq {"true", "false", "raise"}
      /\ Scan(allows, c) \subseteq {"true", "false", "raise"}
  BY <1>1 DEF Scan
<1>3. "false" \in Scan(denies, c) <=> \A p \in denies : Evaluate(p.cond, c) = "false"
  BY DEF Scan
<1>4. "true" \in Scan(allows, c) <=> \E p \in allows : Evaluate(p.cond, c) = "true"
  BY DEF Scan
<1>5. "allow" \in AllowStage(allows, c) <=> allows = {} \/ "true" \in Scan(allows, c)
  BY <1>2 DEF AllowStage
<1>6. "allow" \in PolicyOutcomes(tables, c) <=>
        "false" \in Scan(denies, c) /\ "allow" \in AllowStage(allows, c)
  BY <1>2 DEF PolicyOutcomes
<1>7. QED
  BY <1>3, <1>4, <1>5, <1>6

LEMMA MoreGranted ==
  ASSUME NEW less \in Rows, NEW more \in Rows, NEW c,
         less.edges \subseteq more.edges, less.grants \subseteq more.grants,
         less.direct \subseteq more.direct, less.roles = more.roles,
         less.policies = more.policies,
         "allow" \in Outcomes(catalog, less, c)
  PROVE  "allow" \in Outcomes(catalog, more, c)
<1>1. PolicyOutcomes(less, c) = PolicyOutcomes(more, c)
  BY DEF PolicyOutcomes, Applicable
<1>2. /\ EffectivePermissionKeys(less, c.subject.roles)
           \subseteq EffectivePermissionKeys(more, c.subject.roles)
      /\ DirectPermissionKeys(less, c.subject.user) \subseteq DirectPermissionKeys(more, c.subject.user)
  BY GrantsGrow
<1>3. QED
  BY <1>1, <1>2 DEF Outcomes

(* A deny policy, or the first allow policy of a permission, allows less.  *)
LEMMA PolicyRestricts ==
  ASSUME NEW tables \in Rows, NEW new \in Rows, NEW p \in Policy, NEW c \in Call,
         new = [tables EXCEPT !.policies = @ \cup {p}],
         p.effect = "deny" \/ Applicable(tables, p.perm, "allow") = {},
         "allow" \in Outcomes(catalog, new, c)
  PROVE  "allow" \in Outcomes(catalog, tables, c)
<1>1. /\ new.policies = tables.policies \cup {p}
      /\ new.roles = tables.roles /\ new.edges = tables.edges
      /\ new.grants = tables.grants /\ new.direct = tables.direct
  BY DEF Rows
<1>2. /\ EffectivePermissionKeys(new, c.subject.roles)
           = EffectivePermissionKeys(tables, c.subject.roles)
      /\ DirectPermissionKeys(new, c.subject.user) = DirectPermissionKeys(tables, c.subject.user)
  BY <1>1 DEF EffectivePermissionKeys, DirectPermissionKeys
<1>3. Applicable(tables, c.action, "deny") \subseteq Applicable(new, c.action, "deny")
  BY <1>1 DEF Applicable
<1>4. \/ Applicable(tables, c.action, "allow") = {}
      \/ Applicable(tables, c.action, "allow") = Applicable(new, c.action, "allow")
  BY <1>1 DEF Applicable
<1>5. "allow" \in PolicyOutcomes(new, c) => "allow" \in PolicyOutcomes(tables, c)
  BY <1>3, <1>4, AllowedWhen
<1>6. QED
  BY <1>2, <1>5 DEF Outcomes

(* An edit changes what its own tenant's tables allow, and no other's.     *)
LEMMA CommitAlone ==
  ASSUME TypeOK, NEW o \in Op, NEW t \in Tenant, NEW new, Commit(o, t, new), NEW r \in Req
  PROVE  /\ TenantOf(r) # t => MayAllow(call[r])' = MayAllow(call[r])
         /\ TenantOf(r) = t => /\ MayAllow(call[r]) <=> "allow" \in Outcomes(catalog, rows[t], call[r])
                               /\ MayAllow(call[r])' <=> "allow" \in Outcomes(catalog, new, call[r])
<1>1. TenantOf(r) \in Tenant /\ TenantOf(r) = call[r].subject.tenant
  BY DEF TenantOf, TypeOK, Call, Subject
<1>2. /\ UNCHANGED <<catalog, call>>
      /\ rows'[t] = new /\ \A u \in Tenant : u # t => rows'[u] = rows[u]
  BY DEF Commit, check, TypeOK
<1>3. QED
  BY <1>1, <1>2 DEF MayAllow, OutcomesNow

LEMMA WideningWidens ==
  ASSUME TypeOK, NEW o \in Op, NEW t \in Tenant, Widening(o, t), NEW r \in Req, MayAllow(call[r])
  PROVE  MayAllow(call[r])'
<1>0. rows[t] \in Rows
  BY DEF TypeOK
<1>1. ASSUME NEW new \in Rows, Commit(o, t, new), new.roles = rows[t].roles,
             rows[t].edges \subseteq new.edges, rows[t].grants \subseteq new.grants,
             rows[t].direct \subseteq new.direct, new.policies = rows[t].policies
      PROVE  MayAllow(call[r])'
  <2>1. "allow" \in Outcomes(catalog, rows[t], call[r]) => "allow" \in Outcomes(catalog, new, call[r])
    BY <1>0, <1>1, MoreGranted
  <2>2. QED
    BY <1>1, <2>1, CommitAlone
<1>2. ASSUME NEW x \in Role, NEW p \in Perm, GrantPermission(o, t, x, p) PROVE MayAllow(call[r])'
  <2> DEFINE new == [rows[t] EXCEPT !.grants = @ \cup {<<x, p>>}]
  <2>1. /\ new \in Rows /\ new.roles = rows[t].roles /\ new.edges = rows[t].edges
        /\ rows[t].grants \subseteq new.grants /\ new.direct = rows[t].direct
        /\ new.policies = rows[t].policies
    BY <1>0 DEF Rows
  <2>2. Commit(o, t, new)
    BY <1>2 DEF GrantPermission
  <2> HIDE DEF new
  <2>3. QED
    BY <1>1, <2>1, <2>2
<1>3. ASSUME NEW x \in Role, NEW y \in Role, AddChildRole(o, t, x, y) PROVE MayAllow(call[r])'
  <2> DEFINE new == [rows[t] EXCEPT !.edges = @ \cup {<<x, y>>}]
  <2>1. /\ new \in Rows /\ new.roles = rows[t].roles /\ rows[t].edges \subseteq new.edges
        /\ rows[t].grants = new.grants /\ new.direct = rows[t].direct
        /\ new.policies = rows[t].policies
    BY <1>0 DEF Rows
  <2>2. Commit(o, t, new)
    BY <1>3 DEF AddChildRole
  <2> HIDE DEF new
  <2>3. QED
    BY <1>1, <2>1, <2>2
<1>4. ASSUME NEW u \in User, NEW p \in Perm, GrantMembershipPermission(o, t, u, p)
      PROVE  MayAllow(call[r])'
  <2> DEFINE new == [rows[t] EXCEPT !.direct = @ \cup {<<u, p>>}]
  <2>1. /\ new \in Rows /\ new.roles = rows[t].roles /\ rows[t].edges = new.edges
        /\ rows[t].grants = new.grants /\ rows[t].direct \subseteq new.direct
        /\ new.policies = rows[t].policies
    BY <1>0 DEF Rows
  <2>2. Commit(o, t, new)
    BY <1>4 DEF GrantMembershipPermission
  <2> HIDE DEF new
  <2>3. QED
    BY <1>1, <2>1, <2>2
<1>5. QED
  BY <1>2, <1>3, <1>4 DEF Widening

LEMMA RestrictingRestricts ==
  ASSUME TypeOK, NEW o \in Op, NEW t \in Tenant, Restricting(o, t), NEW r \in Req,
         MayAllow(call[r])'
  PROVE  MayAllow(call[r])
<1>0. rows[t] \in Rows /\ call[r] \in Call
  BY DEF TypeOK
<1>1. ASSUME NEW x \in Role, NEW p \in Perm, RevokePermission(o, t, x, p) PROVE MayAllow(call[r])
  <2> DEFINE new == [rows[t] EXCEPT !.grants = @ \ {<<x, p>>}]
  <2>1. /\ new \in Rows /\ new.roles = rows[t].roles /\ new.edges = rows[t].edges
        /\ new.grants \subseteq rows[t].grants /\ new.direct = rows[t].direct
        /\ new.policies = rows[t].policies
    BY <1>0 DEF Rows
  <2>2. Commit(o, t, new)
    BY <1>1 DEF RevokePermission
  <2> HIDE DEF new
  <2>3. "allow" \in Outcomes(catalog, new, call[r]) => "allow" \in Outcomes(catalog, rows[t], call[r])
    BY <1>0, <2>1, MoreGranted
  <2>4. QED
    BY <2>2, <2>3, CommitAlone
<1>2. ASSUME NEW u \in User, NEW p \in Perm, RevokeMembershipPermission(o, t, u, p)
      PROVE  MayAllow(call[r])
  <2> DEFINE new == [rows[t] EXCEPT !.direct = @ \ {<<u, p>>}]
  <2>1. /\ new \in Rows /\ new.roles = rows[t].roles /\ new.edges = rows[t].edges
        /\ new.grants = rows[t].grants /\ new.direct \subseteq rows[t].direct
        /\ new.policies = rows[t].policies
    BY <1>0 DEF Rows
  <2>2. Commit(o, t, new)
    BY <1>2 DEF RevokeMembershipPermission
  <2> HIDE DEF new
  <2>3. "allow" \in Outcomes(catalog, new, call[r]) => "allow" \in Outcomes(catalog, rows[t], call[r])
    BY <1>0, <2>1, MoreGranted
  <2>4. QED
    BY <2>2, <2>3, CommitAlone
<1>3. ASSUME NEW p \in Policy, CreatePolicy(o, t, p),
             p.effect = "deny" \/ Applicable(rows[t], p.perm, "allow") = {}
      PROVE  MayAllow(call[r])
  <2> DEFINE new == [rows[t] EXCEPT !.policies = @ \cup {p}]
  <2>1. new \in Rows
    BY <1>0 DEF Rows
  <2>2. Commit(o, t, new)
    BY <1>3 DEF CreatePolicy
  <2>3. "allow" \in Outcomes(catalog, new, call[r]) => "allow" \in Outcomes(catalog, rows[t], call[r])
    BY <1>0, <1>3, <2>1, PolicyRestricts
  <2> HIDE DEF new
  <2>4. QED
    BY <2>2, <2>3, CommitAlone
<1>4. QED
  BY <1>1, <1>2, <1>3 DEF Restricting

(* Revoking a grant, and creating a deny policy or the first allow policy  *)
(* of a permission, never let anyone do more; granting and inheriting      *)
(* never let anyone do less, whatever the conditions are and in whichever  *)
(* order policies are scanned (engine.py:181-189).                         *)
THEOREM EditsDoStayMonotone == Spec => EditsAreMonotone
<1>1. TypeOK /\ [Next]_vars =>
        [\A o \in Op, t \in Tenant :
           /\ Restricting(o, t) => \A r \in Req : MayAllow(call[r])' => MayAllow(call[r])
           /\ Widening(o, t) => \A r \in Req : MayAllow(call[r]) => MayAllow(call[r])']_rows
  BY WideningWidens, RestrictingRestricts
<1>2. QED
  BY <1>1, TypeCorrect, PTL DEF Spec, EditsAreMonotone
=============================================================================
