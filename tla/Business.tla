------------------------------ MODULE Business ------------------------------
(***************************************************************************)
(* The services that own data (Expense, Invoice, Payroll) and the          *)
(* enforcement point they share (libs/pep): every handler asks the PDP     *)
(* over HTTP and acts on the answer.  Between the transaction that loads a *)
(* document, the question, and the transaction that changes it, nothing is *)
(* locked.                                                                 *)
(*                                                                         *)
(* An expense is "settled" by approving it, an invoice by issuing it: the  *)
(* two handlers are the same.  The PDP appears as what Pdp shows of it     *)
(* (ServedIsAudited): an answer is computed by decide on the tenant's      *)
(* tables, or is that of an earlier decision, found in the audit trail,    *)
(* for the same user, tenant, action and resource.  Each id of Req is one  *)
(* request.                                                                *)
(***************************************************************************)
EXTENDS AuthzEngine

CONSTANTS
  Req, Id,
  Queries,     \* the requests users may send, see Query
  Catalog,     \* the permissions of these services
  ActionOf,    \* ActionOf[kind, verb], the permission key of a handler
  NoEnv,       \* the PEP sends no environment
  NoAttrs,     \* and no attributes where it asks before it loads
  Value,       \* amounts of expenses and invoices, periods of payslips
  Nobody,
  Seeded,      \* the documents at the start
  Tables       \* the tables tenants may have

VARIABLES
  documents,  \* expenses, invoices and payslips
  rows,       \* tenant -> its tables at the PDP
  audit,      \* the decisions the PDP has written down
  pc,         \* request -> its next step
  query,      \* request -> what was asked
  held,       \* request -> documents loaded and not dealt with yet
  shown       \* request -> documents for the response

vars == <<documents, rows, audit, pc, query, held, shown>>

Kind == {"expense", "invoice", "payslip"}

Doc == [id : Id, kind : Kind, tenant : Tenant, org : Org, owner : User,
        value : Value, status : {"open", "settled"}, by : User \cup {Nobody}]

(* id names the document in the path of a read or a settle; value is in    *)
(* the body of a create, with owner and org for a payslip.                 *)
Query == [verb : {"create", "read", "settle", "list"}, kind : Kind, token : Subject,
          id : Id, owner : User, org : Org, value : Value]

Decision == [user : User, tenant : Tenant, action : Perm, resource : Resource,
             decision : Effect]

(* Mutant of ResourceOf: the author is not sent. *)
ResourceWithoutOwner(d) ==
  IF d.kind = "payslip"
  THEN [owner |-> d.owner, org |-> d.org, period |-> d.value]
  ELSE [amount |-> d.value, org |-> d.org, status |-> d.status]

(* The attributes of a document that are sent to the PDP. *)
ResourceOf(d) ==
  IF d.kind = "payslip"
  THEN [owner |-> d.owner, org |-> d.org, period |-> d.value]
  ELSE [amount |-> d.value, org |-> d.org, owner |-> d.owner, status |-> d.status]

ASSUME BusinessAssumption ==
  /\ Queries \subseteq Query
  /\ \A q \in Queries : q.verb = "settle" => q.kind # "payslip"
  /\ ActionOf \in [Kind \X {"create", "read", "settle"} -> Perm]
  /\ NoEnv \in Env
  /\ NoAttrs \in Resource
  /\ \A d \in Doc : ResourceOf(d) \in Resource
  /\ Seeded \subseteq Doc
  /\ \A c, d \in Seeded : c.id = d.id => c = d
  /\ Tables \subseteq Rows

Init ==
  /\ documents = Seeded
  /\ rows \in [Tenant -> Tables]
  /\ audit = {}
  /\ pc = [r \in Req |-> "idle"]
  /\ query \in [Req -> Queries]
  /\ held = [r \in Req |-> {}]
  /\ shown = [r \in Req |-> {}]

----------------------------------------------------------------------------
(* Mutant of Visible: a session without row-level security. *)
VisibleAnywhere(r) == {d \in documents : d.kind = query[r].kind}

(* What a tenant session lets the handler see. *)
Visible(r) ==
  {d \in documents : d.tenant = query[r].token.tenant /\ d.kind = query[r].kind}

(* Handlers whose question carries attributes load first. *)
LoadsFirst(q) == q.verb = "settle" \/ (q.kind = "payslip" /\ q.verb # "create")

Start(r) ==
  /\ pc[r] = "idle"
  /\ pc' = [pc EXCEPT ![r] = IF LoadsFirst(query[r]) THEN "load" ELSE "enforce"]
  /\ UNCHANGED <<documents, rows, audit, query, held, shown>>

Load(r) ==
  /\ pc[r] = "load"
  /\ query[r].verb # "list"
  /\ \E d \in Visible(r) :
       /\ d.id = query[r].id
       /\ held' = [held EXCEPT ![r] = {d}]
  /\ pc' = [pc EXCEPT ![r] = "enforce"]
  /\ UNCHANGED <<documents, rows, audit, query, shown>>

(* A page of the tenant's payslips. *)
LoadPage(r) ==
  /\ pc[r] = "load"
  /\ query[r].verb = "list"
  /\ \E page \in SUBSET Visible(r) : held' = [held EXCEPT ![r] = page]
  /\ pc' = [pc EXCEPT ![r] = "filter"]
  /\ UNCHANGED <<documents, rows, audit, query, shown>>

NotFound(r) ==
  /\ \/ pc[r] = "load" /\ query[r].verb # "list"
     \/ pc[r] = "apply" /\ query[r].verb = "read" /\ query[r].kind # "payslip"
  /\ \A d \in Visible(r) : d.id # query[r].id
  /\ pc' = [pc EXCEPT ![r] = "rejected"]
  /\ UNCHANGED <<documents, rows, audit, query, held, shown>>

----------------------------------------------------------------------------
(* The question to the PDP. *)

CallOf(r, attrs) ==
  LET q == query[r]
  IN  [subject |-> q.token,
       action |-> ActionOf[q.kind, IF q.verb = "list" THEN "read" ELSE q.verb],
       resource |-> attrs, env |-> NoEnv]

DecisionOn(call, d) ==
  [user |-> call.subject.user, tenant |-> call.subject.tenant,
   action |-> call.action, resource |-> call.resource, decision |-> d]

Computed(call) == Outcomes(Catalog, rows[call.subject.tenant], call) \cap Effect

(* The PDP answers d, from its cache or computed and written down. *)
Answers(call, d) ==
  \/ DecisionOn(call, d) \in audit /\ UNCHANGED audit
  \/ d \in Computed(call) /\ audit' = audit \cup {DecisionOn(call, d)}

Attrs(r) == IF held[r] = {} THEN NoAttrs ELSE ResourceOf(CHOOSE d \in held[r] : TRUE)

Allowed(r) ==
  /\ pc[r] = "enforce"
  /\ Answers(CallOf(r, Attrs(r)), "allow")
  /\ pc' = [pc EXCEPT ![r] = "apply"]
  /\ UNCHANGED <<documents, rows, query, held, shown>>

Forbidden(r) ==
  /\ pc[r] = "enforce"
  /\ Answers(CallOf(r, Attrs(r)), "deny")
  /\ pc' = [pc EXCEPT ![r] = "rejected"]
  /\ UNCHANGED <<documents, rows, query, held, shown>>

(* Mutant of Unavailable: enforcement fails open. *)
UnavailablePasses(r) ==
  /\ pc[r] = "enforce"
  /\ pc' = [pc EXCEPT ![r] = "apply"]
  /\ UNCHANGED <<documents, rows, audit, query, held, shown>>

(* No answer in time, no connection, or a status other than 200: a 503     *)
(* for the user, in a list too.  The PDP may have decided all the same.    *)
Unavailable(r) ==
  /\ pc[r] \in {"enforce", "filter"}
  /\ \/ UNCHANGED audit
     \/ \E attrs \in IF pc[r] = "enforce" THEN {Attrs(r)} ELSE {ResourceOf(d) : d \in held[r]} :
          \E d \in Computed(CallOf(r, attrs)) : audit' = audit \cup {DecisionOn(CallOf(r, attrs), d)}
  /\ pc' = [pc EXCEPT ![r] = "rejected"]
  /\ UNCHANGED <<documents, rows, query, held, shown>>

(* Mutant of Keep: the loop does not move on. *)
KeepStays(r, d) ==
  /\ pc[r] = "filter"
  /\ d \in held[r]
  /\ Answers(CallOf(r, ResourceOf(d)), "allow")
  /\ shown' = [shown EXCEPT ![r] = @ \cup {d}]
  /\ UNCHANGED <<documents, rows, pc, query, held>>

(* The loop of list_payslips: one question for each row of the page. *)
Keep(r, d) ==
  /\ pc[r] = "filter"
  /\ d \in held[r]
  /\ Answers(CallOf(r, ResourceOf(d)), "allow")
  /\ shown' = [shown EXCEPT ![r] = @ \cup {d}]
  /\ held' = [held EXCEPT ![r] = @ \ {d}]
  /\ UNCHANGED <<documents, rows, pc, query>>

Skip(r, d) ==
  /\ pc[r] = "filter"
  /\ d \in held[r]
  /\ Answers(CallOf(r, ResourceOf(d)), "deny")
  /\ held' = [held EXCEPT ![r] = @ \ {d}]
  /\ UNCHANGED <<documents, rows, pc, query, shown>>

(* Mutant of Filtered: a page with a visible row is returned whole. *)
FilteredByFirst(r) ==
  /\ pc[r] = "filter"
  /\ held[r] = {} \/ shown[r] # {}
  /\ shown' = [shown EXCEPT ![r] = @ \cup held[r]]
  /\ pc' = [pc EXCEPT ![r] = "done"]
  /\ UNCHANGED <<documents, rows, audit, query, held>>

Filtered(r) ==
  /\ pc[r] = "filter"
  /\ held[r] = {}
  /\ pc' = [pc EXCEPT ![r] = "done"]
  /\ UNCHANGED <<documents, rows, audit, query, held, shown>>

----------------------------------------------------------------------------
(* What the handlers do once they are allowed to. *)

(* A new row has a new random id (a bound: Id has one for each create). *)
Insert(r) ==
  /\ pc[r] = "apply"
  /\ query[r].verb = "create"
  /\ \E id \in Id \ {d.id : d \in documents} :
       LET q == query[r]
       IN  documents' = documents \cup
           {[id |-> id, kind |-> q.kind, tenant |-> q.token.tenant,
             org |-> IF q.kind = "payslip" THEN q.org ELSE q.token.org,
             owner |-> IF q.kind = "payslip" THEN q.owner ELSE q.token.user,
             value |-> q.value, status |-> "open", by |-> Nobody]}
  /\ pc' = [pc EXCEPT ![r] = "done"]
  /\ UNCHANGED <<rows, audit, query, held, shown>>

(* Mutant of Settle: the principal is stored, not its user id. *)
SettleByPrincipal(r) ==
  /\ pc[r] = "apply"
  /\ query[r].verb = "settle"
  /\ documents' = {IF d \in Visible(r) /\ d.id = query[r].id
                     THEN [d EXCEPT !.status = "settled", !.by = query[r].token]
                     ELSE d : d \in documents}
  /\ pc' = [pc EXCEPT ![r] = "done"]
  /\ UNCHANGED <<rows, audit, query, held, shown>>

(* approve_expense and issue_invoice load the row again and set two        *)
(* columns, whatever its status by then.                                   *)
Settle(r) ==
  /\ pc[r] = "apply"
  /\ query[r].verb = "settle"
  /\ documents' = {IF d \in Visible(r) /\ d.id = query[r].id
                     THEN [d EXCEPT !.status = "settled", !.by = query[r].token.user]
                     ELSE d : d \in documents}
  /\ pc' = [pc EXCEPT ![r] = "done"]
  /\ UNCHANGED <<rows, audit, query, held, shown>>

(* get_payslip returns what it loaded before it asked. *)
Show(r) ==
  /\ pc[r] = "apply"
  /\ \/ /\ query[r].verb = "read" /\ query[r].kind = "payslip"
        /\ shown' = [shown EXCEPT ![r] = held[r]]
     \/ /\ query[r].verb = "read" /\ query[r].kind # "payslip"
        /\ \E d \in Visible(r) : d.id = query[r].id /\ shown' = [shown EXCEPT ![r] = {d}]
     \/ /\ query[r].verb = "list"
        /\ \E page \in SUBSET Visible(r) : shown' = [shown EXCEPT ![r] = page]
  /\ pc' = [pc EXCEPT ![r] = "done"]
  /\ UNCHANGED <<documents, rows, audit, query, held>>

(* Administrators edit the tenant's tables at the PDP meanwhile. *)
Administer(t) ==
  /\ \E new \in Tables : rows' = [rows EXCEPT ![t] = new]
  /\ UNCHANGED <<documents, audit, pc, query, held, shown>>

Handle(r) ==
  \/ Start(r) \/ Load(r) \/ LoadPage(r) \/ NotFound(r)
  \/ Allowed(r) \/ Forbidden(r)
  \/ (\E d \in held[r] : Keep(r, d) \/ Skip(r, d)) \/ Filtered(r)
  \/ Insert(r) \/ Settle(r) \/ Show(r)

Next ==
  \/ \E r \in Req : Handle(r) \/ Unavailable(r)
  \/ \E t \in Tenant : Administer(t)

Spec == Init /\ [][Next]_vars

(* A request that has begun is run to its end.  A question has an answer   *)
(* or, when decide raises, a status other than 200, at the latest when the *)
(* PEP's timeout of 3 s is over; the PDP need not fail other than that.    *)
Unanswerable(r) ==
  \/ pc[r] = "enforce" /\ Computed(CallOf(r, Attrs(r))) = {}
  \/ pc[r] = "filter" /\ \E d \in held[r] : Computed(CallOf(r, ResourceOf(d))) = {}

FairSpec ==
  /\ Spec
  /\ \A r \in Req : /\ WF_vars(pc[r] # "idle" /\ Handle(r))
                    /\ WF_vars(Unanswerable(r) /\ Unavailable(r))

----------------------------------------------------------------------------
(* Properties *)

TypeOK ==
  /\ documents \subseteq Doc
  /\ rows \in [Tenant -> Tables]
  /\ audit \subseteq Decision
  /\ pc \in [Req -> {"idle", "load", "enforce", "filter", "apply", "done", "rejected"}]
  /\ query \in [Req -> Queries]
  /\ held \in [Req -> SUBSET Doc]
  /\ shown \in [Req -> SUBSET Doc]

WasAllowed(user, tenant, action, resource) ==
  [user |-> user, tenant |-> tenant, action |-> action, resource |-> resource,
   decision |-> "allow"] \in audit

(* The user a document names, on the attributes it has, but for the status *)
(* and that user.                                                          *)
AllowedToSettle(d) ==
  \E s \in {"open", "settled"}, b \in User \cup {Nobody} :
    WasAllowed(d.by, d.tenant, ActionOf[d.kind, "settle"],
               ResourceOf([d EXCEPT !.status = s, !.by = b]))

(* expense/main.py:103-133, "asks the PDP to enforce expense:expense:      *)
(* approve together with the attached ABAC policies, then applies the      *)
(* approval": who a document says settled it was allowed to, in the        *)
(* document's tenant and on the attributes the document still has, but for *)
(* the status, which another request may have changed in between.          *)
SettledByAllowed ==
  \A d \in documents \ Seeded : d.status = "settled" => AllowedToSettle(d)

(* payroll/main.py:79-120, "the PDP applies payroll:payslip:read plus the  *)
(* self-access policy", "returns only those the principal may read": each  *)
(* payslip in a response was allowed to its reader.                        *)
ShownByAllowed ==
  \A r \in Req :
    pc[r] = "done" /\ query[r].kind = "payslip" =>
      \A d \in shown[r] :
        WasAllowed(query[r].token.user, d.tenant, ActionOf["payslip", "read"], ResourceOf(d))

(* The request that takes a step, which its PDP has let through.           *)
Moves(r) ==
  /\ pc[r] \in {"apply", "filter"}
  /\ pc'[r] # pc[r] \/ held'[r] # held[r]
  /\ \A x \in Req \ {r} : UNCHANGED <<pc[x], held[x], shown[x]>>

(* Its effect: one new document of its tenant and kind; or the document it *)
(* names, settled by its user; or documents for its response.              *)
Creates(r) ==
  /\ query[r].verb = "create"
  /\ \E d \in Doc :
       /\ documents' = documents \cup {d}
       /\ \A c \in documents : c.id # d.id
       /\ d.tenant = query[r].token.tenant /\ d.kind = query[r].kind
       /\ WasAllowed(query[r].token.user, d.tenant, ActionOf[d.kind, "create"], NoAttrs)
  /\ UNCHANGED shown

Settles(r) ==
  /\ query[r].verb = "settle"
  /\ \E d \in documents :
       LET new == [d EXCEPT !.status = "settled", !.by = query[r].token.user]
       IN  /\ d.id = query[r].id /\ d.tenant = query[r].token.tenant /\ d.kind = query[r].kind
           /\ documents' = (documents \ {d}) \cup {new}
           /\ AllowedToSettle(new)
  /\ UNCHANGED shown

Shows(r) ==
  /\ query[r].verb \in {"read", "list"}
  /\ \A d \in shown'[r] \ shown[r] :
       /\ d.tenant = query[r].token.tenant /\ d.kind = query[r].kind
       /\ WasAllowed(query[r].token.user, d.tenant, ActionOf[d.kind, "read"],
                     IF LoadsFirst(query[r]) THEN ResourceOf(d) ELSE NoAttrs)'
  /\ UNCHANGED documents

(* Nothing is created, settled or shown other than by a request of a user  *)
(* who was allowed to, and nothing beside it: a request that was refused   *)
(* or not answered leaves no trace ("on PDP failure we fail safe = deny",  *)
(* pep:14), no step changes two documents, one of another tenant or kind   *)
(* or one the request does not name, and what a response shows was allowed *)
(* on its attributes where the handler asks on them.                       *)
OnlyAllowedChange ==
  [][\E r \in Req : Moves(r) /\ (Creates(r) \/ Settles(r) \/ Shows(r))]_<<documents, shown>>

(* Every request that has begun is answered. *)
RequestsEnd == \A r \in Req : pc[r] # "idle" ~> pc[r] \in {"done", "rejected"}
=============================================================================
