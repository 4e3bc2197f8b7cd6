--------------------------- MODULE DecisionService ---------------------------
(***************************************************************************)
(* What the policy decision point promises to its callers, without a       *)
(* cache, epochs or SELECTs.  The services of Business rely on it.         *)
(*                                                                         *)
(* An answer to a question rests on tables that the tenant has had since   *)
(* the last edit that was acknowledged before the question was asked, and  *)
(* on no older ones.  It need not rest on one state of them: each table    *)
(* may be as of a moment of its own.  Every answer is a decision on        *)
(* record, either the one made for this question or an earlier one for     *)
(* the same user, tenant, action and resource.                             *)
(***************************************************************************)

CONSTANTS
  Req,                \* questions; each is asked once
  Tenant,
  Perm,
  Field,              \* the tables of a tenant
  Rows,               \* their contents
  Effect,             \* allow and deny
  Outcomes(_, _, _),  \* Outcomes(catalog, rows, call): what a decision may be
  Calls,              \* what may be asked
  NoAnswer,
  InitCatalog,
  InitRows

VARIABLES
  catalog,    \* the permission catalog
  rows,       \* tenant -> its tables
  recent,     \* tenant -> the tables it has had since the last acknowledged edit
  call,       \* question -> what it asks
  state,      \* question -> idle, asked, decided, answered or failed
  past,       \* question -> the tables its answer may rest on
  decisions,  \* the record of decisions
  answer      \* question -> the decision, and the question it was made for

tables == <<catalog, rows, recent>>
questions == <<call, state, past, answer>>
vars == <<tables, questions, decisions>>

TenantOf(r) == call[r].subject.tenant

Waiting(r) == state[r] \in {"asked", "decided"}

(* A decision for a call that rests on some of the tables given. *)
RestsOn(d, c, given) ==
  \E pick \in [Field -> given] :
    d \in Outcomes(catalog, [f \in Field |-> pick[f][f]], c)

(* The row that records a decision for a call, made for question q. *)
Record(c, d, q) ==
  [id |-> q, tenant |-> c.subject.tenant, user |-> c.subject.user,
   action |-> c.action, resource |-> c.resource, decision |-> d]

Init ==
  /\ catalog = InitCatalog
  /\ rows = InitRows
  /\ recent = [t \in Tenant |-> {InitRows[t]}]
  /\ call \in [Req -> Calls]
  /\ state = [r \in Req |-> "idle"]
  /\ past = [r \in Req |-> {}]
  /\ decisions = {}
  /\ answer = [r \in Req |-> NoAnswer]

Ask(r) ==
  /\ state[r] = "idle"
  /\ state' = [state EXCEPT ![r] = "asked"]
  /\ past' = [past EXCEPT ![r] = recent[TenantOf(r)]]
  /\ UNCHANGED <<tables, call, decisions, answer>>

(* A decision is made for this question, and recorded. *)
Decide(r, d) ==
  /\ state[r] = "asked"
  /\ RestsOn(d, call[r], past[r])
  /\ state' = [state EXCEPT ![r] = "decided"]
  /\ decisions' = decisions \cup {Record(call[r], d, r)}
  /\ answer' = [answer EXCEPT ![r] = [decision |-> d, id |-> r]]
  /\ UNCHANGED <<tables, call, past>>

Answer(r) ==
  /\ state[r] = "decided"
  /\ state' = [state EXCEPT ![r] = "answered"]
  /\ UNCHANGED <<tables, call, past, decisions, answer>>

(* A decision made for q is given again.  Only the roles, the org unit and *)
(* the environment that q asked with may differ.                           *)
Repeat(r, q, d) ==
  /\ state[r] = "asked"
  /\ Record(call[r], d, q) \in decisions
  /\ RestsOn(d, call[q], past[r])
  /\ state' = [state EXCEPT ![r] = "answered"]
  /\ answer' = [answer EXCEPT ![r] = [decision |-> d, id |-> q]]
  /\ UNCHANGED <<tables, call, past, decisions>>

(* An error, which is no decision; a decision may have been recorded. *)
Fail(r) ==
  /\ state[r] \in {"idle", "asked", "decided"}
  /\ state' = [state EXCEPT ![r] = "failed"]
  /\ answer' = [answer EXCEPT ![r] = NoAnswer]
  /\ UNCHANGED <<tables, call, past, decisions>>

(* An edit of one tenant's tables.  Those who wait may see it or not. *)
Edit(t) ==
  /\ rows' \in [Tenant -> Rows]
  /\ \A u \in Tenant \ {t} : rows'[u] = rows[u]
  /\ recent' = [recent EXCEPT ![t] = @ \cup {rows'[t]}]
  /\ past' = [r \in Req |->
                IF Waiting(r) /\ TenantOf(r) = t THEN past[r] \cup {rows'[t]} ELSE past[r]]
  /\ UNCHANGED <<catalog, call, state, decisions, answer>>

Extend(p) ==
  /\ catalog' = catalog \cup {p}
  /\ UNCHANGED <<rows, recent, questions, decisions>>

(* The editor is told that the edits so far are in force: what is asked    *)
(* from now on does not rest on the tables they replaced.                  *)
Acknowledge(t) ==
  /\ recent' = [recent EXCEPT ![t] = {rows[t]}]
  /\ UNCHANGED <<catalog, rows, questions, decisions>>

Next ==
  \/ \E r \in Req :
       \/ Ask(r) \/ Answer(r) \/ Fail(r)
       \/ \E d \in Effect : Decide(r, d) \/ \E q \in Req : Repeat(r, q, d)
  \/ \E t \in Tenant : Acknowledge(t) \/ Edit(t)
  \/ \E p \in Perm : Extend(p)

Spec == Init /\ [][Next]_vars
=============================================================================
