----------------------------- MODULE PdpHistory -----------------------------
(***************************************************************************)
(* Pdp with two history variables, which say what a decision may rest on,  *)
(* and with them Pdp as an implementation of DecisionService.              *)
(***************************************************************************)
EXTENDS Pdp

VARIABLES
  recent,  \* tenant -> the tables it has had since its last INCR
  past     \* check -> those of its tenant when it read the epoch, and the later
           \* ones until it ended

history == <<recent, past>>

Running(r) == pc[r] \notin {"idle", "done", "failed"}

HistoryInit ==
  /\ Init
  /\ recent = [t \in Tenant |-> {rows[t]}]
  /\ past = [r \in Req |-> {}]

Acknowledged(t) == \E o \in Op : op[o].pc = "bump" /\ op[o].tenant = t /\ Bump(o)

HistoryNext ==
  /\ Next
  /\ recent' = [t \in Tenant |->
                  IF Acknowledged(t) THEN {rows[t]'} ELSE recent[t] \cup {rows[t]'}]
  /\ past' = [r \in Req |->
                CASE pc[r] = "idle" /\ Running(r)' -> recent[TenantOf(r)]
                  [] Running(r) /\ Running(r)'     -> past[r] \cup {rows[TenantOf(r)]'}
                  [] OTHER                         -> past[r]]

HistorySpec == HistoryInit /\ [][HistoryNext]_<<vars, history>>

HistoryFairSpec == HistorySpec /\ Fairness

----------------------------------------------------------------------------

(* engine.py:181-189: no permission is a deny, and an explicit deny wins.  *)
(* What a check allows, the permissions and policies in force at some      *)
(* moment since the last edit before it allow.                             *)
AllowedByAState ==
  \A r \in Req :
    pc[r] = "store" /\ answer[r].decision = "allow" =>
      \E tables \in past[r] : "allow" \in Outcomes(catalog, tables, call[r])

----------------------------------------------------------------------------

StateOf(r) ==
  CASE pc[r] = "idle"   -> "idle"
    [] pc[r] = "store"  -> "decided"
    [] pc[r] = "done"   -> "answered"
    [] pc[r] = "failed" -> "failed"
    [] OTHER            -> "asked"

Promise ==
  INSTANCE DecisionService WITH
    Calls     <- {Bind(q) : q \in Request},
    state     <- [r \in Req |-> StateOf(r)],
    decisions <- audit \cap Decided

(* README.md:185-187, DESIGN.md:586: an edit is in force when the epoch    *)
(* has been bumped, and a check that comes later is not served what older  *)
(* tables gave.  The cache, its epochs and the order of the SELECTs        *)
(* implement this promise.                                                 *)
PromiseKept == Promise!Spec
=============================================================================
