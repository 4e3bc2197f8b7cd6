------------------------------- MODULE Decide -------------------------------
(***************************************************************************)
(* decide (services/authz/engine.py), run to its end on the rows that its  *)
(* SELECTs returned: the walk of RoleClosure, the test of the permission,  *)
(* the loop over the deny policies and the one over the allow policies,    *)
(* with the conditions of AbacDsl.  No ORDER BY fixes the order in which   *)
(* the policies come.                                                      *)
(***************************************************************************)
EXTENDS RoleClosure, AbacDsl

Policy ==
  [id : Nat, perm : Perm, effect : {"allow", "deny"}, cond : Cond, enabled : BOOLEAN]

Input == [action   : Perm,
          listed   : BOOLEAN,      \* whether the catalog has the action
          direct   : SUBSET Perm,  \* granted to the membership itself
          policies : SUBSET Policy,
          context  : Context]

CONSTANTS
  Inputs(_, _, _)  \* what else decide gets where edges, grants and names are
                   \* those given

ASSUME InputsAssumption ==
  \A e \in SUBSET {d \in Role \X Role : d[1] # d[2]},
     g \in SUBSET (Role \X Perm), n \in SUBSET Role :
    Inputs(e, g, n) \subseteq Input

VARIABLES
  input,
  stage,    \* walk, deny, allow or done
  todo,     \* the policies the loop has not come to
  decision  \* none, allow, deny or raise

decideVars == <<input, stage, todo, decision>>

DecideInit ==
  /\ Init
  /\ input \in Inputs(edges, grants, names)
  /\ stage = "walk"
  /\ todo = {}
  /\ decision = "none"

WalkStep == Next /\ UNCHANGED decideVars

End(d) ==
  /\ stage' = "done"
  /\ decision' = d
  /\ UNCHANGED <<vars, input, todo>>

(* The action has to be among the permissions of the roles or be granted   *)
(* directly, and the catalog has to list it.                               *)
Admitted == input.action \in keys \cup input.direct /\ input.listed

Refuse == returned /\ stage = "walk" /\ ~Admitted /\ End("deny")

PoliciesFor(effect) ==
  {p \in input.policies : p.perm = input.action /\ p.enabled /\ p.effect = effect}

Loop(effect) ==
  /\ stage' = effect
  /\ todo' = PoliciesFor(effect)
  /\ UNCHANGED <<vars, input, decision>>

Admit == returned /\ stage = "walk" /\ Admitted /\ Loop("deny")

(* One round of a loop: a policy that matches, or raises, ends it. *)
Judge ==
  /\ stage \in {"deny", "allow"}
  /\ \E p \in todo :
       LET v == Evaluate(p.cond, input.context)
       IN  \/ v = "true" /\ End(stage)
           \/ v = "raise" /\ End("raise")
           \/ v = "false" /\ todo' = todo \ {p} /\ UNCHANGED <<vars, input, stage, decision>>

(* Mutant of NoDeny: the permission alone is never enough. *)
NoDenyNoBaseline == stage = "deny" /\ todo = {} /\ Loop("allow")

(* No deny matched.  Without allow policies the permission is enough. *)
NoDeny ==
  /\ stage = "deny"
  /\ todo = {}
  /\ IF PoliciesFor("allow") = {} THEN End("allow") ELSE Loop("allow")

NoAllow == stage = "allow" /\ todo = {} /\ End("deny")

DecideNext == WalkStep \/ Refuse \/ Admit \/ Judge \/ NoDeny \/ NoAllow

(* The request thread runs decide to its end. *)
DecideSpec ==
  DecideInit /\ [][DecideNext]_<<vars, decideVars>> /\ WF_<<vars, decideVars>>(DecideNext)

----------------------------------------------------------------------------
(* Properties *)

EvaluateCall(cond, call) == Evaluate(cond, call.context)

Engine ==
  INSTANCE AuthzEngine WITH
    Evaluate <- EvaluateCall, User <- {"caller"}, WellFormed <- Perm, NoContext <- <<>>,
    Tenant <- {}, Org <- {}, Resource <- {}, Env <- {}, Cond <- {}, PolicyId <- {}

Catalog == IF input.listed THEN {input.action} ELSE {}

Tables == [roles |-> Role, edges |-> edges, grants |-> grants,
           direct |-> {"caller"} \X input.direct, policies |-> input.policies]

CallIn(context) == [subject |-> [user |-> "caller", roles |-> names],
                    action |-> input.action, context |-> context]

OutcomesIn(context) == Engine!Outcomes(Catalog, Tables, CallIn(context))

(* engine.py:181-187: deny by default, explicit deny wins, an allow policy *)
(* has to match where there is one.  The loops come to a result that       *)
(* Outcomes has, the operator the other modules take decide to be.         *)
DecidesAsEngine == stage = "done" => decision \in OutcomesIn(input.context)

(* engine.py:73-85: what a comparison misses does not help.  A caller who  *)
(* leaves attributes out is allowed nothing that a caller who sends them   *)
(* is denied, where allow policies only ask for attributes.                *)
SilenceGainsNothing ==
  decision = "deny" /\ (\A p \in input.policies : p.effect = "allow" /\ p.cond \in Asking)
    => \A context \in Subcontexts(input.context) : "allow" \notin OutcomesIn(context)
=============================================================================
