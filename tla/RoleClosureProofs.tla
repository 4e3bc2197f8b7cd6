------------------------- MODULE RoleClosureProofs -------------------------
(***************************************************************************)
(* The walk of effective_permission_keys is correct for every set of roles *)
(* and permissions and every hierarchy: when it returns, it returns the    *)
(* permissions of the reachable roles, no more (no role is ever added that *)
(* some closed set containing the subject's roles leaves out) and no less  *)
(* (a visited role has all its children in the closure).                   *)
(***************************************************************************)
EXTENDS RoleClosure, TLAPS

(* The inductive invariant.  Sound is why the closure is not too large,    *)
(* and Complete why it is large enough once nothing is left to visit.      *)
Sound == \A S \in SUBSET Role : names \subseteq S /\ Inherits(S) => closure \subseteq S

Complete ==
  /\ names \subseteq closure
  /\ frontier \cup nxt \subseteq closure
  /\ \A r \in closure \ (frontier \cup nxt) : Children(r) \subseteq closure

Answer == returned => frontier \cup nxt = {} /\ keys = Granted(closure)

IInv == TypeOK /\ Sound /\ Complete /\ Answer

----------------------------------------------------------------------------

(* Types are kept by every step of the walk. *)
LEMMA TypeInit == Init => TypeOK
  BY DEF Init, TypeOK, Granted

LEMMA TypeStep == TypeOK /\ [Next]_vars => TypeOK'
<1> SUFFICES ASSUME TypeOK, [Next]_vars PROVE TypeOK'
  OBVIOUS
<1>1. ASSUME NEW r \in Role, Visit(r) PROVE TypeOK'
  BY <1>1 DEF TypeOK, Visit, inputs, Children
<1>2. CASE NextLevel
  BY <1>2 DEF TypeOK, NextLevel, inputs
<1>3. CASE Return
  BY <1>3 DEF TypeOK, Return, inputs, Granted
<1>4. CASE UNCHANGED vars
  BY <1>4 DEF TypeOK, vars
<1>5. QED
  BY <1>1, <1>2, <1>3, <1>4 DEF Next

(* The type invariant of the walk (engine.py:93-130). *)
THEOREM TypeCorrect == Spec => []TypeOK
<1>1. QED
  BY TypeInit, TypeStep, PTL DEF Spec

----------------------------------------------------------------------------

(* A closure that is sound and complete with nothing left to visit is the  *)
(* set of reachable roles.                                                 *)
LEMMA ClosureIsReachable ==
  ASSUME TypeOK, Sound, Complete, frontier \cup nxt = {}
  PROVE  closure = Reachable
<1>1. closure \subseteq Reachable
  BY DEF Reachable, Sound, TypeOK
<1>2. Inherits(closure)
  BY DEF Complete, Inherits
<1>3. closure \in SUBSET Role /\ names \subseteq closure
  BY DEF TypeOK, Complete
<1>4. Reachable \subseteq closure
  BY <1>2, <1>3 DEF Reachable
<1>5. QED
  BY <1>1, <1>4

LEMMA InvInit == Init => IInv
  BY TypeInit DEF Init, IInv, Sound, Complete, Answer

LEMMA InvStep == IInv /\ [Next]_vars => IInv'
<1> SUFFICES ASSUME IInv, [Next]_vars PROVE IInv'
  OBVIOUS
<1>1. TypeOK /\ TypeOK'
  BY TypeStep DEF IInv
<1>2. ASSUME NEW r \in Role, Visit(r) PROVE Sound' /\ Complete' /\ Answer'
  <2>1. UNCHANGED <<edges, grants, names>> /\ Children(r)' = Children(r)
    BY <1>2 DEF Visit, inputs, Children
  <2>2. closure' = closure \cup Children(r)
    BY <1>2 DEF Visit
  <2>3. r \in closure
    BY <1>2 DEF Visit, IInv, Complete
  <2>4. Sound'
    <3> SUFFICES ASSUME NEW S \in SUBSET Role, names \subseteq S, Inherits(S)
                 PROVE  closure' \subseteq S
      BY <2>1 DEF Sound, Inherits, Children
    <3>1. closure \subseteq S
      BY DEF IInv, Sound
    <3>2. Children(r) \subseteq S
      BY <3>1, <2>3 DEF Inherits
    <3>3. QED
      BY <3>1, <3>2, <2>2
  <2>5. Complete'
    <3>1. (frontier \cup nxt)' = ((frontier \cup nxt) \ {r}) \cup (nxt \cap {r})
                                 \cup (Children(r) \ closure)
      BY <1>2 DEF Visit
    <3>2. (names \subseteq closure)' /\ (frontier \cup nxt \subseteq closure)'
      BY <2>1, <2>2, <3>1 DEF IInv, Complete
    <3>3. ASSUME NEW q \in closure', q \notin (frontier \cup nxt)'
          PROVE  Children(q)' \subseteq closure'
      <4>1. CASE q = r
        BY <4>1, <2>1, <2>2
      <4>2. CASE q # r
        <5>1. q \in closure \ (frontier \cup nxt)
          BY <4>2, <3>3, <3>1, <2>2
        <5>2. Children(q)' = Children(q)
          BY <2>1 DEF Children
        <5>3. QED
          BY <5>1, <5>2, <2>2 DEF IInv, Complete
      <4>3. QED
        BY <4>1, <4>2
    <3>4. QED
      BY <3>2, <3>3 DEF Complete
  <2>6. Answer'
    BY <1>2, <2>3 DEF Visit, IInv, Answer
  <2>7. QED
    BY <2>4, <2>5, <2>6
<1>3. CASE NextLevel
  <2>1. UNCHANGED <<edges, grants, names, closure>> /\ (frontier \cup nxt)' = frontier \cup nxt
    BY <1>3 DEF NextLevel, inputs
  <2>2. Sound'
    BY <2>1 DEF IInv, Sound, Inherits, Children
  <2>3. Complete'
    BY <2>1 DEF IInv, Complete, Children
  <2>4. Answer'
    BY <1>3, <2>1 DEF NextLevel, IInv, Answer, Granted
  <2>5. QED
    BY <1>1, <2>2, <2>3, <2>4 DEF IInv
<1>4. CASE Return
  <2>1. UNCHANGED <<edges, grants, names, closure, frontier, nxt>>
    BY <1>4 DEF Return, inputs
  <2>2. Sound' /\ Complete'
    BY <2>1 DEF IInv, Sound, Complete, Inherits, Children
  <2>3. Answer'
    BY <1>4, <2>1 DEF Return, Answer, Granted
  <2>4. QED
    BY <1>1, <2>2, <2>3 DEF IInv
<1>5. CASE UNCHANGED vars
  BY <1>1, <1>5 DEF vars, IInv, Sound, Complete, Answer, Inherits, Children, Granted
<1>6. QED
  BY <1>1, <1>2, <1>3, <1>4, <1>5 DEF Next, IInv

(* Whatever the hierarchy, the permissions returned are exactly those of   *)
(* the reachable roles (engine.py:93-130).                                 *)
THEOREM WalkIsCorrect == Spec => []ReturnsReachable
<1>1. IInv => ReturnsReachable
  BY ClosureIsReachable DEF IInv, Answer, ReturnsReachable
<1>2. QED
  BY InvInit, InvStep, <1>1, PTL DEF Spec

(* No role is walked twice, which bounds the walk by the number of roles   *)
(* (engine.py:112-118).                                                    *)
THEOREM NoRoleTwice == Spec => VisitedOnce
<1>1. IInv /\ [Next]_vars
        => [(closure \ (frontier \cup nxt)) \subseteq (closure \ (frontier \cup nxt))']_vars
  <2> SUFFICES ASSUME IInv, Next
               PROVE  (closure \ (frontier \cup nxt)) \subseteq (closure \ (frontier \cup nxt))'
    OBVIOUS
  <2>1. ASSUME NEW r \in Role, Visit(r)
        PROVE  (closure \ (frontier \cup nxt)) \subseteq (closure \ (frontier \cup nxt))'
    BY <2>1 DEF Visit
  <2>2. CASE NextLevel
    BY <2>2 DEF NextLevel, inputs
  <2>3. CASE Return
    BY <2>3 DEF Return, inputs
  <2>4. QED
    BY <2>1, <2>2, <2>3 DEF Next
<1>2. QED
  BY InvInit, InvStep, <1>1, PTL DEF Spec, VisitedOnce
=============================================================================
