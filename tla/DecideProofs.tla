---------------------------- MODULE DecideProofs ----------------------------
(***************************************************************************)
(* decide comes to a result that Outcomes has, in whatever order it meets  *)
(* the policies, and leaving attributes out gains nothing, for every       *)
(* hierarchy, every set of policies and every condition tree.              *)
(***************************************************************************)
EXTENDS Decide, RoleClosureProofs, WellFoundedInduction

LEMMA LeastNatural ==
  ASSUME NEW T \in SUBSET Nat, T # {}
  PROVE  \E m \in T : \A n \in T : m <= n
<1>1. PICK m \in T : \A n \in T : ~ (<<n, m>> \in OpToRel(<, Nat))
  BY NatLessThanWellFounded, WFMin
<1>2. \A n \in T : ~ (n < m)
  BY <1>1 DEF OpToRel
<1>3. QED
  BY <1>2

LEMMA Trees ==
  \A node \in Cond :
    /\ Height[node] \in Nat
    /\ \A inner \in Inside(node) : inner \in Cond /\ Height[inner] < Height[node]
    /\ node.op \in {"all", "any"} => DOMAIN node.args \subseteq Nat
  BY DslAssumption

LEMMA Meaning ==
  \A node \in Cond, context \in Context :
    Evaluate(node, context) = Unfolded(node, context)
  BY DslAssumption

(* What is proved of a condition from what is inside it holds of all.      *)
LEMMA Shallowest ==
  ASSUME NEW S \in SUBSET Cond, S # {}
  PROVE  \E node \in S : Inside(node) \cap S = {}
<1> DEFINE heights == {Height[node] : node \in S}
<1>1. PICK m \in heights : \A n \in heights : m <= n
  <2>1. heights \subseteq Nat /\ heights # {}
    BY Trees
  <2> HIDE DEF heights
  <2>2. QED
    BY <2>1, LeastNatural
<1>2. PICK node \in S : Height[node] = m
  BY <1>1
<1>3. \A inner \in Inside(node) : Height[inner] < Height[node]
  BY Trees
<1>4. ASSUME NEW inner \in Inside(node) \cap S PROVE FALSE
  <2>1. Height[inner] \in Nat /\ Height[node] \in Nat
    BY Trees
  <2>2. m <= Height[inner]
    BY <1>1
  <2>3. QED
    BY <1>2, <1>3, <2>1, <2>2
<1>5. QED
  BY <1>4

(* A loop over the arguments ends with the value that settles it, or with  *)
(* v when every argument gave v.                                           *)
LEMMA FirstOtherIs ==
  ASSUME NEW results, NEW v, DOMAIN results \subseteq Nat
  PROVE  \/ FirstOther(results, v) = v /\ \A i \in DOMAIN results : results[i] = v
         \/ \E i \in DOMAIN results : results[i] # v /\ FirstOther(results, v) = results[i]
<1> DEFINE others == {i \in DOMAIN results : results[i] # v}
<1>1. CASE others = {}
  BY <1>1 DEF FirstOther
<1>2. CASE others # {}
  <2>1. \E m \in others : \A n \in others : m <= n
    BY <1>2, LeastNatural
  <2>2. Min(others) \in others
    BY <2>1 DEF Min
  <2>3. FirstOther(results, v) = results[Min(others)]
    BY <1>2 DEF FirstOther
  <2>4. QED
    BY <2>2, <2>3
<1>3. QED
  BY <1>1, <1>2

Result == {"true", "false", "raise"}

LEMMA CompareResult ==
  \A op, l, r : Compare(op, l, r) \in Result
<1>1. \A item, container : Within(item, container) \in Result
  BY DEF Within, Truth, Result
<1>2. QED
  BY <1>1 DEF Compare, Comparisons, Truth, Result

(* evaluate returns a boolean or raises. *)
LEMMA EvaluateResult ==
  \A node \in Cond, context \in Context : Evaluate(node, context) \in Result
<1> DEFINE Bad == {node \in Cond : \E context \in Context : Evaluate(node, context) \notin Result}
<1> SUFFICES ASSUME Bad # {} PROVE FALSE
  OBVIOUS
<1>1. PICK node \in Bad : Inside(node) \cap Bad = {}
  <2>1. Bad \in SUBSET Cond
    OBVIOUS
  <2> HIDE DEF Bad
  <2>2. QED
    BY <2>1, Shallowest
<1>2. PICK context \in Context : Evaluate(node, context) \notin Result
  BY <1>1
<1>3. Evaluate(node, context) = Unfolded(node, context)
  BY <1>1, Meaning
<1>4. \A inner \in Inside(node) : Evaluate(inner, context) \in Result
  BY <1>1, Trees
<1> DEFINE results == [i \in DOMAIN node.args |-> Evaluate(node.args[i], context)]
<1>5. ASSUME node.op \in {"all", "any"}, NEW v \in Result
      PROVE  FirstOther(results, v) \in Result
  <2>1. \A i \in DOMAIN results : results[i] \in Result
    BY <1>4, <1>5 DEF Inside
  <2>2. DOMAIN results \subseteq Nat
    BY <1>5, <1>1, Trees
  <2> HIDE DEF results
  <2>3. QED
    BY <2>1, <2>2, <1>5, FirstOtherIs
<1>6. CASE node.op = "all"
  <2>1. Unfolded(node, context) = FirstOther(results, "true")
    BY <1>6 DEF Unfolded, EvaluateNode, Inside
  <2>2. QED
    BY <2>1, <1>6, <1>5, <1>2, <1>3 DEF Result
<1>7. CASE node.op = "any"
  <2>1. Unfolded(node, context) = FirstOther(results, "false")
    BY <1>7 DEF Unfolded, EvaluateNode, Inside
  <2>2. QED
    BY <2>1, <1>7, <1>5, <1>2, <1>3 DEF Result
<1>8. CASE node.op \notin {"all", "any"}
  BY <1>8, <1>2, <1>3, CompareResult DEF Unfolded, EvaluateNode, Inside, Truth, Result
<1>9. QED
  BY <1>6, <1>7, <1>8

----------------------------------------------------------------------------
(* Attributes left out. *)

LEMMA ResolveKept ==
  ASSUME NEW context, NEW part \in Subcontexts(context), NEW operand
  PROVE  Resolve(operand, part) \in {None, Resolve(operand, context)}
<1>1. PICK S \in SUBSET DOMAIN context : part = [a \in S |-> context[a]]
  BY DEF Subcontexts
<1>2. QED
  BY <1>1 DEF Resolve

(* Nothing comes before None, or after it. *)
LEMMA OrderedGiven ==
  ASSUME NEW l, NEW r, Ordered(Decisive(l, r))
  PROVE  l # None /\ r # None
<1>1. None[1] = "none"
  BY DEF None
<1>2. CASE l[1] = "list" /\ r[1] = "list"
  BY <1>1, <1>2
<1>3. CASE l[1] # "list" \/ r[1] # "list"
  <2>1. Decisive(l, r) = <<l, r>>
    BY <1>3 DEF Decisive
  <2>2. l[1] = r[1] /\ l[1] \in {"num", "str"}
    BY <2>1 DEF Ordered
  <2>3. QED
    BY <1>1, <2>2
<1>4. QED
  BY <1>2, <1>3

(* A comparison that only asks for an attribute and comes out true has     *)
(* found it, so it compared what the full context gives.                   *)
LEMMA SilentComparison ==
  ASSUME NEW context, NEW part \in Subcontexts(context),
         NEW node, Asks(node, Asking), node.op \in Comparisons,
         Compare(node.op, Resolve(node.left, part), Resolve(node.right, part)) = "true"
  PROVE  Compare(node.op, Resolve(node.left, context), Resolve(node.right, context)) = "true"
<1> DEFINE l == Resolve(node.left, part)
           r == Resolve(node.right, part)
<1>1. SUFFICES /\ l = Resolve(node.left, context)
               /\ r = Resolve(node.right, context)
  OBVIOUS
<1>2. \A operand : Given(operand) => Resolve(operand, part) = Resolve(operand, context)
                                     /\ Resolve(operand, part) = operand.value
  BY DEF Given, Resolve
<1>3. /\ l \in {None, Resolve(node.left, context)}
      /\ r \in {None, Resolve(node.right, context)}
  BY ResolveKept
<1>4. CASE node.op \in {"lt", "lte", "gt", "gte"}
  <2>1. Ordered(Decisive(l, r))
    BY <1>4 DEF Compare, Comparisons, Truth
  <2>2. l # None /\ r # None
    BY <2>1, OrderedGiven
  <2>3. QED
    BY <2>2, <1>3
<1>5. ASSUME node.op \in {"eq", "in", "contains"} PROVE Given(node.left) \/ Given(node.right)
  BY <1>5 DEF Asks
<1>6. CASE node.op = "eq"
  <2>1. l = r
    BY <1>6 DEF Compare, Truth
  <2>2. l # None
    BY <2>1, <1>2, <1>5, <1>6 DEF Given
  <2>3. QED
    BY <2>1, <2>2, <1>3
<1>7. ASSUME NEW item, NEW container, Within(item, container) = "true"
      PROVE  /\ container # None
             /\ item = None => container[1] = "list" /\ Holds(container, None)
  BY <1>7 DEF Within, Truth, None
<1>8. CASE node.op = "in"
  <2>1. Within(l, r) = "true"
    BY <1>8 DEF Compare
  <2>2. r # None
    BY <2>1, <1>7
  <2>3. CASE Given(node.right)
    <3>1. l # None
      BY <2>1, <2>3, <1>2, <1>7 DEF Given
    <3>2. QED
      BY <3>1, <2>2, <1>3
  <2>4. CASE Given(node.left)
    BY <2>2, <2>4, <1>2, <1>3
  <2>5. QED
    BY <2>3, <2>4, <1>5, <1>8
<1>9. CASE node.op = "contains"
  <2>1. Within(r, l) = "true"
    BY <1>9 DEF Compare
  <2>2. l # None
    BY <2>1, <1>7
  <2>3. CASE Given(node.left)
    <3>1. r # None
      BY <2>1, <2>3, <1>2, <1>7 DEF Given
    <3>2. QED
      BY <3>1, <2>2, <1>3
  <2>4. CASE Given(node.right)
    BY <2>2, <2>4, <1>2, <1>3
  <2>5. QED
    BY <2>3, <2>4, <1>5, <1>9
<1>10. QED
  <2>1. node.op \in {"lt", "lte", "gt", "gte", "eq", "in", "contains"}
    BY DEF Asks, Comparisons
  <2>2. QED
    BY <2>1, <1>4, <1>6, <1>8, <1>9

(* A condition that only asks for attributes and is false is not made true *)
(* by leaving attributes out.                                              *)
LEMMA Silence ==
  \A node \in Asking, context \in Context : \A part \in Subcontexts(context) :
    Evaluate(node, context) = "false" => Evaluate(node, part) # "true"
<1> DEFINE Bad == {node \in Asking : \E context \in Context : \E part \in Subcontexts(context) :
                     Evaluate(node, context) = "false" /\ Evaluate(node, part) = "true"}
<1> SUFFICES ASSUME Bad # {} PROVE FALSE
  OBVIOUS
<1>0. Asking = {node \in Cond : Asks(node, Asking)}
  BY DslAssumption
<1>1. PICK node \in Bad : Inside(node) \cap Bad = {}
  <2>1. Bad \in SUBSET Cond
    BY <1>0
  <2> HIDE DEF Bad
  <2>2. QED
    BY <2>1, Shallowest
<1>2. PICK context \in Context : \E part \in Subcontexts(context) :
        Evaluate(node, context) = "false" /\ Evaluate(node, part) = "true"
  BY <1>1
<1> PICK part \in Subcontexts(context) :
        Evaluate(node, context) = "false" /\ Evaluate(node, part) = "true"
  BY <1>2
<1>3. part \in Context
  BY <1>2, DslAssumption
<1>4. /\ Unfolded(node, context) = "false"
      /\ Unfolded(node, part) = "true"
  BY <1>0, <1>1, <1>2, <1>3, Meaning
<1>5. Asks(node, Asking)
  BY <1>0, <1>1
<1>6. \A inner \in Inside(node) \cap Asking :
        ~ (Evaluate(inner, context) = "false" /\ Evaluate(inner, part) = "true")
  BY <1>1, <1>2
<1> DEFINE with(c) == [i \in DOMAIN node.args |-> Evaluate(node.args[i], c)]
<1>7. ASSUME node.op \in {"all", "any"}
      PROVE  /\ \A c, v : \/ FirstOther(with(c), v) = v
                             /\ \A i \in DOMAIN node.args : Evaluate(node.args[i], c) = v
                          \/ \E i \in DOMAIN node.args :
                               /\ Evaluate(node.args[i], c) # v
                               /\ FirstOther(with(c), v) = Evaluate(node.args[i], c)
             /\ \A i \in DOMAIN node.args :
                  ~ (Evaluate(node.args[i], context) = "false" /\ Evaluate(node.args[i], part) = "true")
  <2>1. DOMAIN node.args \subseteq Nat
    BY <1>0, <1>1, <1>7, Trees
  <2>2. ASSUME NEW c, NEW v
        PROVE  \/ FirstOther(with(c), v) = v
                  /\ \A i \in DOMAIN node.args : Evaluate(node.args[i], c) = v
               \/ \E i \in DOMAIN node.args :
                    /\ Evaluate(node.args[i], c) # v
                    /\ FirstOther(with(c), v) = Evaluate(node.args[i], c)
    <3>1. DOMAIN with(c) = DOMAIN node.args
          /\ \A i \in DOMAIN node.args : with(c)[i] = Evaluate(node.args[i], c)
      OBVIOUS
    <3> HIDE DEF with
    <3>2. QED
      BY <2>1, <3>1, FirstOtherIs
  <2>3. \A i \in DOMAIN node.args : node.args[i] \in Inside(node) \cap Asking
    BY <1>5, <1>7 DEF Asks, Inside
  <2>4. QED
    BY <2>2, <2>3, <1>6
<1>8. CASE node.op = "all"
  <2>1. FirstOther(with(context), "true") = "false" /\ FirstOther(with(part), "true") = "true"
    BY <1>4, <1>8 DEF Unfolded, EvaluateNode, Inside
  <2> HIDE DEF with
  <2>2. PICK i \in DOMAIN node.args : Evaluate(node.args[i], context) = "false"
    BY <2>1, <1>7, <1>8
  <2>3. Evaluate(node.args[i], part) = "true"
    BY <2>1, <1>7, <1>8
  <2>4. QED
    BY <2>2, <2>3, <1>7, <1>8
<1>9. CASE node.op = "any"
  <2>1. FirstOther(with(context), "false") = "false" /\ FirstOther(with(part), "false") = "true"
    BY <1>4, <1>9 DEF Unfolded, EvaluateNode, Inside
  <2> HIDE DEF with
  <2>2. PICK i \in DOMAIN node.args : Evaluate(node.args[i], part) = "true"
    BY <2>1, <1>7, <1>9
  <2>3. Evaluate(node.args[i], context) = "false"
    BY <2>1, <1>7, <1>9
  <2>4. QED
    BY <2>2, <2>3, <1>7, <1>9
<1>10. CASE node.op = "const"
  BY <1>4, <1>10 DEF Unfolded, EvaluateNode, Inside
<1>11. CASE node.op \in Comparisons
  <2>1. \A c : Unfolded(node, c)
                 = Compare(node.op, Resolve(node.left, c), Resolve(node.right, c))
    BY <1>11 DEF Unfolded, EvaluateNode, Inside, Comparisons
  <2>2. QED
    BY <2>1, <1>2, <1>4, <1>5, <1>11, SilentComparison
<1>12. QED
  BY <1>5, <1>8, <1>9, <1>10, <1>11 DEF Asks, Comparisons

----------------------------------------------------------------------------
(* What Outcomes has. *)

Value(p, context) == Evaluate(p.cond, context)

NoneFires(effect, context) == \A p \in PoliciesFor(effect) : Value(p, context) = "false"

(* The least closed set of the engine is the set that the walk finds.      *)
LEMMA SamePermissions ==
  ASSUME TypeOK
  PROVE  Engine!EffectivePermissionKeys(Tables, names) = Granted(Reachable)
<1>1. names \cap Tables.roles = names
  BY DEF TypeOK, Tables
<1>2. \A S \in SUBSET Role : (\A e \in edges : e[1] \in S => e[2] \in S) <=> Inherits(S)
  BY DEF TypeOK, Inherits, Children
<1>3. Engine!Closure(edges, names) = Reachable
  BY <1>2 DEF Engine!Closure, Reachable
<1>4. QED
  BY <1>1, <1>3 DEF Engine!EffectivePermissionKeys, Granted, Tables

LEMMA SameAdmission ==
  ASSUME IInv, returned, input \in Input, NEW context
  PROVE  OutcomesIn(context) =
           IF Admitted THEN Engine!PolicyOutcomes(Tables, CallIn(context)) ELSE {"deny"}
<1>1. keys = Granted(Reachable)
  BY ClosureIsReachable DEF IInv, Answer
<1>2. Engine!EffectivePermissionKeys(Tables, CallIn(context).subject.roles) = keys
  BY <1>1, SamePermissions DEF IInv, CallIn
<1>3. Engine!DirectPermissionKeys(Tables, CallIn(context).subject.user) = input.direct
  BY DEF Engine!DirectPermissionKeys, Tables, CallIn, Input
<1>4. input.action \in Catalog \cap Perm <=> input.listed
  BY DEF Catalog, Input
<1>5. CallIn(context).action = input.action
  BY DEF CallIn
<1>6. QED
  BY <1>2, <1>3, <1>4, <1>5 DEF OutcomesIn, Engine!Outcomes, Admitted

LEMMA ValueResult ==
  ASSUME input \in Input, NEW context \in Context, NEW effect
  PROVE  \A p \in PoliciesFor(effect) : Value(p, context) \in Result
  BY EvaluateResult DEF PoliciesFor, Input, Policy, Value

LEMMA ScanIs ==
  ASSUME NEW context, NEW effect
  PROVE  Engine!Scan(Engine!Applicable(Tables, CallIn(context).action, effect), CallIn(context))
           = IF NoneFires(effect, context) THEN {"false"}
             ELSE {Value(p, context) : p \in PoliciesFor(effect)} \ {"false"}
<1>1. Engine!Applicable(Tables, CallIn(context).action, effect) = PoliciesFor(effect)
  BY DEF Engine!Applicable, Tables, CallIn, PoliciesFor
<1>2. \A p : EvaluateCall(p.cond, CallIn(context)) = Value(p, context)
  BY DEF EvaluateCall, CallIn, Value
<1>3. Engine!Scan(PoliciesFor(effect), CallIn(context))
        = LET stops == {Value(p, context) : p \in PoliciesFor(effect)} \ {"false"}
          IN  IF stops = {} THEN {"false"} ELSE stops
  BY <1>2 DEF Engine!Scan
<1>4. QED
  BY <1>1, <1>3 DEF NoneFires

(* What AllowStage and PolicyOutcomes have, policy by policy. *)
LEMMA AllowStageHas ==
  ASSUME input \in Input, NEW context \in Context
  PROVE  LET stage2 == Engine!AllowStage(PoliciesFor("allow"), CallIn(context))
         IN  /\ PoliciesFor("allow") = {} => "allow" \in stage2
             /\ PoliciesFor("allow") # {} /\ NoneFires("allow", context) => "deny" \in stage2
             /\ \A p \in PoliciesFor("allow") :
                  /\ Value(p, context) = "true"  => "allow" \in stage2
                  /\ Value(p, context) = "raise" => "raise" \in stage2
             /\ "allow" \in stage2 =>
                  \/ PoliciesFor("allow") = {}
                  \/ \E p \in PoliciesFor("allow") : Value(p, context) = "true"
<1> DEFINE ends == Engine!Scan(PoliciesFor("allow"), CallIn(context))
<1>1. ends = IF NoneFires("allow", context) THEN {"false"}
             ELSE {Value(p, context) : p \in PoliciesFor("allow")} \ {"false"}
  <2>1. Engine!Applicable(Tables, CallIn(context).action, "allow") = PoliciesFor("allow")
    BY DEF Engine!Applicable, Tables, CallIn, PoliciesFor
  <2>2. QED
    BY <2>1, ScanIs
<1>2. \A p \in PoliciesFor("allow") : Value(p, context) \in Result
  BY ValueResult
<1>3. Engine!AllowStage(PoliciesFor("allow"), CallIn(context))
        = IF PoliciesFor("allow") = {} THEN {"allow"}
          ELSE {CASE v = "true"  -> "allow"
                  [] v = "false" -> "deny"
                  [] v = "raise" -> "raise" : v \in ends}
  BY DEF Engine!AllowStage
<1> HIDE DEF ends
<1>4. \A v \in ends : v \in Result
  BY <1>1, <1>2 DEF Result
<1>5. \A p \in PoliciesFor("allow") : Value(p, context) # "false" => Value(p, context) \in ends
  BY <1>1 DEF NoneFires
<1>6. NoneFires("allow", context) => "false" \in ends
  BY <1>1
<1>7. "true" \in ends => \E p \in PoliciesFor("allow") : Value(p, context) = "true"
  BY <1>1
<1>8. QED
  BY <1>3, <1>4, <1>5, <1>6, <1>7 DEF Result

LEMMA PolicyOutcomesHas ==
  ASSUME input \in Input, NEW context \in Context
  PROVE  LET outcomes == Engine!PolicyOutcomes(Tables, CallIn(context))
             stage2 == Engine!AllowStage(PoliciesFor("allow"), CallIn(context))
         IN  /\ \A p \in PoliciesFor("deny") :
                  /\ Value(p, context) = "true"  => "deny" \in outcomes
                  /\ Value(p, context) = "raise" => "raise" \in outcomes
             /\ NoneFires("deny", context) => stage2 \subseteq outcomes
             /\ "allow" \in outcomes => "allow" \in stage2
<1> DEFINE stage2 == Engine!AllowStage(PoliciesFor("allow"), CallIn(context))
           ends == Engine!Scan(Engine!Applicable(Tables, CallIn(context).action, "deny"),
                               CallIn(context))
<1>1. ends = IF NoneFires("deny", context) THEN {"false"}
             ELSE {Value(p, context) : p \in PoliciesFor("deny")} \ {"false"}
  BY ScanIs
<1>2. \A p \in PoliciesFor("deny") : Value(p, context) \in Result
  BY ValueResult
<1>3. Engine!PolicyOutcomes(Tables, CallIn(context))
        = UNION {CASE v = "true"  -> {"deny"}
                   [] v = "raise" -> {"raise"}
                   [] v = "false" -> stage2 : v \in ends}
  <2>1. Engine!Applicable(Tables, CallIn(context).action, "allow") = PoliciesFor("allow")
    BY DEF Engine!Applicable, Tables, CallIn, PoliciesFor
  <2>2. QED
    BY <2>1 DEF Engine!PolicyOutcomes
<1> HIDE DEF ends, stage2
<1>4. \A v \in ends : v \in Result
  BY <1>1, <1>2 DEF Result
<1>5. \A p \in PoliciesFor("deny") : Value(p, context) # "false" => Value(p, context) \in ends
  BY <1>1 DEF NoneFires
<1>6. NoneFires("deny", context) => "false" \in ends
  BY <1>1
<1>7. \A d : d \in Engine!PolicyOutcomes(Tables, CallIn(context)) <=>
               \/ "true" \in ends /\ d = "deny"
               \/ "raise" \in ends /\ d = "raise"
               \/ "false" \in ends /\ d \in stage2
  BY <1>3, <1>4 DEF Result
<1>8. QED
  BY <1>5, <1>6, <1>7 DEF stage2

----------------------------------------------------------------------------
(* The inductive invariant: a policy that a loop has left behind was       *)
(* false, and a decision has the reason that engine.py gives for it.       *)

Past(effect) == \A p \in PoliciesFor(effect) \ todo : Value(p, input.context) = "false"

Fires(effect, v) == \E p \in PoliciesFor(effect) : Value(p, input.context) = v

Reason ==
  \/ ~Admitted /\ decision = "deny"
  \/ Admitted /\ Fires("deny", "true") /\ decision = "deny"
  \/ Admitted /\ Fires("deny", "raise") /\ decision = "raise"
  \/ /\ Admitted
     /\ NoneFires("deny", input.context)
     /\ \/ PoliciesFor("allow") = {} /\ decision = "allow"
        \/ Fires("allow", "true") /\ decision = "allow"
        \/ Fires("allow", "raise") /\ decision = "raise"
        \/ /\ PoliciesFor("allow") # {}
           /\ NoneFires("allow", input.context)
           /\ decision = "deny"

Loops ==
  /\ stage \in {"walk", "deny", "allow", "done"}
  /\ stage # "walk" => returned
  /\ stage \in {"deny", "allow"} => Admitted /\ Past(stage) /\ todo \subseteq PoliciesFor(stage)
  /\ stage = "allow" => PoliciesFor("allow") # {} /\ NoneFires("deny", input.context)
  /\ stage # "done" => decision = "none"
  /\ stage = "done" => Reason

DInv == IInv /\ input \in Input /\ Loops

LEMMA DInvInit == DecideInit => DInv
<1> SUFFICES ASSUME DecideInit PROVE DInv
  OBVIOUS
<1>1. IInv
  BY InvInit DEF DecideInit
<1>2. input \in Input
  BY InputsAssumption DEF DecideInit, Init
<1>3. Loops
  BY DEF Loops, DecideInit
<1>4. QED
  BY <1>1, <1>2, <1>3 DEF DInv

LEMMA DInvStep == DInv /\ [DecideNext]_<<vars, decideVars>> => DInv'
<1> SUFFICES ASSUME DInv, [DecideNext]_<<vars, decideVars>> PROVE DInv'
  OBVIOUS
<1>1. [Next]_vars /\ input' = input
  BY DEF DecideNext, WalkStep, Refuse, Admit, Judge, NoDeny, NoAllow, End, Loop, decideVars
<1>2. IInv' /\ (input \in Input)'
  BY <1>1, InvStep DEF DInv
<1> SUFFICES Loops'
  BY <1>2 DEF DInv
<1>3. /\ \A effect : PoliciesFor(effect)' = PoliciesFor(effect)
      /\ \A effect, context : NoneFires(effect, context)' = NoneFires(effect, context)
      /\ \A effect, v : Fires(effect, v)' = Fires(effect, v)
  BY <1>1 DEF PoliciesFor, NoneFires, Fires, Value
<1>4. CASE WalkStep
  <2>1. stage = "walk"
    <3>1. ~returned
      BY <1>4 DEF DInv, IInv, Answer, WalkStep, Next, Visit, NextLevel, Return
    <3>2. QED
      BY <3>1 DEF DInv, Loops
  <2>2. QED
    BY <1>2, <1>4, <2>1 DEF DInv, Loops, WalkStep, decideVars
<1>5. ASSUME UNCHANGED vars PROVE returned' = returned /\ Admitted' = Admitted
  BY <1>1, <1>5 DEF vars, Admitted
<1>6. ASSUME NEW d, End(d), returned, Admitted => Reason', ~Admitted => d = "deny"
      PROVE  Loops'
  <2>1. stage' = "done" /\ decision' = d /\ returned' /\ Admitted' = Admitted
    BY <1>5, <1>6 DEF End
  <2>2. Reason'
    BY <1>6, <2>1 DEF Reason
  <2>3. QED
    BY <2>1, <2>2 DEF Loops
<1>7. CASE Refuse
  BY <1>2, <1>6, <1>7 DEF Refuse, DInv
<1>8. ASSUME NEW effect \in {"deny", "allow"}, Loop(effect), returned, Admitted,
             decision = "none",
             effect = "allow" => PoliciesFor("allow") # {} /\ NoneFires("deny", input.context)
      PROVE  Loops'
  <2>1. /\ stage' = effect /\ todo' = PoliciesFor(effect)
        /\ decision' = "none" /\ returned' /\ Admitted'
    BY <1>5, <1>8 DEF Loop
  <2>2. Past(effect)'
    BY <1>3, <2>1 DEF Past
  <2>3. QED
    BY <1>1, <1>3, <1>8, <2>1, <2>2 DEF Loops
<1>9. CASE Admit
  BY <1>2, <1>8, <1>9 DEF Admit, DInv, Loops
<1>10. CASE Judge
  <2>1. PICK p \in todo :
          LET v == Evaluate(p.cond, input.context)
          IN  \/ v = "true" /\ End(stage)
              \/ v = "raise" /\ End("raise")
              \/ v = "false" /\ todo' = todo \ {p} /\ UNCHANGED <<vars, input, stage, decision>>
    BY <1>10 DEF Judge
  <2>2. /\ stage \in {"deny", "allow"} /\ returned /\ Admitted
        /\ p \in PoliciesFor(stage)
        /\ stage = "allow" => NoneFires("deny", input.context)
    BY <1>10 DEF Judge, DInv, Loops
  <2>3. ASSUME NEW d, End(d), Fires(stage, IF d = "raise" THEN "raise" ELSE "true"),
               d \in {stage, "raise"}
        PROVE  Loops'
    <3>1. decision' = d /\ Admitted'
      BY <1>5, <2>2, <2>3 DEF End
    <3>2. Reason'
      BY <1>1, <1>3, <2>2, <2>3, <3>1 DEF Reason
    <3>3. QED
      BY <1>6, <2>2, <2>3, <3>2
  <2>4. CASE Value(p, input.context) = "true" /\ End(stage)
    BY <2>2, <2>3, <2>4 DEF Fires
  <2>5. CASE Value(p, input.context) = "raise" /\ End("raise")
    BY <2>2, <2>3, <2>5 DEF Fires
  <2>6. CASE /\ Value(p, input.context) = "false"
             /\ todo' = todo \ {p} /\ UNCHANGED <<vars, input, stage, decision>>
    <3>1. Past(stage)'
      BY <1>3, <2>2, <2>6 DEF Past, DInv, Loops, Value
    <3>2. returned' /\ Admitted'
      BY <1>5, <2>2, <2>6
    <3>3. QED
      BY <1>1, <1>3, <2>2, <2>6, <3>1, <3>2 DEF DInv, Loops
  <2>7. QED
    BY <2>1, <2>4, <2>5, <2>6 DEF Value
<1>11. ASSUME stage \in {"deny", "allow"}, todo = {}
       PROVE  NoneFires(stage, input.context) /\ returned /\ Admitted
  BY <1>11 DEF DInv, Loops, Past, NoneFires
<1>12. CASE NoDeny
  <2>1. /\ NoneFires("deny", input.context) /\ returned /\ Admitted
        /\ decision = "none"
    BY <1>11, <1>12 DEF NoDeny, DInv, Loops
  <2>2. CASE PoliciesFor("allow") = {} /\ End("allow")
    <3>1. Reason'
      BY <1>1, <1>3, <1>5, <2>1, <2>2 DEF Reason, End
    <3>2. QED
      BY <1>6, <2>1, <2>2, <3>1
  <2>3. CASE PoliciesFor("allow") # {} /\ Loop("allow")
    BY <1>8, <2>1, <2>3
  <2>4. QED
    BY <1>12, <2>2, <2>3 DEF NoDeny
<1>13. CASE NoAllow
  <2>1. /\ NoneFires("allow", input.context) /\ NoneFires("deny", input.context)
        /\ PoliciesFor("allow") # {} /\ returned /\ Admitted
    BY <1>11, <1>13 DEF NoAllow, DInv, Loops
  <2>2. Reason'
    BY <1>1, <1>3, <1>5, <1>13, <2>1 DEF Reason, NoAllow, End
  <2>3. QED
    BY <1>6, <1>13, <2>1, <2>2 DEF NoAllow
<1>14. CASE UNCHANGED <<vars, decideVars>>
  <2>1. returned' = returned /\ Admitted' = Admitted
    BY <1>5, <1>14
  <2>2. UNCHANGED <<stage, todo, decision, input>>
    BY <1>14 DEF decideVars
  <2>3. Past(stage)' = Past(stage)
    BY <1>3, <2>2 DEF Past, Value
  <2>4. Reason' = Reason
    BY <1>3, <2>1, <2>2 DEF Reason
  <2>5. QED
    BY <1>3, <2>1, <2>2, <2>3, <2>4 DEF DInv, Loops
<1>15. QED
  BY <1>4, <1>7, <1>9, <1>10, <1>12, <1>13, <1>14 DEF DecideNext

----------------------------------------------------------------------------
(* Theorems *)

LEMMA Inductive == DecideSpec => []DInv
  BY DInvInit, DInvStep, PTL DEF DecideSpec

(* decide comes to a result that Outcomes has (engine.py:181-187): deny by *)
(* default, an explicit deny wins, one allow policy has to match where     *)
(* there are any.  It does for every hierarchy, with cycles or without,    *)
(* every set of policies in whatever order, every condition and context.   *)
THEOREM DecideRefinesOutcomes == DecideSpec => []DecidesAsEngine
<1>1. ASSUME DInv, stage = "done" PROVE decision \in OutcomesIn(input.context)
  <2>1. /\ Reason /\ IInv /\ returned /\ input \in Input
        /\ input.context \in Context
    BY <1>1 DEF DInv, Loops, Input
  <2>2. CASE ~Admitted
    BY <2>1, <2>2, SameAdmission DEF Reason
  <2>3. CASE Admitted
    <3>1. OutcomesIn(input.context) = Engine!PolicyOutcomes(Tables, CallIn(input.context))
      BY <2>1, <2>3, SameAdmission
    <3>2. QED
      BY <2>1, <2>3, <3>1, AllowStageHas, PolicyOutcomesHas DEF Reason, Fires
  <2>4. QED
    BY <2>2, <2>3
<1>2. DInv => DecidesAsEngine
  BY <1>1 DEF DecidesAsEngine
<1>3. QED
  BY <1>2, Inductive, PTL

(* Where the policies only ask for attributes, a caller who leaves some    *)
(* out is allowed nothing that decide denies with them (engine.py:73-85).  *)
THEOREM SilenceNeverGains == DecideSpec => []SilenceGainsNothing
<1>1. ASSUME DInv, decision = "deny",
             \A p \in input.policies : p.effect = "allow" /\ p.cond \in Asking,
             NEW part \in Subcontexts(input.context)
      PROVE  "allow" \notin OutcomesIn(part)
  <2>1. /\ Reason /\ IInv /\ returned /\ input \in Input
        /\ input.context \in Context
    BY <1>1 DEF DInv, Loops, Input
  <2>2. part \in Context
    BY <2>1, DslAssumption
  <2>3. CASE ~Admitted
    BY <2>1, <2>3, SameAdmission
  <2>4. CASE Admitted
    <3>1. PoliciesFor("allow") # {} /\ NoneFires("allow", input.context)
      BY <1>1, <2>1, <2>4 DEF Reason, Fires, PoliciesFor
    <3>2. \A p \in PoliciesFor("allow") : Value(p, part) # "true"
      BY <1>1, <2>1, <3>1, Silence DEF NoneFires, PoliciesFor, Value
    <3>3. OutcomesIn(part) = Engine!PolicyOutcomes(Tables, CallIn(part))
      BY <2>1, <2>4, SameAdmission
    <3>4. QED
      BY <2>1, <2>2, <3>1, <3>2, <3>3, AllowStageHas, PolicyOutcomesHas
  <2>5. QED
    BY <2>3, <2>4
<1>2. DInv => SilenceGainsNothing
  BY <1>1 DEF SilenceGainsNothing
<1>3. QED
  BY <1>2, Inductive, PTL
=============================================================================
