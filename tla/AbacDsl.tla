------------------------------ MODULE AbacDsl ------------------------------
(***************************************************************************)
(* The condition language of the ABAC policies (services/authz/engine.py): *)
(* what evaluate makes of a condition tree in a context.                   *)
(*                                                                         *)
(* A value is None or a pair of a type and a value.  Strings stand for     *)
(* prefixes of one another, <<"str", n>> for the one of length n, so that  *)
(* both the order of strings and "is a substring of" are the order of n.   *)
(* <<"list", s>> is the list of the values in the sequence s.              *)
(* A context maps the attribute paths that are there to their values.      *)
(***************************************************************************)
EXTENDS Integers, Sequences, FiniteSetsExt

CONSTANTS
  Cond,            \* condition trees, with each tree the conditions inside it
  Context,         \* contexts, with each one those that leave attributes out
  Height,          \* how deep a condition nests, a function on Cond
  Evaluate(_, _),  \* what evaluate makes of a condition in a context
  Asking           \* the conditions that only ask for attributes

None == <<"none">>

Literal(v) == [kind |-> "literal", value |-> v]
Path(p)    == [kind |-> "path", path |-> p]

(* Mutant of Resolve: an attribute that is missing counts as 0. *)
ResolveZero(operand, context) ==
  IF operand.kind = "literal" THEN operand.value
  ELSE IF operand.path \in DOMAIN context THEN context[operand.path] ELSE <<"num", 0>>

(* _resolve: a missing attribute is None.  A path below "env" is one that  *)
(* no context has, as decide names its environment "environment".          *)
Resolve(operand, context) ==
  IF operand.kind = "literal" THEN operand.value
  ELSE IF operand.path \in DOMAIN context THEN context[operand.path] ELSE None

Truth(b) == IF b THEN "true" ELSE "false"

(* What decides the order of two values: of two lists the first elements   *)
(* that differ, or else their lengths; of others the values themselves.    *)
(* Lists inside lists are not ordered any deeper.                          *)
Decisive(l, r) ==
  IF l[1] # "list" \/ r[1] # "list" THEN <<l, r>>
  ELSE LET differ == {i \in DOMAIN l[2] \cap DOMAIN r[2] : l[2][i] # r[2][i]}
       IN  IF differ = {} THEN <<<<"num", Len(l[2])>>, <<"num", Len(r[2])>>>>
           ELSE <<l[2][Min(differ)], r[2][Min(differ)]>>

(* A comparison with None or of different types is false: the TypeError is *)
(* caught.                                                                 *)
Ordered(pair) == pair[1][1] = pair[2][1] /\ pair[1][1] \in {"num", "str"}

Holds(list, item) == \E i \in DOMAIN list[2] : list[2][i] = item

(* Python's "in": of a list, a substring of a string; another right-hand   *)
(* side is not a container, and neither is a string for another type.      *)
Within(item, container) ==
  IF container = None THEN "false"
  ELSE IF container[1] = "list" THEN Truth(Holds(container, item))
  ELSE IF container[1] = "str" /\ item[1] = "str" THEN Truth(item[2] <= container[2])
  ELSE "raise"

Comparisons == {"eq", "neq", "lt", "lte", "gt", "gte", "in", "contains"}

Compare(op, l, r) ==
  LET pair == Decisive(l, r)
  IN  CASE op = "eq"  -> Truth(l = r)
        [] op = "neq" -> Truth(l # r)
        [] op = "lt"  -> Truth(Ordered(pair) /\ pair[1][2] < pair[2][2])
        [] op = "lte" -> Truth(Ordered(pair) /\ pair[1][2] <= pair[2][2])
        [] op = "gt"  -> Truth(Ordered(pair) /\ pair[1][2] > pair[2][2])
        [] op = "gte" -> Truth(Ordered(pair) /\ pair[1][2] >= pair[2][2])
        [] op = "in"       -> Within(l, r)
        [] op = "contains" -> Within(r, l)
        [] op \notin Comparisons -> "raise"

(* all and any take their arguments in order and stop at the first result  *)
(* that settles it, or raises.                                             *)
FirstOther(results, v) ==
  LET others == {i \in DOMAIN results : results[i] # v}
  IN  IF others = {} THEN v ELSE results[Min(others)]

(* The conditions directly inside a node. *)
Inside(node) ==
  IF node.op \in {"all", "any"} THEN {node.args[i] : i \in DOMAIN node.args}
  ELSE IF node.op = "not" THEN {node.arg}
  ELSE {}

(* evaluate, given the results for the conditions inside a node. "invalid" *)
(* stands for every node that is not a condition: a string, a number, a    *)
(* list, an object of several keys.  The empty object, null and the number *)
(* 1 are "const" like true.                                                *)
EvaluateNode(results, node, context) ==
  CASE node.op = "const"   -> Truth(node.value)
    [] node.op = "invalid" -> "raise"
    [] node.op = "all" ->
         FirstOther([i \in DOMAIN node.args |-> results[node.args[i]]], "true")
    [] node.op = "any" ->
         FirstOther([i \in DOMAIN node.args |-> results[node.args[i]]], "false")
    [] node.op = "not" ->
         IF results[node.arg] = "raise" THEN "raise"
         ELSE Truth(results[node.arg] = "false")
    [] node.op \notin {"const", "invalid", "all", "any", "not"} ->
         Compare(node.op, Resolve(node.left, context), Resolve(node.right, context))

Unfolded(node, context) ==
  EvaluateNode([inner \in Inside(node) |-> Evaluate(inner, context)], node, context)

(* The conditions that only ask for attributes: no negation, no equality   *)
(* of two attributes, which two missing ones satisfy, and no list that has *)
(* None in it, in which a missing attribute is found.                      *)
Given(operand) ==
  /\ operand.kind = "literal"
  /\ operand.value # None
  /\ operand.value[1] = "list" => ~Holds(operand.value, None)

Asks(node, asking) ==
  \/ node.op \in {"const", "lt", "lte", "gt", "gte"}
  \/ node.op \in {"eq", "in", "contains"} /\ (Given(node.left) \/ Given(node.right))
  \/ node.op \in {"all", "any"} /\ \A i \in DOMAIN node.args : node.args[i] \in asking

(* The contexts that a caller who leaves attributes out makes of one. *)
Subcontexts(context) == {[a \in S |-> context[a]] : S \in SUBSET DOMAIN context}

(* Trees are finite, as JSON documents are, and evaluate recurs on what is *)
(* inside a node.                                                          *)
ASSUME DslAssumption ==
  /\ \A node \in Cond :
       /\ Height[node] \in Nat
       /\ Inside(node) \subseteq {inner \in Cond : Height[inner] < Height[node]}
       /\ node.op \in {"all", "any"} => DOMAIN node.args \subseteq Nat
  /\ \A context \in Context : Subcontexts(context) \subseteq Context
  /\ \A node \in Cond, context \in Context :
       Evaluate(node, context) = Unfolded(node, context)
  /\ Asking = {node \in Cond : Asks(node, Asking)}
=============================================================================
