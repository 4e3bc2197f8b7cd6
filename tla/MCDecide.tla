------------------------------ MODULE MCDecide ------------------------------
(* Values for the constants of Decide: every role graph without policies,  *)
(* and one small graph with policies whose conditions nest twice.          *)
EXTENDS Decide, FiniteSets, TLC

CONSTANTS r1, p1

Amount == <<"resource", "amount">>
Owner  == <<"resource", "owner">>
Self   == <<"subject", "user">>
Num(n) == <<"num", n>>
Str(n) == <<"str", n>>
List(s) == <<"list", s>>

Atom ==
  {[op |-> "invalid"], [op |-> "const", value |-> TRUE],
   [op |-> "lt", left |-> Path(Amount), right |-> Literal(Num(2))],
   [op |-> "gte", left |-> Path(Amount), right |-> Path(Owner)],
   [op |-> "lt", left |-> Path(Owner), right |-> Literal(List(<<Num(1), Num(2)>>))],
   [op |-> "eq", left |-> Path(Owner), right |-> Path(Self)],
   [op |-> "eq", left |-> Path(Owner), right |-> Literal(Str(1))],
   [op |-> "neq", left |-> Path(Owner), right |-> Path(Self)],
   [op |-> "in", left |-> Path(Amount), right |-> Literal(List(<<Num(1), Str(1)>>))],
   [op |-> "in", left |-> Path(Owner), right |-> Literal(List(<<Str(1), None>>))],
   [op |-> "contains", left |-> Path(Owner), right |-> Path(Self)],
   [op |-> "frobnicate", left |-> Path(Amount), right |-> Literal(None)]}

Tree ==
  Atom \cup {[op |-> "not", arg |-> a] : a \in Atom}
       \cup {[op |-> o, args |-> <<a, b>>] : o \in {"all", "any"}, a \in Atom, b \in Atom}
       \cup {[op |-> "any", args |-> <<>>]}

ValuesOf(a) ==
  CASE a = Amount -> {Num(1), Num(2), Str(1)}
    [] a = Owner  -> {Num(1), Str(1), Str(2), List(<<Num(1)>>), List(<<Num(2)>>)}
    [] a = Self   -> {Num(1), Str(1), Str(2)}

Contexts ==
  UNION {{c \in [S -> UNION {ValuesOf(a) : a \in S}] : \A a \in S : c[a] \in ValuesOf(a)} :
           S \in SUBSET {Amount, Owner, Self}}

Nesting == [c \in Tree |-> IF c \in Atom THEN 0 ELSE 1]

RECURSIVE MCEvaluate(_, _)
MCEvaluate(node, context) ==
  EvaluateNode([inner \in Inside(node) |-> MCEvaluate(inner, context)], node, context)

MCAsking ==
  LET atoms == {a \in Atom : Asks(a, {})}
  IN  {node \in Tree : Asks(node, atoms)}

APolicy(id, effect, cond, on) ==
  [id |-> id, perm |-> p1, effect |-> effect, cond |-> cond, enabled |-> on]

AnInput(policies, context, direct, listed) ==
  [action |-> p1, policies |-> policies, context |-> context, direct |-> direct,
   listed |-> listed]

(* No policy, one with any tree, or two with atoms, of which one may be    *)
(* disabled, and fewer contexts.                                           *)
One == {{APolicy(1, e, c, TRUE)} : e \in {"allow", "deny"}, c \in Tree}
Two == {{APolicy(1, e, c, TRUE), APolicy(2, "allow", d, on)} :
          e \in {"allow", "deny"}, c \in Atom, d \in Atom, on \in BOOLEAN}

Judged ==
  {x \in ({{}} \cup One \cup Two) \X Contexts :
     Cardinality(x[1]) = 2 => \A a \in DOMAIN x[2] : x[2][a] \in {Num(1), Str(2)}}

MCInputs(e, g, n) ==
  CASE e = {} /\ g = {<<r1, p1>>} /\ n = {r1} ->
         {AnInput(x[1], x[2], {}, TRUE) : x \in Judged}
    [] e = {} /\ g = {<<r1, p1>>} /\ n = {} ->
         {AnInput({}, <<>>, direct, listed) : direct \in {{}, {p1}}, listed \in BOOLEAN}
    [] OTHER -> {AnInput({}, <<>>, {}, TRUE)}
=============================================================================
