----------------------------- MODULE MCBusiness -----------------------------
(* Values for the constants of SeedBusiness: Bob, a manager, and Carol, an *)
(* employee who may approve, both in one org unit, and Frank, an admin of  *)
(* another tenant.                                                         *)
EXTENDS SeedBusiness

CONSTANTS Acme, Globex, Bob, Carol, Frank, Manager, Eng, Sales, Create, Read, Settle_, ReadSlip,
          e1, e2, e3, s1, s2

MCActionOf == [k \in Kind \X {"create", "read", "settle"} |->
                 CASE k[1] = "payslip" /\ k[2] = "read" -> ReadSlip
                   [] k[2] = "create" -> Create
                   [] k[2] = "settle" -> Settle_
                   [] OTHER -> Read]

TokenOf(u, t, roles, o) == [user |-> u, tenant |-> t, roles |-> roles, org |-> o]

BobToken == TokenOf(Bob, Acme, {Manager}, Eng)
CarolToken == TokenOf(Carol, Acme, {}, Eng)
CarolPayroll == TokenOf(Carol, Acme, {PayrollAdmin}, Eng)
FrankToken == TokenOf(Frank, Globex, {Manager}, Eng)

Ask(verb, kind, token, id, value) ==
  [verb |-> verb, kind |-> kind, token |-> token, id |-> id,
   owner |-> Carol, org |-> Sales, value |-> value]

MCQueries ==
  {Ask("settle", "expense", token, e1, Limit) : token \in {BobToken, CarolToken, FrankToken}}
    \cup {Ask("settle", "expense", BobToken, e2, Limit),
          Ask("create", "expense", CarolToken, e2, Limit),
          Ask("create", "payslip", CarolPayroll, e2, Limit),
          Ask("create", "invoice", BobToken, e2, Limit - 1),
          Ask("settle", "invoice", CarolToken, e2, Limit),
          Ask("read", "expense", BobToken, e2, Limit),
          Ask("list", "expense", CarolToken, e1, Limit),
          Ask("list", "payslip", CarolToken, s1, Limit),
          Ask("read", "payslip", CarolToken, s2, Limit),
          Ask("read", "payslip", CarolPayroll, s2, Limit)}

Document(id, kind, owner, value) ==
  [id |-> id, kind |-> kind, tenant |-> Acme, org |-> Eng, owner |-> owner,
   value |-> value, status |-> "open", by |-> Nobody]

MCSeeded == {Document(e1, "expense", Carol, Limit - 1),
             Document(s1, "payslip", Carol, Limit), Document(s2, "payslip", Bob, Limit)}

MCResource == {NoAttrs} \cup {ResourceOf(d) : d \in Doc}

(* Managers and Carol hold every permission; later Carol's are taken away. *)
Manages == [roles |-> {Manager}, edges |-> {}, grants |-> {Manager} \X Perm,
            direct |-> {Carol} \X Perm, policies |-> {}]

MCGrants == {Manages, [Manages EXCEPT !.direct = {}]}
=============================================================================
