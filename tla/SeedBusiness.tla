---------------------------- MODULE SeedBusiness ----------------------------
(***************************************************************************)
(* Business under the policies that every seeded tenant has                *)
(* (services/common/seed.py), with the roles and grants left open: what    *)
(* the whole of enforcement point, decision and policies promises about    *)
(* money and payslips.                                                     *)
(***************************************************************************)
EXTENDS Business, Naturals

CONSTANTS PayrollAdmin,  \* the role name in the payslip policy
          Limit,         \* of the settle policies, 10000
          Grants         \* the other tables of a tenant, without its policies

SeedCond == {"settle_limit", "self_or_admin"}

(* The two conditions as evaluate takes them, on the attributes o that are *)
(* sent for a subject s.  An attribute that is not there is None: None is  *)
(* not less than anything, and is not a user's id.                         *)
Has(o, f) == o # NoAttrs /\ f \in DOMAIN o

UnderLimit(o, s) ==
  /\ Has(o, "amount") /\ o.amount < Limit
  /\ o.org = s.org
  /\ Has(o, "owner") => o.owner # s.user

SelfOrAdmin(o, s) ==
  \/ Has(o, "owner") /\ o.owner = s.user
  \/ PayrollAdmin \in s.roles

(* Without any context all attributes are None, and None is equal to None. *)
SeedEvaluate(cond, call) ==
  IF \/ call = NoContext /\ cond = "self_or_admin"
     \/ /\ call # NoContext
        /\ \/ cond = "settle_limit" /\ UnderLimit(call.resource, call.subject)
           \/ cond = "self_or_admin" /\ SelfOrAdmin(call.resource, call.subject)
  THEN "true"
  ELSE "false"

SeedPolicy(perm, cond) ==
  [id |-> perm, perm |-> perm, effect |-> "allow", cond |-> cond, enabled |-> TRUE]

SeedPolicies ==
  {SeedPolicy(ActionOf["expense", "settle"], "settle_limit"),
   SeedPolicy(ActionOf["invoice", "settle"], "settle_limit"),
   SeedPolicy(ActionOf["payslip", "read"], "self_or_admin")}

SeedTables == {[g EXCEPT !.policies = SeedPolicies] : g \in Grants}

ASSUME SeedAssumption ==
  /\ Grants \subseteq Rows
  /\ Tables \subseteq SeedTables
  /\ NoContext \notin Call
  /\ \A cond \in SeedCond, call \in Call : Evaluate(cond, call) = SeedEvaluate(cond, call)
  /\ \A kind \in {"expense", "invoice"} :
       ActionOf[kind, "settle"] # ActionOf["payslip", "read"]

(* A request that user u has made with a token for tenant t. *)
AskedBy(x, u, t) ==
  pc[x] # "idle" /\ query[x].token.user = u /\ query[x].token.tenant = t

(* seed.py:176-184 and 204-212, DESIGN.md "separation of duties": whatever *)
(* the grants become and however requests interleave, nothing is approved  *)
(* or issued by its author, at the limit or above, or by someone who never *)
(* asked with a token for its org unit.                                    *)
SettlementsKeepTheRule ==
  \A d \in documents \ Seeded : d.status = "settled" =>
    /\ d.value < Limit
    /\ d.by # d.owner
    /\ \E x \in Req : AskedBy(x, d.by, d.tenant) /\ query[x].token.org = d.org

(* seed.py:187-192: a payslip is shown to its employee, or to someone who  *)
(* asks, or has asked before, with a token as payroll_admin of the tenant. *)
PayslipsArePrivate ==
  \A r \in Req : pc[r] = "done" =>
    \A d \in shown[r] : d.kind = "payslip" =>
      \/ d.owner = query[r].token.user
      \/ \E x \in Req : /\ AskedBy(x, query[r].token.user, d.tenant)
                       /\ PayrollAdmin \in query[x].token.roles
=============================================================================
