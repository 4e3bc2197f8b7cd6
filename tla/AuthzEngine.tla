---------------------------- MODULE AuthzEngine ----------------------------
(***************************************************************************)
(* The decision of the policy decision point (services/authz/engine.py):   *)
(* decide as an operator on the rows its SELECTs returned.                 *)
(*                                                                         *)
(* A condition of an ABAC policy is a member of Cond, and what the DSL     *)
(* evaluator makes of it in a context is the constant operator Evaluate:   *)
(* true, false or an exception.  The SELECT on policies has no ORDER BY,   *)
(* and both loops over policies stop at the first match or exception, so   *)
(* a decision is a set of outcomes, one for each scan order.               *)
(***************************************************************************)

CONSTANTS
  Tenant,
  User,
  Role,            \* role names; unique within a tenant
  Perm,            \* permission keys, "service:resource:action"
  WellFormed,      \* those whose three parts contain no colon
  Org,             \* values of org_unit_id
  Resource,        \* resource attributes sent with a check
  Env,             \* environment attributes sent with a check
  Cond,            \* condition trees
  PolicyId,
  Evaluate(_, _),  \* Evaluate(cond, context), the DSL evaluator
  NoContext        \* {"subject": {}, "resource": {}, "environment": {}}

Truth == {"true", "false", "raise"}

Subject == [user : User, tenant : Tenant, roles : SUBSET Role, org : Org]

Call == [subject : Subject, action : Perm, resource : Resource, env : Env]

Effect == {"allow", "deny"}

Policy == [id : PolicyId, perm : Perm, effect : Effect, cond : Cond, enabled : BOOLEAN]

(* The tables of one tenant, as row-level security shows them.  direct is  *)
(* membership_permissions, with the membership named by its user.          *)
Rows == [roles    : SUBSET Role,
         edges    : SUBSET (Role \X Role),
         grants   : SUBSET (Role \X Perm),
         direct   : SUBSET (User \X Perm),
         policies : SUBSET Policy]

ASSUME EngineAssumption ==
  /\ WellFormed \subseteq Perm
  /\ \A c \in Cond :
       /\ Evaluate(c, NoContext) \in Truth
       /\ \A call \in Call : Evaluate(c, call) \in Truth

----------------------------------------------------------------------------
(* Role-based part. *)

(* What the walk of RoleClosure returns: the least set that contains the   *)
(* given roles and the children of each of its members.                    *)
Closure(edges, roles) ==
  {r \in Role : \A S \in SUBSET Role :
                  /\ roles \subseteq S
                  /\ \A e \in edges : e[1] \in S => e[2] \in S
                  => r \in S}

EffectivePermissionKeys(rows, names) ==
  LET closure == Closure(rows.edges, names \cap rows.roles)
  IN  {p \in Perm : \E r \in closure : <<r, p>> \in rows.grants}

DirectPermissionKeys(rows, user) == {p \in Perm : <<user, p>> \in rows.direct}

----------------------------------------------------------------------------
(* Attribute-based part. *)

(* The enabled policies of a permission that have an effect. *)
Applicable(rows, action, effect) ==
  {p \in rows.policies : p.perm = action /\ p.enabled /\ p.effect = effect}

(* How a loop over policies can end: at a match, at an exception, or, with *)
(* neither anywhere, at the end of the list.                               *)
Scan(policies, call) ==
  LET stops == {Evaluate(p.cond, call) : p \in policies} \ {"false"}
  IN  IF stops = {} THEN {"false"} ELSE stops

AllowStage(policies, call) ==
  IF policies = {}
  THEN {"allow"}
  ELSE {CASE v = "true"  -> "allow"
          [] v = "false" -> "deny"
          [] v = "raise" -> "raise" : v \in Scan(policies, call)}

(* Mutant of PolicyOutcomes: a matching allow policy overrides a deny. *)
AllowOverrides(rows, call) ==
  IF "true" \in Scan(Applicable(rows, call.action, "allow"), call)
  THEN {"allow"}
  ELSE {CASE v = "true"  -> "deny"
          [] v = "false" -> "allow"
          [] v = "raise" -> "raise" : v \in Scan(Applicable(rows, call.action, "deny"), call)}

PolicyOutcomes(rows, call) ==
  UNION {CASE v = "true"  -> {"deny"}
           [] v = "raise" -> {"raise"}
           [] v = "false" -> AllowStage(Applicable(rows, call.action, "allow"), call)
         : v \in Scan(Applicable(rows, call.action, "deny"), call)}

(* decide: no permission, no catalog row for the action (a key that does   *)
(* not split into three parts finds none), then the policies.              *)
Outcomes(catalog, rows, call) ==
  LET granted == EffectivePermissionKeys(rows, call.subject.roles)
                   \cup DirectPermissionKeys(rows, call.subject.user)
  IN  IF call.action \in granted /\ call.action \in catalog \cap WellFormed
      THEN PolicyOutcomes(rows, call)
      ELSE {"deny"}
=============================================================================
