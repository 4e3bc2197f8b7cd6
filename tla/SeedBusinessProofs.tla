------------------------- MODULE SeedBusinessProofs -------------------------
(***************************************************************************)
(* The rules of the seeded policies, carried from one decision of the PDP  *)
(* to every document and response of the business services.                *)
(***************************************************************************)
EXTENDS SeedBusiness, BusinessProofs

SettleActions == {ActionOf["expense", "settle"], ActionOf["invoice", "settle"]}

PayslipAction == ActionOf["payslip", "read"]

----------------------------------------------------------------------------
(* One decision *)

(* The engine allows what a permission's policies say, where all of them   *)
(* are allow policies with the same condition.                             *)
LEMMA OneCondition ==
  ASSUME NEW tables \in Rows, NEW action, NEW c, NEW cond,
         c.action = action, Evaluate(cond, c) \in Truth,
         Applicable(tables, action, "deny") = {},
         Applicable(tables, action, "allow") # {},
         \A p \in Applicable(tables, action, "allow") : p.cond = cond,
         "allow" \in PolicyOutcomes(tables, c)
  PROVE  Evaluate(cond, c) = "true"
<1> DEFINE allows == Applicable(tables, action, "allow")
<1>1. Scan(Applicable(tables, action, "deny"), c) = {"false"}
  BY DEF Scan
<1>2. PolicyOutcomes(tables, c) = AllowStage(allows, c)
  BY <1>1 DEF PolicyOutcomes
<1>3. PICK v \in Scan(allows, c) :
        "allow" = CASE v = "true" -> "allow" [] v = "false" -> "deny" [] v = "raise" -> "raise"
  BY <1>2 DEF AllowStage
<1>4. Scan(allows, c) \subseteq {Evaluate(cond, c), "false"}
  BY DEF Scan
<1>5. v # "false" /\ (v = "true" \/ v = "raise") => v = "true"
  BY <1>3
<1>6. QED
  BY <1>3, <1>4, <1>5 DEF Truth

LEMMA SeedApplicable ==
  ASSUME NEW tables \in Tables
  PROVE  /\ tables \in Rows
         /\ \A action : Applicable(tables, action, "deny") = {}
         /\ \A action \in SettleActions :
              /\ Applicable(tables, action, "allow") # {}
              /\ \A p \in Applicable(tables, action, "allow") : p.cond = "settle_limit"
         /\ Applicable(tables, PayslipAction, "allow") # {}
         /\ \A p \in Applicable(tables, PayslipAction, "allow") : p.cond = "self_or_admin"
<1>1. tables \in Rows
  BY BusinessAssumption
<1>2. tables.policies = SeedPolicies
  <2>1. PICK g \in Grants : tables = [g EXCEPT !.policies = SeedPolicies]
    BY SeedAssumption DEF SeedTables
  <2>2. QED
    BY <2>1, SeedAssumption DEF Rows
<1>4. PayslipAction \notin SettleActions
  BY SeedAssumption DEF PayslipAction, SettleActions
<1>5. SeedPolicies = {SeedPolicy(a, "settle_limit") : a \in SettleActions}
                       \cup {SeedPolicy(PayslipAction, "self_or_admin")}
  BY DEF SeedPolicies, SettleActions, PayslipAction
<1>6. \A p \in SeedPolicies :
        /\ p.perm \in SettleActions \cup {PayslipAction} /\ p.effect = "allow" /\ p.enabled
        /\ p.perm \in SettleActions => p.cond = "settle_limit"
        /\ p.perm = PayslipAction => p.cond = "self_or_admin"
  BY <1>4, <1>5 DEF SeedPolicy
<1>7. \A a \in SettleActions : SeedPolicy(a, "settle_limit") \in SeedPolicies
  BY <1>5
<1>8. SeedPolicy(PayslipAction, "self_or_admin") \in SeedPolicies
  BY <1>5
<1>9. \A a, cond : SeedPolicy(a, cond).perm = a
  BY DEF SeedPolicy
<1>10. \A action : Applicable(tables, action, "deny") = {}
  BY <1>2, <1>6 DEF Applicable
<1>11. \A action \in SettleActions \cup {PayslipAction} : Applicable(tables, action, "allow") # {}
  BY <1>2, <1>6, <1>7, <1>8, <1>9 DEF Applicable
<1>12. QED
  BY <1>1, <1>2, <1>6, <1>10, <1>11 DEF Applicable

(* What an allow means under the seeded policies. *)
LEMMA SeedDecision ==
  ASSUME NEW tables \in Tables, NEW c \in Call, "allow" \in Outcomes(Catalog, tables, c)
  PROVE  /\ c.action \in SettleActions => UnderLimit(c.resource, c.subject)
         /\ c.action = PayslipAction => SelfOrAdmin(c.resource, c.subject)
<1>1. "allow" \in PolicyOutcomes(tables, c)
  BY DEF Outcomes
<1>2. ASSUME c.action \in SettleActions PROVE UnderLimit(c.resource, c.subject)
  <2>0. Evaluate("settle_limit", c) \in Truth
    BY SeedAssumption DEF SeedCond, SeedEvaluate, Truth
  <2>1. Evaluate("settle_limit", c) = "true"
    BY <1>1, <1>2, <2>0, SeedApplicable, OneCondition
  <2>2. SeedEvaluate("settle_limit", c) = "true"
    BY <2>1, SeedAssumption DEF SeedCond
  <2>3. QED
    BY <2>2, SeedAssumption DEF SeedEvaluate
<1>3. ASSUME c.action = PayslipAction PROVE SelfOrAdmin(c.resource, c.subject)
  <2>0. Evaluate("self_or_admin", c) \in Truth
    BY SeedAssumption DEF SeedCond, SeedEvaluate, Truth
  <2>1. Evaluate("self_or_admin", c) = "true"
    BY <1>1, <1>3, <2>0, SeedApplicable, OneCondition
  <2>2. SeedEvaluate("self_or_admin", c) = "true"
    BY <2>1, SeedAssumption DEF SeedCond
  <2>3. QED
    BY <2>2, SeedAssumption DEF SeedEvaluate
<1>4. QED
  BY <1>2, <1>3

----------------------------------------------------------------------------
(* All decisions *)

(* Each decision that allows was made for a request with a token that      *)
(* satisfies the condition. *)
RuleKept ==
  \A dec \in audit : dec.decision = "allow" =>
    /\ dec.action \in SettleActions =>
         \E x \in Req : AskedBy(x, dec.user, dec.tenant) /\ UnderLimit(dec.resource, query[x].token)
    /\ dec.action = PayslipAction =>
         \E x \in Req : AskedBy(x, dec.user, dec.tenant) /\ SelfOrAdmin(dec.resource, query[x].token)

(* No handler settles a payslip. *)
PayslipsOpen == \A d \in documents \ Seeded : d.status = "settled" => d.kind # "payslip"

ShownKind == \A r \in Req : \A d \in shown[r] : d.kind = query[r].kind

SeedInv == IInv /\ RuleKept /\ PayslipsOpen /\ ShownKind

LEMMA CallTypes ==
  ASSUME TypeOK, NEW r \in Req, NEW attrs \in Resource
  PROVE  CallOf(r, attrs) \in Call
<1>1. query[r].token \in Subject
  BY BusinessAssumption DEF TypeOK, Query
<1>2. ActionOf[query[r].kind, IF query[r].verb = "list" THEN "read" ELSE query[r].verb] \in Perm
  BY QueryTypes, BusinessAssumption
<1>3. QED
  BY <1>1, <1>2, BusinessAssumption DEF CallOf, Call

LEMMA NewDecisions ==
  ASSUME TypeOK, Next, NEW dec \in audit' \ audit
  PROVE  \E x \in Req, attrs \in Resource : \E d \in Computed(CallOf(x, attrs)) :
           pc[x] # "idle" /\ dec = DecisionOn(CallOf(x, attrs), d)
<1> DEFINE Goal == \E x \in Req, attrs \in Resource : \E d \in Computed(CallOf(x, attrs)) :
                     pc[x] # "idle" /\ dec = DecisionOn(CallOf(x, attrs), d)
<1>1. ASSUME NEW r \in Req, Allowed(r) PROVE Goal
  BY <1>1, AttrsTypes DEF Allowed, Answers
<1>2. ASSUME NEW r \in Req, Forbidden(r) PROVE Goal
  BY <1>2, AttrsTypes DEF Forbidden, Answers
<1>3. ASSUME NEW r \in Req, Unavailable(r) PROVE Goal
  <2>1. \E attrs \in Resource : \E d \in Computed(CallOf(r, attrs)) :
          audit' = audit \cup {DecisionOn(CallOf(r, attrs), d)}
    BY <1>3, AttrsTypes, HeldTypes DEF Unavailable
  <2>2. pc[r] # "idle"
    BY <1>3 DEF Unavailable
  <2>3. QED
    BY <2>1, <2>2
<1>4. ASSUME NEW r \in Req, NEW e \in held[r], Keep(r, e) PROVE Goal
  BY <1>4, HeldTypes DEF Keep, Answers
<1>5. ASSUME NEW r \in Req, NEW e \in held[r], Skip(r, e) PROVE Goal
  BY <1>5, HeldTypes DEF Skip, Answers
<1>6. QED
  BY <1>1, <1>2, <1>3, <1>4, <1>5 DEF Next, Handle, Start, Load, LoadPage, NotFound, Filtered,
     Insert, Settle, Show, Administer

LEMMA StaysAsked ==
  ASSUME TypeOK, Next, NEW x \in Req, pc[x] # "idle"
  PROVE  pc'[x] # "idle"
BY DEF TypeOK, Next, Handle, Start, Load, LoadPage, NotFound, Allowed, Forbidden, Unavailable, Keep,
   Skip, Filtered, Insert, Settle, Show, Administer

LEMMA RuleStep ==
  ASSUME SeedInv, Next
  PROVE  RuleKept'
<1>0. TypeOK /\ query' = query
  BY AuditGrows DEF SeedInv, IInv
<1>1. \A x \in Req : \A u, t : AskedBy(x, u, t) => AskedBy(x, u, t)'
  BY <1>0, StaysAsked DEF AskedBy
<1>2. ASSUME NEW dec \in audit', dec.decision = "allow"
      PROVE  /\ dec.action \in SettleActions =>
                  \E x \in Req : /\ AskedBy(x, dec.user, dec.tenant)
                                 /\ UnderLimit(dec.resource, query[x].token)
             /\ dec.action = PayslipAction =>
                  \E x \in Req : /\ AskedBy(x, dec.user, dec.tenant)
                                 /\ SelfOrAdmin(dec.resource, query[x].token)
  <2>1. CASE dec \in audit
    BY <1>2, <2>1 DEF SeedInv, RuleKept
  <2>2. CASE dec \notin audit
    <3>0. PICK x \in Req, attrs \in Resource : \E d \in Computed(CallOf(x, attrs)) :
            pc[x] # "idle" /\ dec = DecisionOn(CallOf(x, attrs), d)
      BY <1>0, <2>2, NewDecisions
    <3>1. PICK d \in Computed(CallOf(x, attrs)) :
            pc[x] # "idle" /\ dec = DecisionOn(CallOf(x, attrs), d)
      BY <3>0
    <3> DEFINE c == CallOf(x, attrs)
    <3>2. c \in Call
      BY <1>0, CallTypes
    <3>3. c.subject = query[x].token /\ c.resource = attrs
      BY DEF CallOf
    <3>4. /\ dec.user = c.subject.user /\ dec.tenant = c.subject.tenant
          /\ dec.action = c.action /\ dec.resource = c.resource /\ dec.decision = d
      BY <3>1, Zenon DEF DecisionOn
    <3>5. rows[c.subject.tenant] \in Tables
      BY <1>0, <3>2 DEF TypeOK, Call, Subject
    <3>6. "allow" \in Outcomes(Catalog, rows[c.subject.tenant], c)
      BY <1>2, <3>1, <3>4 DEF Computed
    <3>7. /\ c.action \in SettleActions => UnderLimit(c.resource, c.subject)
          /\ c.action = PayslipAction => SelfOrAdmin(c.resource, c.subject)
      BY <3>2, <3>5, <3>6, SeedDecision
    <3>8. AskedBy(x, dec.user, dec.tenant)
      BY <3>1, <3>3, <3>4 DEF AskedBy
    <3>9. QED
      BY <3>3, <3>4, <3>7, <3>8
  <2>3. QED
    BY <2>1, <2>2
<1>3. QED
  BY <1>0, <1>1, <1>2 DEF RuleKept, UnderLimit, SelfOrAdmin, Has

LEMMA PayslipsOpenStep ==
  ASSUME SeedInv, Next
  PROVE  PayslipsOpen'
<1>1. CASE UNCHANGED documents
  BY <1>1 DEF SeedInv, PayslipsOpen
<1>2. ASSUME NEW r \in Req, Insert(r) PROVE PayslipsOpen'
  <2>1. PICK id \in Id : documents' = documents \cup {NewDoc(r, id)}
    BY <1>2 DEF Insert, NewDoc
  <2>2. NewDoc(r, id).status = "open"
    BY DEF NewDoc
  <2>3. QED
    BY <2>1, <2>2 DEF SeedInv, PayslipsOpen
<1>3. ASSUME NEW r \in Req, Settle(r) PROVE PayslipsOpen'
  <2>1. query[r].kind # "payslip"
    BY <1>3, BusinessAssumption DEF Settle, SeedInv, IInv, TypeOK
  <2>2. ASSUME NEW d \in documents, SettledDoc(r, d) # d PROVE SettledDoc(r, d).kind # "payslip"
    BY <2>1, <2>2, SettledDocType DEF SettledDoc, Visible, Same, SeedInv, IInv
  <2>3. documents' = {SettledDoc(r, d) : d \in documents}
    BY <1>3 DEF Settle, SettledDoc
  <2>4. QED
    BY <2>2, <2>3 DEF SeedInv, PayslipsOpen
<1>4. QED
  BY <1>1, <1>2, <1>3, DocumentSteps

LEMMA ShownKindStep ==
  ASSUME SeedInv, Next
  PROVE  ShownKind'
<1>0. TypeOK /\ query' = query
  BY AuditGrows DEF SeedInv, IInv
<1>1. ASSUME NEW r \in Req, NEW e \in held[r], Keep(r, e) PROVE ShownKind'
  BY <1>0, <1>1 DEF Keep, SeedInv, IInv, HeldVisible, ShownKind, TypeOK
<1>2. ASSUME NEW r \in Req, Show(r) PROVE ShownKind'
  <2>1. shown'[r] \subseteq held[r] \cup Visible(r)
    BY <1>0, <1>2 DEF Show, TypeOK
  <2>2. \A x \in Req \ {r} : shown'[x] = shown[x]
    BY <1>0, <1>2 DEF Show, TypeOK
  <2>3. QED
    BY <1>0, <2>1, <2>2 DEF Visible, SeedInv, IInv, HeldVisible, ShownKind
<1>3. CASE shown' = shown
  BY <1>0, <1>3 DEF SeedInv, ShownKind
<1>4. QED
  BY <1>1, <1>2, <1>3 DEF Next, Handle, Start, Load, LoadPage, NotFound, Allowed, Forbidden,
     Unavailable, Skip, Filtered, Insert, Settle, Administer

LEMMA SeedInit == Init => SeedInv
<1> SUFFICES ASSUME Init PROVE SeedInv
  OBVIOUS
<1>1. IInv
  BY InitInv
<1>2. QED
  BY <1>1 DEF SeedInv, Init, RuleKept, PayslipsOpen, ShownKind

LEMMA SeedStep == SeedInv /\ [Next]_vars => SeedInv'
<1> SUFFICES ASSUME SeedInv, [Next]_vars PROVE SeedInv'
  OBVIOUS
<1>1. IInv'
  BY InvStep DEF SeedInv
<1>2. CASE Next
  BY <1>1, <1>2, RuleStep, PayslipsOpenStep, ShownKindStep DEF SeedInv
<1>3. CASE UNCHANGED vars
  BY <1>1, <1>3 DEF vars, SeedInv, RuleKept, AskedBy, PayslipsOpen, ShownKind, UnderLimit,
     SelfOrAdmin, Has
<1>4. QED
  BY <1>2, <1>3

----------------------------------------------------------------------------
(* Separation of duties: what is approved or issued is under the limit, by *)
(* someone other than its author, who asked with a token for its org unit, *)
(* whatever the grants are and however they change meanwhile.              *)
THEOREM DutiesAreSeparate == Spec => []SettlementsKeepTheRule
<1>1. SeedInv => SettlementsKeepTheRule
  <2> SUFFICES ASSUME SeedInv, NEW d \in documents \ Seeded, d.status = "settled"
               PROVE  /\ d.value < Limit
                      /\ d.by # d.owner
                      /\ \E x \in Req : AskedBy(x, d.by, d.tenant) /\ query[x].token.org = d.org
    BY DEF SettlementsKeepTheRule
  <2>1. d \in Doc /\ d.kind \in {"expense", "invoice"}
    BY DEF SeedInv, IInv, TypeOK, PayslipsOpen, Doc, Kind
  <2>2. PICK s \in {"open", "settled"}, b \in User \cup {Nobody} :
          WasAllowed(d.by, d.tenant, ActionOf[d.kind, "settle"],
                     ResourceOf([d EXCEPT !.status = s, !.by = b]))
    BY DEF SeedInv, IInv, SettledByAllowed, AllowedToSettle
  <2>3. ResourceOf([d EXCEPT !.status = s, !.by = b]) =
          [amount |-> d.value, org |-> d.org, owner |-> d.owner, status |-> s]
    BY <2>1 DEF ResourceOf, Doc
  <2> DEFINE res == [amount |-> d.value, org |-> d.org, owner |-> d.owner, status |-> s]
  <2>4. ActionOf[d.kind, "settle"] \in SettleActions
    BY <2>1 DEF SettleActions
  <2>5. WasAllowed(d.by, d.tenant, ActionOf[d.kind, "settle"], res)
    BY <2>2, <2>3
  <2>6. PICK x \in Req : AskedBy(x, d.by, d.tenant) /\ UnderLimit(res, query[x].token)
    <3> DEFINE dec == [user |-> d.by, tenant |-> d.tenant, action |-> ActionOf[d.kind, "settle"],
                       resource |-> res, decision |-> "allow"]
    <3>1. dec \in audit
      BY <2>5, Zenon DEF WasAllowed
    <3>2. /\ dec.user = d.by /\ dec.tenant = d.tenant /\ dec.resource = res
          /\ dec.decision = "allow" /\ dec.action \in SettleActions
      BY <2>4
    <3> HIDE DEF dec, res
    <3>3. QED
      BY <3>1, <3>2 DEF SeedInv, RuleKept
  <2>7. DOMAIN res = {"amount", "org", "owner", "status"}
    OBVIOUS
  <2>8. QED
    BY <2>6, <2>7 DEF UnderLimit, Has, AskedBy
<1>2. QED
  BY <1>1, SeedInit, SeedStep, PTL DEF Spec

(* A payslip is shown to its employee, or to someone who has asked with a  *)
(* token as payroll_admin of its tenant.                                   *)
THEOREM PayslipsStayPrivate == Spec => []PayslipsArePrivate
<1>1. SeedInv => PayslipsArePrivate
  <2> SUFFICES ASSUME SeedInv, NEW r \in Req, pc[r] = "done", NEW d \in shown[r],
                      d.kind = "payslip"
               PROVE  \/ d.owner = query[r].token.user
                      \/ \E x \in Req : /\ AskedBy(x, query[r].token.user, d.tenant)
                                       /\ PayrollAdmin \in query[x].token.roles
    BY DEF PayslipsArePrivate
  <2> DEFINE u == query[r].token.user
             res == [owner |-> d.owner, org |-> d.org, period |-> d.value]
             dec == [user |-> u, tenant |-> d.tenant, action |-> PayslipAction,
                     resource |-> res, decision |-> "allow"]
  <2>1. ResourceOf(d) = res
    BY DEF ResourceOf
  <2>2. WasAllowed(u, d.tenant, PayslipAction, res)
    BY <2>1 DEF SeedInv, IInv, ShownAllowed, ShownKind, PayslipAction
  <2>3. dec \in audit
    BY <2>2, Zenon DEF WasAllowed
  <2>4. /\ dec.user = u /\ dec.tenant = d.tenant /\ dec.resource = res
        /\ dec.decision = "allow" /\ dec.action = PayslipAction
    OBVIOUS
  <2>5. PICK x \in Req : AskedBy(x, u, d.tenant) /\ SelfOrAdmin(res, query[x].token)
    <3> HIDE DEF dec, res, u
    <3>1. QED
      BY <2>3, <2>4 DEF SeedInv, RuleKept
  <2>6. res.owner = d.owner
    OBVIOUS
  <2>7. QED
    BY <2>5, <2>6 DEF SelfOrAdmin, AskedBy
<1>2. QED
  BY <1>1, SeedInit, SeedStep, PTL DEF Spec
=============================================================================
