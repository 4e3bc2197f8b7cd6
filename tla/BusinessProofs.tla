--------------------------- MODULE BusinessProofs ---------------------------
(***************************************************************************)
(* What the business services do is what the PDP allowed, for any number   *)
(* of concurrent requests, any documents, tables and policies.             *)
(***************************************************************************)
EXTENDS Business, TLAPS

(* The document of which c is another version. *)
Same(c, d) ==
  /\ c.id = d.id /\ c.kind = d.kind /\ c.tenant = d.tenant
  /\ c.org = d.org /\ c.owner = d.owner /\ c.value = d.value

IdsUnique == \A c, d \in documents : c.id = d.id => c = d

(* What a request has loaded is visible to it, and is still there. *)
HeldVisible ==
  \A r \in Req : \A h \in held[r] :
    /\ h.kind = query[r].kind /\ h.tenant = query[r].token.tenant
    /\ \E d \in documents : Same(d, h)

(* How far a request is, by what it holds. *)
Loaded(r) ==
  IF LoadsFirst(query[r])
  THEN \E h \in Doc : held[r] = {h} /\ h.id = query[r].id
  ELSE held[r] = {}

FiltersPage(r) == query[r].verb = "list" /\ query[r].kind = "payslip"

WasAnswered(r) == DecisionOn(CallOf(r, Attrs(r)), "allow") \in audit

Stage(r) ==
  /\ pc[r] \in {"idle", "load", "enforce", "apply"} => shown[r] = {}
  /\ pc[r] \in {"idle", "load"} => held[r] = {}
  /\ pc[r] = "load" => LoadsFirst(query[r])
  /\ pc[r] = "filter" => FiltersPage(r)
  /\ pc[r] \in {"enforce", "apply"} => ~FiltersPage(r) /\ Loaded(r)
  /\ pc[r] = "apply" => WasAnswered(r)

Stages == \A r \in Req : Stage(r)

(* The payslips gathered so far were allowed, one by one. *)
ShownAllowed ==
  \A r \in Req : query[r].kind = "payslip" =>
    \A d \in shown[r] :
      WasAllowed(query[r].token.user, d.tenant, ActionOf["payslip", "read"], ResourceOf(d))

IInv ==
  /\ TypeOK /\ IdsUnique /\ HeldVisible /\ Stages
  /\ ShownAllowed /\ SettledByAllowed

----------------------------------------------------------------------------

LEMMA InitInv == Init => IInv
<1> SUFFICES ASSUME Init PROVE IInv
  OBVIOUS
<1>1. TypeOK
  BY BusinessAssumption DEF Init, TypeOK
<1>2. IdsUnique
  BY BusinessAssumption DEF Init, IdsUnique
<1>3. HeldVisible /\ ShownAllowed /\ SettledByAllowed
  BY DEF Init, HeldVisible, ShownAllowed, SettledByAllowed
<1>4. Stages
  BY DEF Init, Stages, Stage
<1>5. QED
  BY <1>1, <1>2, <1>3, <1>4 DEF IInv

(* What is asked and answered has its type. *)
LEMMA QueryTypes ==
  ASSUME TypeOK, NEW r \in Req
  PROVE  /\ query[r].token.user \in User /\ query[r].token.tenant \in Tenant
         /\ query[r].verb \in {"create", "read", "settle", "list"} /\ query[r].kind \in Kind
         /\ query[r].token.org \in Org /\ query[r].org \in Org /\ query[r].owner \in User
         /\ query[r].value \in Value
BY BusinessAssumption DEF TypeOK, Query, Subject

LEMMA AttrsTypes ==
  ASSUME TypeOK, NEW r \in Req
  PROVE  Attrs(r) \in Resource
<1>1. CASE held[r] = {}
  BY <1>1, BusinessAssumption DEF Attrs
<1>2. CASE held[r] # {}
  <2>1. (CHOOSE d \in held[r] : TRUE) \in held[r] /\ held[r] \subseteq Doc
    BY <1>2 DEF TypeOK
  <2>2. QED
    BY <1>2, <2>1, BusinessAssumption DEF Attrs
<1>3. QED
  BY <1>1, <1>2

LEMMA DecisionTypes ==
  ASSUME TypeOK, NEW r \in Req, NEW attrs \in Resource, NEW d \in Effect
  PROVE  DecisionOn(CallOf(r, attrs), d) \in Decision
<1>1. /\ CallOf(r, attrs).subject.user \in User /\ CallOf(r, attrs).subject.tenant \in Tenant
      /\ CallOf(r, attrs).resource \in Resource
  BY QueryTypes DEF CallOf
<1>2. CallOf(r, attrs).action \in Perm
  BY QueryTypes, BusinessAssumption DEF CallOf
<1>3. QED
  BY <1>1, <1>2 DEF DecisionOn, Decision

(* An answer only adds to the audit trail, and is found there. *)
LEMMA AnswerShape ==
  ASSUME TypeOK, NEW r \in Req, NEW attrs \in Resource, NEW d \in Effect,
         Answers(CallOf(r, attrs), d)
  PROVE  /\ audit \subseteq audit' /\ audit' \subseteq Decision
         /\ DecisionOn(CallOf(r, attrs), d) \in audit'
BY DecisionTypes DEF Answers, TypeOK

LEMMA HeldTypes ==
  ASSUME TypeOK, NEW r \in Req, NEW d \in held[r]
  PROVE  d \in Doc /\ ResourceOf(d) \in Resource
BY BusinessAssumption DEF TypeOK

(* What a decision that nobody waits for leaves behind. *)
LEMMA UnavailableShape ==
  ASSUME TypeOK, NEW r \in Req, Unavailable(r)
  PROVE  audit \subseteq audit' /\ audit' \subseteq Decision
<1>1. ASSUME NEW attrs \in Resource, NEW d \in Computed(CallOf(r, attrs)),
             audit' = audit \cup {DecisionOn(CallOf(r, attrs), d)}
      PROVE  audit \subseteq audit' /\ audit' \subseteq Decision
  <2>1. d \in Effect
    BY <1>1 DEF Computed
  <2>2. QED
    BY <1>1, <2>1, DecisionTypes DEF TypeOK
<1>2. CASE UNCHANGED audit
  BY <1>2 DEF TypeOK
<1>3. \/ UNCHANGED audit
      \/ \E attrs \in Resource : \E d \in Computed(CallOf(r, attrs)) :
           audit' = audit \cup {DecisionOn(CallOf(r, attrs), d)}
  BY AttrsTypes, HeldTypes DEF Unavailable
<1>4. QED
  BY <1>1, <1>2, <1>3

(* The document an insert adds. *)
NewDoc(r, id) ==
  LET q == query[r]
  IN  [id |-> id, kind |-> q.kind, tenant |-> q.token.tenant,
       org |-> IF q.kind = "payslip" THEN q.org ELSE q.token.org,
       owner |-> IF q.kind = "payslip" THEN q.owner ELSE q.token.user,
       value |-> q.value, status |-> "open", by |-> Nobody]

LEMMA NewDocType ==
  ASSUME TypeOK, NEW r \in Req, NEW id \in Id
  PROVE  NewDoc(r, id) \in Doc
BY QueryTypes DEF NewDoc, Doc

SettledDoc(r, d) ==
  IF d \in Visible(r) /\ d.id = query[r].id
  THEN [d EXCEPT !.status = "settled", !.by = query[r].token.user]
  ELSE d

LEMMA SettledDocType ==
  ASSUME TypeOK, NEW r \in Req, NEW d \in documents
  PROVE  SettledDoc(r, d) \in Doc /\ Same(SettledDoc(r, d), d)
BY QueryTypes DEF TypeOK, SettledDoc, Doc, Same

----------------------------------------------------------------------------
(* Types *)

LEMMA TypeStep == TypeOK /\ [Next]_vars => TypeOK'
<1> SUFFICES ASSUME TypeOK, [Next]_vars PROVE TypeOK'
  OBVIOUS
<1>1. ASSUME NEW r \in Req, Start(r) PROVE TypeOK'
  BY <1>1 DEF Start, TypeOK
<1>2. ASSUME NEW r \in Req, Load(r) PROVE TypeOK'
  BY <1>2 DEF Load, Visible, TypeOK
<1>3. ASSUME NEW r \in Req, LoadPage(r) PROVE TypeOK'
  BY <1>3 DEF LoadPage, Visible, TypeOK
<1>4. ASSUME NEW r \in Req, NotFound(r) PROVE TypeOK'
  BY <1>4 DEF NotFound, TypeOK
<1>5. ASSUME NEW r \in Req, Allowed(r) PROVE TypeOK'
  <2>1. audit' \subseteq Decision
    BY <1>5, AnswerShape, AttrsTypes DEF Allowed, Effect
  <2>2. QED
    BY <1>5, <2>1 DEF Allowed, TypeOK
<1>6. ASSUME NEW r \in Req, Forbidden(r) PROVE TypeOK'
  <2>1. audit' \subseteq Decision
    BY <1>6, AnswerShape, AttrsTypes DEF Forbidden, Effect
  <2>2. QED
    BY <1>6, <2>1 DEF Forbidden, TypeOK
<1>7. ASSUME NEW r \in Req, Unavailable(r) PROVE TypeOK'
  BY <1>7, UnavailableShape DEF Unavailable, TypeOK
<1>8. ASSUME NEW r \in Req, NEW d \in held[r], Keep(r, d) PROVE TypeOK'
  <2>1. audit' \subseteq Decision
    BY <1>8, AnswerShape, HeldTypes DEF Keep, Effect
  <2>2. QED
    BY <1>8, <2>1, HeldTypes DEF Keep, TypeOK
<1>9. ASSUME NEW r \in Req, NEW d \in held[r], Skip(r, d) PROVE TypeOK'
  <2>1. audit' \subseteq Decision
    BY <1>9, AnswerShape, HeldTypes DEF Skip, Effect
  <2>2. QED
    BY <1>9, <2>1 DEF Skip, TypeOK
<1>10. ASSUME NEW r \in Req, Filtered(r) PROVE TypeOK'
  BY <1>10 DEF Filtered, TypeOK
<1>11. ASSUME NEW r \in Req, Insert(r) PROVE TypeOK'
  <2>1. PICK id \in Id : documents' = documents \cup {NewDoc(r, id)}
    BY <1>11 DEF Insert, NewDoc
  <2>2. QED
    BY <1>11, <2>1, NewDocType DEF Insert, TypeOK
<1>12. ASSUME NEW r \in Req, Settle(r) PROVE TypeOK'
  <2>1. documents' = {SettledDoc(r, d) : d \in documents}
    BY <1>12 DEF Settle, SettledDoc
  <2>2. documents' \subseteq Doc
    BY <2>1, SettledDocType
  <2>3. QED
    BY <1>12, <2>2 DEF Settle, TypeOK
<1>13. ASSUME NEW r \in Req, Show(r) PROVE TypeOK'
  <2>1. shown' \in [Req -> SUBSET Doc]
    BY <1>13 DEF Show, Visible, TypeOK
  <2>2. QED
    BY <1>13, <2>1 DEF Show, TypeOK
<1>14. ASSUME NEW t \in Tenant, Administer(t) PROVE TypeOK'
  BY <1>14 DEF Administer, TypeOK
<1>15. CASE UNCHANGED vars
  BY <1>15 DEF vars, TypeOK
<1>16. QED
  BY <1>1, <1>2, <1>3, <1>4, <1>5, <1>6, <1>7, <1>8, <1>9, <1>10, <1>11, <1>12, <1>13, <1>14,
     <1>15 DEF Next, Handle

(* Types, for every value of the constants. *)
THEOREM TypeCorrect == Spec => []TypeOK
<1>1. Init => TypeOK
  BY InitInv DEF IInv
<1>2. QED
  BY <1>1, TypeStep, PTL DEF Spec

----------------------------------------------------------------------------
(* What every step keeps *)

LEMMA AuditGrows ==
  ASSUME TypeOK, Next
  PROVE  audit \subseteq audit' /\ query' = query
<1>1. ASSUME NEW r \in Req, Handle(r) PROVE audit \subseteq audit' /\ query' = query
  <2>1. ASSUME Allowed(r) \/ Forbidden(r) PROVE audit \subseteq audit' /\ query' = query
    BY <2>1, AnswerShape, AttrsTypes DEF Allowed, Forbidden, Effect
  <2>2. ASSUME NEW d \in held[r], Keep(r, d) \/ Skip(r, d)
        PROVE  audit \subseteq audit' /\ query' = query
    BY <2>2, AnswerShape, HeldTypes DEF Keep, Skip, Effect
  <2>3. QED
    BY <1>1, <2>1, <2>2 DEF Handle, Start, Load, LoadPage, NotFound, Filtered, Insert, Settle, Show
<1>2. ASSUME NEW r \in Req, Unavailable(r) PROVE audit \subseteq audit' /\ query' = query
  BY <1>2, UnavailableShape DEF Unavailable
<1>3. ASSUME NEW t \in Tenant, Administer(t) PROVE audit \subseteq audit' /\ query' = query
  BY <1>3 DEF Administer
<1>4. QED
  BY <1>1, <1>2, <1>3 DEF Next

(* The three ways documents evolve. *)
LEMMA DocumentSteps ==
  ASSUME Next
  PROVE  \/ UNCHANGED documents
         \/ \E r \in Req : Insert(r)
         \/ \E r \in Req : Settle(r)
BY DEF Next, Handle, Start, Load, LoadPage, NotFound, Allowed, Forbidden, Unavailable, Keep, Skip,
   Filtered, Show, Administer

(* Documents get other versions, but none goes away. *)
LEMMA DocumentsStay ==
  ASSUME TypeOK, Next
  PROVE  \A d \in documents : \E e \in documents' : Same(e, d)
<1>1. CASE UNCHANGED documents
  BY <1>1 DEF Same
<1>2. ASSUME NEW r \in Req, Insert(r) PROVE \A d \in documents : \E e \in documents' : Same(e, d)
  BY <1>2 DEF Insert, Same
<1>3. ASSUME NEW r \in Req, Settle(r) PROVE \A d \in documents : \E e \in documents' : Same(e, d)
  <2>1. documents' = {SettledDoc(r, d) : d \in documents}
    BY <1>3 DEF Settle, SettledDoc
  <2>2. QED
    BY <2>1, SettledDocType
<1>4. QED
  BY <1>1, <1>2, <1>3, DocumentSteps

LEMMA IdsStep ==
  ASSUME TypeOK, IdsUnique, Next
  PROVE  IdsUnique'
<1>1. CASE UNCHANGED documents
  BY <1>1 DEF IdsUnique
<1>2. ASSUME NEW r \in Req, Insert(r) PROVE IdsUnique'
  <2>1. PICK id \in Id : /\ \A d \in documents : d.id # id
                         /\ documents' = documents \cup {NewDoc(r, id)}
    BY <1>2 DEF Insert, NewDoc
  <2>2. NewDoc(r, id).id = id
    BY DEF NewDoc
  <2>3. QED
    BY <2>1, <2>2 DEF IdsUnique
<1>3. ASSUME NEW r \in Req, Settle(r) PROVE IdsUnique'
  <2>1. documents' = {SettledDoc(r, d) : d \in documents}
    BY <1>3 DEF Settle, SettledDoc
  <2>2. ASSUME NEW c \in documents', NEW d \in documents', c.id = d.id PROVE c = d
    <3>1. PICK c0 \in documents : c = SettledDoc(r, c0)
      BY <2>1
    <3>2. PICK d0 \in documents : d = SettledDoc(r, d0)
      BY <2>1
    <3>3. c0.id = d0.id
      BY <2>2, <3>1, <3>2, SettledDocType DEF Same
    <3>4. QED
      BY <3>1, <3>2, <3>3 DEF IdsUnique
  <2>3. QED
    BY <2>2 DEF IdsUnique
<1>4. QED
  BY <1>1, <1>2, <1>3, DocumentSteps

LEMMA SameTransitive ==
  ASSUME NEW c, NEW d, NEW e, Same(c, d), Same(d, e)
  PROVE  Same(c, e)
BY DEF Same

(* Handlers hold on to what they have loaded from the tenant's rows. *)
LEMMA HeldShape ==
  ASSUME TypeOK, Next, NEW x \in Req
  PROVE  held'[x] \subseteq held[x] \cup Visible(x)
<1>1. ASSUME NEW r \in Req, Load(r) PROVE held'[x] \subseteq held[x] \cup Visible(x)
  BY <1>1 DEF Load, TypeOK
<1>2. ASSUME NEW r \in Req, LoadPage(r) PROVE held'[x] \subseteq held[x] \cup Visible(x)
  BY <1>2 DEF LoadPage, TypeOK
<1>3. ASSUME NEW r \in Req, NEW d \in held[r], Keep(r, d) \/ Skip(r, d)
      PROVE  held'[x] \subseteq held[x]
  BY <1>3 DEF Keep, Skip, TypeOK
<1>4. QED
  BY <1>1, <1>2, <1>3 DEF Next, Handle, Start, NotFound, Allowed, Forbidden, Unavailable, Filtered,
     Insert, Settle, Show, Administer

LEMMA HeldStep ==
  ASSUME TypeOK, HeldVisible, Next
  PROVE  HeldVisible'
<1>1. ASSUME NEW x \in Req, NEW h \in held'[x]
      PROVE  /\ h.kind = query[x].kind /\ h.tenant = query[x].token.tenant
             /\ \E d \in documents : Same(d, h)
  BY <1>1, HeldShape DEF HeldVisible, Visible, Same
<1>2. ASSUME NEW x \in Req, NEW h \in held'[x] PROVE \E e \in documents' : Same(e, h)
  <2>1. PICK d \in documents : Same(d, h)
    BY <1>1
  <2>2. PICK e \in documents' : Same(e, d)
    BY DocumentsStay
  <2>3. QED
    BY <2>1, <2>2, SameTransitive
<1>3. QED
  BY <1>1, <1>2, AuditGrows DEF HeldVisible

----------------------------------------------------------------------------
(* The stages of a request *)

LEMMA AttrsKept ==
  ASSUME NEW x \in Req, held'[x] = held[x], query' = query
  PROVE  /\ Attrs(x)' = Attrs(x)
         /\ \A attrs : CallOf(x, attrs)' = CallOf(x, attrs)
BY DEF Attrs, CallOf

LEMMA StageKept ==
  ASSUME TypeOK, Next, NEW x \in Req, Stage(x),
         pc'[x] = pc[x], held'[x] = held[x], shown'[x] = shown[x]
  PROVE  Stage(x)'
<1>1. query' = query /\ audit \subseteq audit'
  BY AuditGrows
<1>2. WasAnswered(x) => WasAnswered(x)'
  BY <1>1, AttrsKept DEF WasAnswered, DecisionOn
<1>3. (Loaded(x) <=> Loaded(x)') /\ (FiltersPage(x) <=> FiltersPage(x)')
  BY <1>1 DEF Loaded, FiltersPage
<1>4. QED
  BY <1>1, <1>2, <1>3 DEF Stage

(* A step of request r leaves the others where they are. *)
LEMMA OthersKept ==
  ASSUME TypeOK, Next, Stages, NEW r \in Req, Stage(r)',
         \A x \in Req \ {r} : pc'[x] = pc[x] /\ held'[x] = held[x] /\ shown'[x] = shown[x]
  PROVE  Stages'
<1>1. ASSUME NEW x \in Req PROVE Stage(x)'
  <2>1. CASE x = r
    BY <2>1
  <2>2. CASE x # r
    BY <2>2, StageKept DEF Stages
  <2>3. QED
    BY <2>1, <2>2
<1>2. QED
  BY <1>1 DEF Stages

LEMMA StageStep ==
  ASSUME TypeOK, Stages, Next
  PROVE  Stages'
<1>0. query' = query /\ \A r \in Req : Stage(r)
  BY AuditGrows DEF Stages
<1>1. ASSUME NEW r \in Req, Start(r) PROVE Stages'
  <2>1. pc' = [pc EXCEPT ![r] = IF LoadsFirst(query[r]) THEN "load" ELSE "enforce"]
    BY <1>1 DEF Start
  <2>2. held' = held /\ shown' = shown /\ held[r] = {} /\ shown[r] = {}
    BY <1>0, <1>1 DEF Start, Stage
  <2>3. FiltersPage(r) => LoadsFirst(query[r])
    BY DEF FiltersPage, LoadsFirst
  <2>4. CASE LoadsFirst(query[r])
    <3>1. pc'[r] = "load"
      BY <2>1, <2>4 DEF TypeOK
    <3>2. Stage(r)'
      BY <3>1, <2>2, <2>4, <1>0 DEF Stage
    <3>3. QED
      BY <3>2, <2>1, <2>2, OthersKept DEF TypeOK
  <2>5. CASE ~LoadsFirst(query[r])
    <3>1. pc'[r] = "enforce"
      BY <2>1, <2>5 DEF TypeOK
    <3>2. Stage(r)'
      BY <3>1, <2>2, <2>3, <2>5, <1>0 DEF Stage, FiltersPage, Loaded
    <3>3. QED
      BY <3>2, <2>1, <2>2, OthersKept DEF TypeOK
  <2>6. QED
    BY <2>4, <2>5
<1>2. ASSUME NEW r \in Req, Load(r) PROVE Stages'
  <2>1. PICK d \in Visible(r) : d.id = query[r].id /\ held' = [held EXCEPT ![r] = {d}]
    BY <1>2 DEF Load
  <2>2. d \in Doc /\ pc'[r] = "enforce" /\ held'[r] = {d} /\ shown'[r] = {}
    BY <1>0, <1>2, <2>1 DEF Load, Visible, Stage, TypeOK
  <2>3. LoadsFirst(query[r]) /\ query[r].verb # "list"
    BY <1>0, <1>2 DEF Load, Stage
  <2>4. Stage(r)'
    BY <1>0, <2>1, <2>2, <2>3 DEF Stage, FiltersPage, Loaded
  <2>5. QED
    BY <1>2, <2>4, OthersKept DEF Load, TypeOK
<1>3. ASSUME NEW r \in Req, LoadPage(r) PROVE Stages'
  <2>1. FiltersPage(r)
    BY <1>0, <1>3 DEF LoadPage, Stage, LoadsFirst, FiltersPage
  <2>2. pc'[r] = "filter"
    BY <1>3 DEF LoadPage, TypeOK
  <2>3. Stage(r)'
    BY <1>0, <2>1, <2>2 DEF Stage, FiltersPage
  <2>4. QED
    BY <1>3, <2>3, OthersKept DEF LoadPage, TypeOK
<1>4. ASSUME NEW r \in Req, NotFound(r) \/ Forbidden(r) \/ Unavailable(r) PROVE Stages'
  <2>1. pc'[r] = "rejected"
    BY <1>4 DEF NotFound, Forbidden, Unavailable, TypeOK
  <2>2. Stage(r)'
    BY <2>1 DEF Stage
  <2>3. QED
    BY <1>4, <2>2, OthersKept DEF NotFound, Forbidden, Unavailable, TypeOK
<1>5. ASSUME NEW r \in Req, Allowed(r) PROVE Stages'
  <2>1. pc[r] = "enforce" /\ pc'[r] = "apply" /\ held' = held /\ shown' = shown
    BY <1>5 DEF Allowed, TypeOK
  <2>2. WasAnswered(r)'
    <3>1. DecisionOn(CallOf(r, Attrs(r)), "allow") \in audit'
      BY <1>5, AnswerShape, AttrsTypes DEF Allowed, Effect
    <3>2. QED
      BY <3>1, <2>1, <1>0, AttrsKept DEF WasAnswered, DecisionOn
  <2>3. Stage(r)'
    BY <1>0, <2>1, <2>2 DEF Stage, FiltersPage, Loaded
  <2>4. QED
    BY <1>5, <2>1, <2>3, OthersKept DEF Allowed, TypeOK
<1>6. ASSUME NEW r \in Req, NEW d \in held[r], Keep(r, d) \/ Skip(r, d) PROVE Stages'
  <2>1. pc[r] = "filter" /\ pc' = pc
    BY <1>6 DEF Keep, Skip
  <2>2. Stage(r)'
    BY <1>0, <2>1 DEF Stage, FiltersPage
  <2>3. QED
    BY <1>6, <2>1, <2>2, OthersKept DEF Keep, Skip, TypeOK
<1>7. ASSUME NEW r \in Req, Filtered(r) \/ Insert(r) \/ Settle(r) \/ Show(r) PROVE Stages'
  <2>1. pc'[r] = "done"
    BY <1>7 DEF Filtered, Insert, Settle, Show, TypeOK
  <2>2. Stage(r)'
    BY <2>1 DEF Stage
  <2>3. \A x \in Req \ {r} : shown'[x] = shown[x]
    BY <1>7 DEF Filtered, Insert, Settle, Show, TypeOK
  <2>4. QED
    BY <1>7, <2>2, <2>3, OthersKept DEF Filtered, Insert, Settle, Show, TypeOK
<1>8. ASSUME NEW t \in Tenant, Administer(t) PROVE Stages'
  BY <1>0, <1>8, StageKept DEF Administer, Stages
<1>9. QED
  BY <1>1, <1>2, <1>3, <1>4, <1>5, <1>6, <1>7, <1>8 DEF Next, Handle

----------------------------------------------------------------------------
(* What is settled and shown *)

(* At the end of enforce, the PDP has allowed what is held. *)
LEMMA AllowedHeld ==
  ASSUME TypeOK, NEW r \in Req, Stage(r), pc[r] = "apply", LoadsFirst(query[r])
  PROVE  \E h \in Doc :
           /\ held[r] = {h} /\ h.id = query[r].id
           /\ WasAllowed(query[r].token.user, query[r].token.tenant,
                         ActionOf[query[r].kind, query[r].verb], ResourceOf(h))
<1>1. PICK h \in Doc : held[r] = {h} /\ h.id = query[r].id
  BY DEF Stage, Loaded
<1>2. Attrs(r) = ResourceOf(h)
  BY <1>1 DEF Attrs
<1>3. query[r].verb # "list"
  BY DEF Stage, FiltersPage, LoadsFirst
<1>4. /\ CallOf(r, Attrs(r)).subject = query[r].token
      /\ CallOf(r, Attrs(r)).action = ActionOf[query[r].kind, query[r].verb]
      /\ CallOf(r, Attrs(r)).resource = ResourceOf(h)
  BY <1>2, <1>3 DEF CallOf
<1>5. DecisionOn(CallOf(r, Attrs(r)), "allow") =
        [user |-> query[r].token.user, tenant |-> query[r].token.tenant,
         action |-> ActionOf[query[r].kind, query[r].verb], resource |-> ResourceOf(h),
         decision |-> "allow"]
  BY <1>4, Zenon DEF DecisionOn
<1>6. QED
  BY <1>1, <1>5 DEF Stage, WasAnswered, WasAllowed

(* What a settle changes is what the PDP was asked about. *)
LEMMA SettleAllowed ==
  ASSUME IInv, NEW r \in Req, Settle(r), NEW d \in documents, d \in Visible(r),
         d.id = query[r].id
  PROVE  LET new == SettledDoc(r, d)
         IN  \E s \in {"open", "settled"}, b \in User \cup {Nobody} :
               WasAllowed(new.by, new.tenant, ActionOf[new.kind, "settle"],
                          ResourceOf([new EXCEPT !.status = s, !.by = b]))
<1> DEFINE new == SettledDoc(r, d)
<1>1. TypeOK /\ Stage(r) /\ pc[r] = "apply" /\ query[r].verb = "settle"
  BY DEF IInv, Stages, Settle
<1>2. PICK h \in Doc :
        /\ held[r] = {h} /\ h.id = query[r].id
        /\ WasAllowed(query[r].token.user, query[r].token.tenant,
                      ActionOf[query[r].kind, query[r].verb], ResourceOf(h))
  BY <1>1, AllowedHeld DEF LoadsFirst
<1>3. Same(d, h)
  <2>1. PICK e \in documents : Same(e, h)
    BY <1>2 DEF IInv, HeldVisible
  <2>2. e.id = d.id
    BY <1>2, <2>1 DEF Same
  <2>3. IdsUnique
    BY DEF IInv
  <2>4. e = d
    BY <2>2, <2>3 DEF IdsUnique
  <2>5. QED
    BY <2>1, <2>4
<1>4. new = [d EXCEPT !.status = "settled", !.by = query[r].token.user]
  BY DEF SettledDoc
<1>5. d \in Doc /\ new \in Doc
  BY <1>1, SettledDocType DEF TypeOK
<1>6. /\ new.by = query[r].token.user /\ new.tenant = query[r].token.tenant
      /\ new.kind = query[r].kind
  BY <1>4, <1>5 DEF Doc, Visible
<1>7. [new EXCEPT !.status = h.status, !.by = h.by] = h
  BY <1>3, <1>4, <1>5 DEF Same, Doc
<1>8. h.status \in {"open", "settled"} /\ h.by \in User \cup {Nobody}
  BY DEF Doc
<1>9. WasAllowed(new.by, new.tenant, ActionOf[new.kind, "settle"],
                 ResourceOf([new EXCEPT !.status = h.status, !.by = h.by]))
  BY <1>1, <1>2, <1>6, <1>7
<1>10. QED
  BY <1>8, <1>9

LEMMA SettledStep ==
  ASSUME IInv, Next
  PROVE  SettledByAllowed'
<1> DEFINE Ok(d) ==
             d.status = "settled" =>
               \E s \in {"open", "settled"}, b \in User \cup {Nobody} :
                 WasAllowed(d.by, d.tenant, ActionOf[d.kind, "settle"],
                            ResourceOf([d EXCEPT !.status = s, !.by = b]))
<1>1. \A d \in documents \ Seeded : Ok(d)
  BY DEF IInv, SettledByAllowed, AllowedToSettle
<1>2. ASSUME NEW d \in documents' \ Seeded PROVE Ok(d)
  <2>1. CASE UNCHANGED documents
    BY <1>1, <1>2, <2>1
  <2>2. ASSUME NEW r \in Req, Insert(r) PROVE Ok(d)
    <3>1. PICK id \in Id : documents' = documents \cup {NewDoc(r, id)}
      BY <2>2 DEF Insert, NewDoc
    <3>2. NewDoc(r, id).status = "open"
      BY DEF NewDoc
    <3>3. CASE d = NewDoc(r, id)
      BY <3>2, <3>3
    <3>4. CASE d \in documents
      BY <1>1, <1>2, <3>4
    <3>5. QED
      BY <1>2, <3>1, <3>3, <3>4
  <2>3. ASSUME NEW r \in Req, Settle(r) PROVE Ok(d)
    <3>1. PICK d0 \in documents : d = SettledDoc(r, d0)
      BY <1>2, <2>3 DEF Settle, SettledDoc
    <3>2. CASE d0 \in Visible(r) /\ d0.id = query[r].id
      BY <2>3, <3>1, <3>2, SettleAllowed
    <3>3. CASE ~(d0 \in Visible(r) /\ d0.id = query[r].id)
      <4>1. d = d0
        BY <3>1, <3>3 DEF SettledDoc
      <4>2. QED
        BY <1>1, <1>2, <4>1
    <3>4. QED
      BY <3>2, <3>3
  <2>4. QED
    BY <2>1, <2>2, <2>3, DocumentSteps
<1>3. audit \subseteq audit'
  BY AuditGrows DEF IInv
<1>4. QED
  BY <1>2, <1>3 DEF SettledByAllowed, AllowedToSettle, WasAllowed

LEMMA ShownStep ==
  ASSUME IInv, Next
  PROVE  ShownAllowed'
<1> DEFINE Ok(x, d) ==
             WasAllowed(query[x].token.user, d.tenant, ActionOf["payslip", "read"], ResourceOf(d))
<1>0. TypeOK /\ audit \subseteq audit' /\ query' = query
  BY AuditGrows DEF IInv
<1>1. \A x \in Req : query[x].kind = "payslip" => \A d \in shown[x] : Ok(x, d)
  BY DEF IInv, ShownAllowed
<1>2. ASSUME NEW x \in Req, query[x].kind = "payslip", NEW d \in shown'[x], d \notin shown[x]
      PROVE  Ok(x, d)'
  <2>1. ASSUME NEW r \in Req, NEW e \in held[r], Keep(r, e) PROVE Ok(x, d)'
    <3>1. r = x /\ e = d
      BY <1>0, <1>2, <2>1 DEF Keep, TypeOK
    <3>2. DecisionOn(CallOf(x, ResourceOf(d)), "allow") \in audit'
      BY <1>0, <2>1, <3>1, AnswerShape, HeldTypes DEF Keep, Effect
    <3>3. query[x].verb = "list" /\ d.tenant = query[x].token.tenant
      BY <2>1, <3>1 DEF Keep, IInv, Stages, Stage, FiltersPage, HeldVisible
    <3>4. /\ CallOf(x, ResourceOf(d)).subject = query[x].token
          /\ CallOf(x, ResourceOf(d)).action = ActionOf["payslip", "read"]
          /\ CallOf(x, ResourceOf(d)).resource = ResourceOf(d)
      BY <1>2, <3>3 DEF CallOf
    <3>5. DecisionOn(CallOf(x, ResourceOf(d)), "allow") =
            [user |-> query[x].token.user, tenant |-> d.tenant,
             action |-> ActionOf["payslip", "read"], resource |-> ResourceOf(d),
             decision |-> "allow"]
      BY <3>3, <3>4, Zenon DEF DecisionOn
    <3>6. QED
      BY <1>0, <3>2, <3>5 DEF WasAllowed
  <2>2. ASSUME NEW r \in Req, Show(r) PROVE Ok(x, d)'
    <3>1. r = x
      BY <1>0, <1>2, <2>2 DEF Show, TypeOK
    <3>2. Stage(x) /\ pc[x] = "apply"
      BY <2>2, <3>1 DEF Show, IInv, Stages
    <3>3. query[x].verb = "read" /\ d \in held[x]
      BY <1>0, <1>2, <2>2, <3>1, <3>2 DEF Show, Stage, FiltersPage, TypeOK
    <3>4. PICK h \in Doc :
            /\ held[x] = {h} /\ h.id = query[x].id
            /\ WasAllowed(query[x].token.user, query[x].token.tenant,
                          ActionOf[query[x].kind, query[x].verb], ResourceOf(h))
      BY <1>0, <1>2, <3>2, <3>3, AllowedHeld DEF LoadsFirst
    <3>5. d = h /\ d.tenant = query[x].token.tenant
      BY <3>3, <3>4 DEF IInv, HeldVisible
    <3>6. Ok(x, d)
      BY <1>2, <3>3, <3>4, <3>5
    <3>7. QED
      BY <1>0, <3>6 DEF WasAllowed
  <2>3. \/ \E r \in Req : Show(r) \/ \E e \in held[r] : Keep(r, e)
        \/ shown' = shown
    BY DEF Next, Handle, Start, Load, LoadPage, NotFound, Allowed, Forbidden, Unavailable, Skip,
       Filtered, Insert, Settle, Administer
  <2>4. QED
    BY <1>2, <2>1, <2>2, <2>3
<1>3. ASSUME NEW x \in Req, query[x].kind = "payslip", NEW d \in shown[x] PROVE Ok(x, d)'
  BY <1>0, <1>1, <1>3 DEF WasAllowed
<1>4. QED
  BY <1>0, <1>2, <1>3 DEF ShownAllowed

LEMMA InvStep == IInv /\ [Next]_vars => IInv'
<1> SUFFICES ASSUME IInv, [Next]_vars PROVE IInv'
  OBVIOUS
<1>1. TypeOK'
  BY TypeStep DEF IInv
<1>2. CASE Next
  BY <1>1, <1>2, IdsStep, HeldStep, StageStep, ShownStep, SettledStep DEF IInv
<1>3. CASE UNCHANGED vars
  <2>1. IdsUnique' /\ HeldVisible'
    BY <1>3 DEF vars, IInv, IdsUnique, HeldVisible
  <2>2. ASSUME NEW r \in Req PROVE Stage(r)'
    <3>1. WasAnswered(r) => WasAnswered(r)'
      BY <1>3, AttrsKept DEF vars, WasAnswered, DecisionOn
    <3>2. QED
      BY <1>3, <3>1 DEF vars, IInv, Stages, Stage, Loaded, FiltersPage
  <2>3. ShownAllowed' /\ SettledByAllowed'
    BY <1>3 DEF vars, IInv, ShownAllowed, SettledByAllowed, AllowedToSettle, WasAllowed
  <2>4. QED
    BY <1>1, <2>1, <2>2, <2>3 DEF IInv, Stages
<1>4. QED
  BY <1>2, <1>3

(* Whoever a document names as its approver or issuer was allowed to be,   *)
(* by a decision of the PDP on the attributes the document has.            *)
THEOREM SettledOnlyByAllowed == Spec => []SettledByAllowed
<1>1. IInv => SettledByAllowed
  BY DEF IInv
<1>2. QED
  BY <1>1, InitInv, InvStep, PTL DEF Spec

(* Each payslip in a response was allowed to its reader, by a decision of  *)
(* its own.                                                                *)
THEOREM ShownOnlyIfAllowed == Spec => []ShownByAllowed
<1>1. IInv => ShownByAllowed
  BY DEF IInv, ShownAllowed, ShownByAllowed
<1>2. QED
  BY <1>1, InitInv, InvStep, PTL DEF Spec

----------------------------------------------------------------------------
(* What changes documents and responses *)

(* At the end of enforce without a document, the bare question was allowed.*)
LEMMA AllowedBare ==
  ASSUME TypeOK, NEW r \in Req, Stage(r), pc[r] = "apply", ~LoadsFirst(query[r])
  PROVE  LET verb == IF query[r].verb = "list" THEN "read" ELSE query[r].verb
         IN  /\ held[r] = {}
             /\ WasAllowed(query[r].token.user, query[r].token.tenant,
                           ActionOf[query[r].kind, verb], NoAttrs)
<1> DEFINE verb == IF query[r].verb = "list" THEN "read" ELSE query[r].verb
<1>1. held[r] = {} /\ Attrs(r) = NoAttrs
  BY DEF Stage, Loaded, Attrs
<1>2. /\ CallOf(r, NoAttrs).subject = query[r].token
      /\ CallOf(r, NoAttrs).action = ActionOf[query[r].kind, verb]
      /\ CallOf(r, NoAttrs).resource = NoAttrs
  BY DEF CallOf
<1>3. DecisionOn(CallOf(r, NoAttrs), "allow") =
        [user |-> query[r].token.user, tenant |-> query[r].token.tenant,
         action |-> ActionOf[query[r].kind, verb], resource |-> NoAttrs, decision |-> "allow"]
  BY <1>2, Zenon DEF DecisionOn
<1>4. QED
  BY <1>1, <1>3 DEF Stage, WasAnswered, WasAllowed

LEMMA InsertCreates ==
  ASSUME IInv, NEW r \in Req, Insert(r)
  PROVE  Moves(r) /\ Creates(r)
<1>1. TypeOK /\ Stage(r) /\ pc[r] = "apply" /\ query[r].verb = "create"
  BY DEF IInv, Stages, Insert
<1>2. Moves(r)
  BY <1>1 DEF Insert, Moves, TypeOK
<1>3. PICK id \in Id : /\ \A c \in documents : c.id # id
                       /\ documents' = documents \cup {NewDoc(r, id)}
  BY DEF Insert, NewDoc
<1>4. NewDoc(r, id) \in Doc
  BY <1>1, NewDocType
<1>5. /\ NewDoc(r, id).id = id /\ NewDoc(r, id).kind = query[r].kind
      /\ NewDoc(r, id).tenant = query[r].token.tenant
  BY DEF NewDoc
<1>6. WasAllowed(query[r].token.user, query[r].token.tenant, ActionOf[query[r].kind, "create"],
                 NoAttrs)
  BY <1>1, AllowedBare DEF LoadsFirst
<1>7. Creates(r)
  BY <1>1, <1>3, <1>4, <1>5, <1>6 DEF Insert, Creates
<1>8. QED
  BY <1>2, <1>7

LEMMA SettleSettles ==
  ASSUME IInv, NEW r \in Req, Settle(r), documents' # documents
  PROVE  Moves(r) /\ Settles(r)
<1>1. TypeOK /\ pc[r] = "apply" /\ query[r].verb = "settle" /\ IdsUnique
  BY DEF IInv, Settle
<1>2. Moves(r)
  BY <1>1 DEF Settle, Moves, TypeOK
<1>3. documents' = {SettledDoc(r, d) : d \in documents}
  BY DEF Settle, SettledDoc
<1>4. PICK d \in documents : SettledDoc(r, d) # d
  <2>1. CASE \A d \in documents : SettledDoc(r, d) = d
    BY <1>3, <2>1
  <2>2. QED
    BY <2>1
<1> DEFINE new == [d EXCEPT !.status = "settled", !.by = query[r].token.user]
<1>5. d \in Visible(r) /\ d.id = query[r].id /\ SettledDoc(r, d) = new
  BY <1>4 DEF SettledDoc
<1>6. \A c \in documents \ {d} : SettledDoc(r, c) = c
  BY <1>1, <1>5 DEF SettledDoc, IdsUnique
<1>7. documents' = (documents \ {d}) \cup {new}
  BY <1>3, <1>5, <1>6
<1>8. AllowedToSettle(new)
  BY <1>5, SettleAllowed DEF AllowedToSettle
<1>9. Settles(r)
  BY <1>1, <1>5, <1>7, <1>8 DEF Settle, Settles, Visible
<1>10. QED
  BY <1>2, <1>9

LEMMA ShowShows ==
  ASSUME IInv, Next, NEW r \in Req, Show(r)
  PROVE  Moves(r) /\ Shows(r)
<1>1. /\ TypeOK /\ Stage(r) /\ pc[r] = "apply" /\ query[r].verb \in {"read", "list"}
      /\ query' = query /\ audit' = audit /\ documents' = documents
  BY DEF IInv, Stages, Show
<1>2. Moves(r)
  BY <1>1 DEF Show, Moves, TypeOK
<1>3. ASSUME NEW d \in shown'[r]
      PROVE  /\ d.tenant = query[r].token.tenant /\ d.kind = query[r].kind
             /\ WasAllowed(query[r].token.user, d.tenant, ActionOf[d.kind, "read"],
                           IF LoadsFirst(query[r]) THEN ResourceOf(d) ELSE NoAttrs)
  <2>1. CASE LoadsFirst(query[r])
    <3>1. query[r].verb = "read" /\ d \in held[r]
      BY <1>1, <1>3, <2>1 DEF Show, Stage, FiltersPage, LoadsFirst, TypeOK
    <3>2. PICK h \in Doc :
            /\ held[r] = {h} /\ h.id = query[r].id
            /\ WasAllowed(query[r].token.user, query[r].token.tenant,
                          ActionOf[query[r].kind, query[r].verb], ResourceOf(h))
      BY <1>1, <2>1, AllowedHeld
    <3>3. d = h /\ d.tenant = query[r].token.tenant /\ d.kind = query[r].kind
      BY <3>1, <3>2 DEF IInv, HeldVisible
    <3>4. QED
      BY <2>1, <3>1, <3>2, <3>3
  <2>2. CASE ~LoadsFirst(query[r])
    <3>1. d \in Visible(r)
      <4>1. query[r].kind # "payslip"
        BY <1>1, <2>2 DEF LoadsFirst
      <4>2. \E page \in SUBSET Visible(r) : shown' = [shown EXCEPT ![r] = page]
        BY <4>1 DEF Show
      <4>3. QED
        BY <1>1, <1>3, <4>2 DEF TypeOK
    <3>2. d.tenant = query[r].token.tenant /\ d.kind = query[r].kind
      BY <3>1 DEF Visible
    <3>3. (IF query[r].verb = "list" THEN "read" ELSE query[r].verb) = "read"
      BY <1>1
    <3>4. WasAllowed(query[r].token.user, query[r].token.tenant,
                     ActionOf[query[r].kind, "read"], NoAttrs)
      BY <1>1, <2>2, <3>3, AllowedBare
    <3>5. QED
      BY <2>2, <3>2, <3>4
  <2>3. QED
    BY <2>1, <2>2
<1>4. Shows(r)
  BY <1>1, <1>3 DEF Shows, WasAllowed
<1>5. QED
  BY <1>2, <1>4

LEMMA KeepShows ==
  ASSUME IInv, Next, NEW r \in Req, NEW d \in held[r], Keep(r, d)
  PROVE  Moves(r) /\ Shows(r)
<1>1. /\ TypeOK /\ pc[r] = "filter" /\ query[r].verb = "list" /\ query[r].kind = "payslip"
      /\ query' = query /\ documents' = documents
  BY DEF IInv, Stages, Stage, FiltersPage, Keep
<1>2. held'[r] # held[r] /\ shown'[r] = shown[r] \cup {d}
  BY <1>1 DEF Keep, TypeOK
<1>3. Moves(r)
  BY <1>1, <1>2 DEF Keep, Moves, TypeOK
<1>4. d.tenant = query[r].token.tenant /\ d.kind = "payslip"
  BY <1>1 DEF IInv, HeldVisible
<1>5. DecisionOn(CallOf(r, ResourceOf(d)), "allow") \in audit'
  BY <1>1, AnswerShape, HeldTypes DEF Keep, Effect
<1>6. /\ CallOf(r, ResourceOf(d)).subject = query[r].token
      /\ CallOf(r, ResourceOf(d)).action = ActionOf["payslip", "read"]
      /\ CallOf(r, ResourceOf(d)).resource = ResourceOf(d)
  BY <1>1 DEF CallOf
<1>7. DecisionOn(CallOf(r, ResourceOf(d)), "allow") =
        [user |-> query[r].token.user, tenant |-> d.tenant, action |-> ActionOf["payslip", "read"],
         resource |-> ResourceOf(d), decision |-> "allow"]
  BY <1>4, <1>6, Zenon DEF DecisionOn
<1>8. Shows(r)
  BY <1>1, <1>2, <1>4, <1>5, <1>7 DEF Shows, WasAllowed, LoadsFirst
<1>9. QED
  BY <1>3, <1>8

(* A document is created or settled, or shown, only by a request whose     *)
(* user the PDP allowed to, one document at a time, and only in the tenant *)
(* and of the kind of the request.                                         *)
THEOREM ChangesOnlyIfAllowed == Spec => OnlyAllowedChange
<1> DEFINE A == \E r \in Req : Moves(r) /\ (Creates(r) \/ Settles(r) \/ Shows(r))
<1>1. IInv /\ [Next]_vars => [A]_<<documents, shown>>
  <2> SUFFICES ASSUME IInv, [Next]_vars, ~UNCHANGED <<documents, shown>> PROVE A
    OBVIOUS
  <2>1. Next
    BY DEF vars
  <2>2. \/ \E r \in Req : \/ Insert(r) \/ Settle(r) \/ Show(r)
                         \/ \E d \in held[r] : Keep(r, d)
        \/ UNCHANGED <<documents, shown>>
    BY <2>1 DEF Next, Handle, Start, Load, LoadPage, NotFound, Allowed, Forbidden, Unavailable,
       Skip, Filtered, Administer
  <2>3. ASSUME NEW r \in Req, Settle(r) PROVE A
    <3>1. documents' # documents
      BY <2>3 DEF Settle
    <3>2. QED
      BY <2>3, <3>1, SettleSettles
  <2>4. QED
    BY <2>1, <2>2, <2>3, InsertCreates, ShowShows, KeepShows
<1>2. QED
  BY <1>1, InitInv, InvStep, PTL DEF Spec, OnlyAllowedChange
=============================================================================
