------------------------------- MODULE MCPdp -------------------------------
(* Values for the constants of Pdp: one tenant, a role that may inherit    *)
(* another, a permission in the catalog and one that is not yet.           *)
EXTENDS Pdp, TLC

CONSTANTS
  T, Ann, Bob, Admin, Clerk, Pay, Refund, Item, NoEnvironment, p1, p2,
  Always,  \* a condition that holds in every context, such as {}
  Broken   \* one whose evaluation raises once attributes are there:
           \* {"all": [{"eq": ["subject.x", 1]}, {"frobnicate": []}]}

MCEvaluate(cond, context) ==
  IF cond = Always THEN "true" ELSE IF context = NoContext THEN "false" ELSE "raise"

SubjectOf(u, roles) == [user |-> u, tenant |-> T, roles |-> roles, org |-> NoOrg]

AnnSubject == SubjectOf(Ann, {Admin})
BobSubject == SubjectOf(Bob, {Clerk})

Check(caller, subject, action) ==
  [caller |-> caller, subject |-> subject, action |-> action,
   resource |-> Item, env |-> NoEnvironment]

Service == [type |-> "service"]
Access(token) == [type |-> "access", token |-> token]

(* A service asking for Ann, and Bob asking with a subject not his own. *)
MCRequest == {Check(Service, AnnSubject, Pay), Check(Access(BobSubject), AnnSubject, Pay)}

MCToken == {AnnSubject, BobSubject}
MCMember == {<<Bob, T>>}
MCInitCatalog == {Pay}
MCInitRows ==
  [t \in Tenant |-> [roles |-> {Admin, Clerk}, edges |-> {}, grants |-> {<<Clerk, Pay>>},
                     direct |-> {}, policies |-> {}]]

(* For the run of edits: Ann alone, holding Pay through inheritance, and a *)
(* disabled policy there to be enabled.                                    *)
EditsToken == {AnnSubject}
EditsRequest == {Check(Service, AnnSubject, Pay), Check(Access(AnnSubject), AnnSubject, Refund)}
EditsMember == {<<Ann, T>>}
EditsInitRows ==
  [t \in Tenant |-> [roles |-> {Admin, Clerk}, edges |-> {<<Admin, Clerk>>},
                     grants |-> {<<Clerk, Pay>>}, direct |-> {},
                     policies |-> {[id |-> p1, perm |-> Pay, effect |-> "deny",
                                    cond |-> Broken, enabled |-> FALSE]}]]

(* For the run with failures: one role, one subject asking twice. *)
FaultsRequest == {Check(Service, AnnSubject, Pay)}
FaultsInitRows ==
  [t \in Tenant |-> [roles |-> {Admin}, edges |-> {}, grants |-> {<<Admin, Pay>>}, direct |-> {},
                     policies |-> {[id |-> p1, perm |-> Pay, effect |-> "deny",
                                    cond |-> Broken, enabled |-> FALSE]}]]

(* For the run of a changed role assignment: Ann's token before she lost   *)
(* the role and the refreshed one.                                         *)
DemotedRequest == {Check(Service, AnnSubject, Pay), Check(Service, SubjectOf(Ann, {}), Pay)}
DemotedInitRows == [MCInitRows EXCEPT ![T].grants = {<<Admin, Pay>>}]

Symmetry == Permutations(Req) \cup Permutations(Op)
=============================================================================
