CONSTANTS
  Ann = Ann  Bob = Bob  Admin = Admin  Clerk = Clerk  Pay = Pay  Refund = Refund
  T = T  Item = Item  NoEnvironment = NoEnvironment
  Always = Always  Broken = Broken  NoContext = NoContext  NoOrg = NoOrg  p1 = p1  p2 = p2
  Tenant = {T}
  User = {Ann, Bob}
  Role = {Admin, Clerk}
  Perm = {Pay}
  WellFormed = {Pay}
  Org = {NoOrg}
  Resource = {Item}
  Env = {NoEnvironment}
  Cond = {Always}
  PolicyId = {p1}
  Evaluate <- MCEvaluate
  Req = {r1, r2}
  Op = {o1}
  Request <- DemotedRequest
  Token <- MCToken
  TenantAdmin = Admin
  Member <- MCMember
  InitCatalog <- MCInitCatalog
  InitRows <- DemotedInitRows
  Faults = {}
SPECIFICATION Spec
INVARIANTS
  AnswersAreCurrent
CHECK_DEADLOCK FALSE
