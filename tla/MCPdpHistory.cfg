CONSTANTS
  Ann = Ann  Bob = Bob  Admin = Admin  Clerk = Clerk  Pay = Pay  Refund = Refund
  T = T  Item = Item  NoEnvironment = NoEnvironment
  Always = Always  Broken = Broken  NoContext = NoContext  NoOrg = NoOrg  p1 = p1  p2 = p2
  Tenant = {T}
  User = {Ann, Bob}
  Role = {Admin, Clerk}
  Perm = {Pay}
  WellFormed = {Pay}
  Org = {NoOrg}
  Resource = {Item}
  Env = {NoEnvironment}
  Cond = {Always}
  PolicyId = {p1}
  Evaluate <- MCEvaluate
  Req = {r1}
  Op = {o1, o2}
  Request <- MCRequest
  Token <- MCToken
  TenantAdmin = Admin
  Member <- MCMember
  InitCatalog <- MCInitCatalog
  InitRows <- TornInitRows
  Faults = {}
SPECIFICATION HistorySpec
INVARIANTS
  AllowedByAState
CHECK_DEADLOCK FALSE
