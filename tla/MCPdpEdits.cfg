CONSTANTS
  Ann = Ann  Bob = Bob  Admin = Admin  Clerk = Clerk  Pay = Pay  Refund = Refund
  T = T  Item = Item  NoEnvironment = NoEnvironment
  Always = Always  Broken = Broken  NoContext = NoContext  NoOrg = NoOrg  p1 = p1  p2 = p2
  Tenant = {T}
  User = {Ann}
  Role = {Admin, Clerk}
  Perm = {Pay, Refund}
  WellFormed = {Pay, Refund}
  Org = {NoOrg}
  Resource = {Item}
  Env = {NoEnvironment}
  Cond = {Always, Broken}
  PolicyId = {p1, p2}
  Evaluate <- MCEvaluate
  Req = {r1}
  Op = {o1, o2}
  Request <- EditsRequest
  Token <- EditsToken
  TenantAdmin = Admin
  Member <- EditsMember
  InitCatalog <- MCInitCatalog
  InitRows <- EditsInitRows
  Faults = {"error", "flush"}
SPECIFICATION Spec
INVARIANTS
  TypeOK
PROPERTIES
  EditsAreMonotone
  CatalogNeedsNoBump
SYMMETRY Symmetry
CHECK_DEADLOCK FALSE
