CONSTANTS
  Ann = Ann  Bob = Bob  T = T  Empty = Empty  Admin = Admin  Clerk = Clerk  Other = Other
  User = {Ann}
  Tenant = {T}
  Role = {Admin, Clerk}
  RoleTenant <- MCRoleTenant
  AdminRoles = {Admin}
  Req = {i1, i2}
  SessionId = {s1}
  InitJoined <- MCInitJoined
  InitAssigned <- MCInitAssigned
SPECIFICATION FairSpec
PROPERTIES
  RevocationTakesEffect
  SuspensionTakesEffect
CHECK_DEADLOCK FALSE
