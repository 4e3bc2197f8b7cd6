CONSTANTS
  Ann = Ann  Bob = Bob  T = T  Empty = Empty  Admin = Admin  Clerk = Clerk  Other = Other
  User = {Ann, Bob}
  Tenant = {T, Empty}
  Role = {Admin, Other}
  RoleTenant <- MCRoleTenant
  AdminRoles = {Admin}
  Req = {i1, i2}
  SessionId = {s1}
  InitJoined <- MCInitJoined
  InitAssigned <- MCInitAssigned
SPECIFICATION Spec
INVARIANTS
  TypeOK
  TokensStayInTenant
  EmptyTenantsStayEmpty
PROPERTIES
  LogoutIsFinal
  PowerEndsForGood
SYMMETRY Symmetry
CHECK_DEADLOCK FALSE
