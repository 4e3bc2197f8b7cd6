CONSTANTS
  Acme = Acme  Globex = Globex  Bob = Bob  Carol = Carol  Frank = Frank
  Manager = Manager  PayrollAdmin = PayrollAdmin  Eng = Eng  Sales = Sales
  Create = Create  Read = Read  Settle_ = Settle_  ReadSlip = ReadSlip
  e1 = e1  e2 = e2  e3 = e3  s1 = s1  s2 = s2
  NoContext = NoContext  NoEnv = NoEnv  NoAttrs = NoAttrs  Nobody = Nobody
  Tenant = {Acme, Globex}
  User = {Bob, Carol, Frank}
  Role = {Manager, PayrollAdmin}
  Perm = {Create, Read, Settle_, ReadSlip}
  WellFormed = {Create, Read, Settle_, ReadSlip}
  Catalog = {Create, Read, Settle_, ReadSlip}
  Org = {Eng, Sales}
  Value = {9999, 10000}
  Limit = 10000
  Resource <- MCResource
  Env = {NoEnv}
  Cond <- SeedCond
  PolicyId = {Create, Read, Settle_, ReadSlip}
  Evaluate <- SeedEvaluate
  Req = {r1, r2}
  Id = {e1, e2, e3, s1, s2}
  Queries <- MCQueries
  ActionOf <- MCActionOf
  Seeded <- MCSeeded
  Grants <- MCGrants
  Tables <- SeedTables
SPECIFICATION FairSpec
INVARIANTS
  TypeOK
  SettledByAllowed
  ShownByAllowed
  SettlementsKeepTheRule
  PayslipsArePrivate
PROPERTIES
  OnlyAllowedChange
  RequestsEnd
CHECK_DEADLOCK FALSE
