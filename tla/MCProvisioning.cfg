SPECIFICATION FairSpec
CONSTANTS
  Acme = Acme
  Globex = Globex
  first = first
  second = second
  third = third
  fourth = fourth
  Guest = Guest
  Global = Global
  Identity = Identity
  Person = Person
  Admin = Admin
  Unit = Unit
  Pay = Pay
  Rule = Rule
  Limit = Limit
  Other = Other
  Tenant <- MCTenant
  Txn <- MCTxn
  User <- MCUser
  Condition <- MCCondition
  Jobs <- MCJobs
CHECK_DEADLOCK FALSE
INVARIANTS
  TypeOK
  SeededOnce
  GrantsComeWithPolicies
  AnsweredUpdatesHold
  DeletedStaysDeleted
PROPERTIES
  TenantsApart
  TransactionsEnd
