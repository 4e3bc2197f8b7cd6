---------------------------- MODULE Provisioning ----------------------------
(***************************************************************************)
(* How the tables get their rows: the seeding (services/common/seed.py),   *)
(* the endpoints of Auth that create users, tenants, org units, members    *)
(* and assignments, and those of the PAP that create, update and delete    *)
(* policies, as transactions of Postgres at READ COMMITTED that run beside *)
(* one another (services/common/db.py, models.py, bootstrap.py).           *)
(*                                                                         *)
(* A job is a session with the statements it executes.  A statement sees   *)
(* what is committed and what its own transaction wrote.  An INSERT of a   *)
(* unique key waits for another transaction that has inserted it, and so   *)
(* does a write to a row that another transaction has written.  Any error  *)
(* rolls back the transaction.                                             *)
(***************************************************************************)
EXTENDS Naturals, Sequences

CONSTANTS
  Txn,             \* transactions; each runs one job
  Jobs,            \* which jobs may run beside one another: functions from Txn
                   \* to Job
  Tenant, Global,  \* the tenants, and where tables without tenant_id belong
  Identity,        \* the scope of identity_session, which bypasses RLS
  Acme, Globex,    \* the tenants that the seeding makes
  User, Condition, \* users, and conditions of policies
  Person, Admin, Unit, Pay, Rule, Limit  \* names that the seeded rows have

VARIABLES
  rows,  \* the committed rows
  txn,   \* transaction -> its progress and its uncommitted writes
  job    \* transaction -> what it runs

vars == <<rows, txn, job>>

----------------------------------------------------------------------------
(* Rows.  A key is what a lookup goes by.  by is the transaction that      *)
(* inserted the row, which with the key stands for its id.                 *)

NoColumns == [c \in {} |-> c]

Row(table, tenant, key) == [in |-> table, tenant |-> tenant, key |-> key]

(* The tables whose keys a UNIQUE constraint covers. *)
Unique ==
  {"permissions", "users", "roles", "role_permissions", "role_hierarchy", "memberships",
   "membership_roles", "membership_permissions"}

SameKey(r, q) == r.in = q.in /\ r.tenant = q.tenant /\ r.key = q.key
SameRow(r, q) == SameKey(r, q) /\ r.by = q.by

UserRow(u)         == Row("users", Global, <<u>>)
PermissionRow      == Row("permissions", Global, <<Pay>>)
TenantRow(t)       == Row("tenants", Global, <<t>>)
UnitRow(t)         == Row("org_units", t, <<Unit>>)
RoleRow(t)         == Row("roles", t, <<Admin>>)
GrantRow(t)        == Row("role_permissions", t, <<Admin, Pay>>)
PolicyRow(t)       == Row("policies", t, <<Rule>>)
MemberRow(t, u)    == Row("memberships", t, <<u>>)
AssignedRow(t, u)  == Row("membership_roles", t, <<u, Admin>>)
ExpenseRow(t)      == Row("expenses", t, <<>>)
AuditRow(t, about) == Row("audit_logs", t, <<about>>)

----------------------------------------------------------------------------
(* Statements *)

Find(row)    == [do |-> "find", row |-> row, columns |-> NoColumns]
Seeded(row, columns) == [do |-> "find", row |-> row, columns |-> columns]
FindAny(row) == [do |-> "any", row |-> row, columns |-> NoColumns]
Refuse(row)  == [do |-> "refuse", row |-> row]
Require(row) == [do |-> "require", row |-> row]
Insert(row, columns) == [do |-> "insert", row |-> row, columns |-> columns]
Load(row, columns)   == [do |-> "load", row |-> row, columns |-> columns]
Delete(row)  == [do |-> "delete", row |-> row]
Flush        == [do |-> "flush"]   \* of changes
Remove       == [do |-> "remove"]  \* the flush of a deletion

FirstColumns == [condition |-> Limit, effect |-> "allow", enabled |-> TRUE, version |-> 1]

----------------------------------------------------------------------------
(* Jobs: main of seed.py.  Of several rows of a table that are made the    *)
(* same way one is kept.                                                   *)

SeedCatalog == <<Find(PermissionRow), Find(UserRow(Admin))>>

SeedTenants ==
  <<Find(TenantRow(Acme)), Find(TenantRow(Globex)), Find(UnitRow(Acme)), Find(UnitRow(Globex))>>

(* _seed_tenant_rbac.  A policy that is there gets its condition and its   *)
(* effect back, in an UPDATE that the next SELECT flushes; its             *)
(* permission_id, which is set too, no endpoint ever changes.              *)
SeededColumns == [condition |-> Limit, effect |-> "allow"]

SeedRbac(t) ==
  <<Find(RoleRow(t)), Find(GrantRow(t)), Seeded(PolicyRow(t), SeededColumns), Flush>>

SeedPeople ==
  <<Find(UserRow(Person)), Find(MemberRow(Acme, Person)), Find(AssignedRow(Acme, Person)),
    FindAny(ExpenseRow(Acme))>>

SeedSteps == SeedCatalog \o SeedTenants \o SeedRbac(Acme) \o SeedRbac(Globex) \o SeedPeople

Seeding == [scope |-> Identity, admin |-> Global, steps |-> SeedSteps]

(* The endpoints of Auth.  admin is the tenant whose administrator calls.  *)

CreateUser(t, u) ==
  [scope |-> Identity, admin |-> t,
   steps |-> <<Refuse(UserRow(u)), Insert(UserRow(u), NoColumns)>>]

CreateTenant(t, name) ==
  [scope |-> Identity, admin |-> t, steps |-> <<Insert(TenantRow(name), NoColumns)>>]

CreateOrgUnit(t) ==
  [scope |-> Identity, admin |-> t, steps |-> <<Insert(UnitRow(t), NoColumns)>>]

AddMember(t, u) ==
  [scope |-> Identity, admin |-> t,
   steps |-> <<Require(TenantRow(t)), Require(UserRow(u)), Refuse(MemberRow(t, u)),
               Insert(MemberRow(t, u), NoColumns), Insert(AuditRow(t, u), NoColumns)>>]

AssignRole(t, u) ==
  [scope |-> Identity, admin |-> t,
   steps |-> <<Require(MemberRow(t, u)), Require(RoleRow(t)), Find(AssignedRow(t, u)),
               Insert(AuditRow(t, u), NoColumns)>>]

(* The endpoints of the PAP: the catalog in an app_session, the policies   *)
(* in a tenant_session.  of is the tenant of the policy in the path.       *)

CreatePermission(t) ==
  [scope |-> Global, admin |-> t, steps |-> <<Find(PermissionRow)>>]

CreatePolicy(t) ==
  [scope |-> t, admin |-> t,
   steps |-> <<Require(PermissionRow), Insert(PolicyRow(t), FirstColumns)>>]

UpdatePolicy(t, of, columns) ==
  [scope |-> t, admin |-> t, steps |-> <<Load(PolicyRow(of), columns), Flush>>]

DeletePolicy(t, of) ==
  [scope |-> t, admin |-> t, steps |-> <<Delete(PolicyRow(of)), Remove>>]

(* What an update may set: any of three columns.                           *)
Effect == {"allow", "deny"}

Edit ==
  {NoColumns} \cup [condition : Condition] \cup [effect : Effect] \cup [enabled : BOOLEAN]
    \cup [condition : Condition, effect : Effect] \cup [condition : Condition, enabled : BOOLEAN]
    \cup [effect : Effect, enabled : BOOLEAN]
    \cup [condition : Condition, effect : Effect, enabled : BOOLEAN]

Job ==
  {Seeding}
    \cup {CreateUser(t, u) : t \in Tenant, u \in User}
    \cup {CreateTenant(t, name) : t \in Tenant, name \in Tenant}
    \cup {CreateOrgUnit(t) : t \in Tenant}
    \cup {AddMember(t, u) : t \in Tenant, u \in User}
    \cup {AssignRole(t, u) : t \in Tenant, u \in User}
    \cup {CreatePermission(t) : t \in Tenant}
    \cup {CreatePolicy(t) : t \in Tenant}
    \cup {UpdatePolicy(t, of, columns) : t \in Tenant, of \in Tenant, columns \in Edit}
    \cup {DeletePolicy(t, of) : t \in Tenant, of \in Tenant}

ASSUME ProvisioningAssumption ==
  /\ Jobs \subseteq [Txn -> Job]
  /\ {Acme, Globex} \subseteq Tenant
  /\ Global \notin Tenant
  /\ Identity \notin Tenant \cup {Global}

----------------------------------------------------------------------------
(* Transactions *)

Fresh == [state |-> "idle", at |-> 1, found |-> {}, set |-> <<>>, new |-> {},
          changed |-> {}, gone |-> {}, before |-> {}]

Init ==
  /\ rows = {}
  /\ txn = [x \in Txn |-> Fresh]
  /\ job \in Jobs

Steps(x) == job[x].steps

Step(x) == Steps(x)[txn[x].at]

Reads(x, kind) ==
  /\ txn[x].state = "open"
  /\ txn[x].at <= Len(Steps(x))
  /\ Step(x).do = kind

(* Mutant of Visible: the tenant_isolation policy has USING (true). *)
VisibleToAll(x, r) == TRUE

(* The policy tenant_isolation on every table with a tenant_id. *)
Visible(x, r) == job[x].scope = Identity \/ r.tenant \in {Global, job[x].scope}

Matches(x) == {r \in rows \cup txn[x].new : SameKey(r, Step(x).row) /\ Visible(x, r)}

(* A rollback, whatever the reason. *)
RolledBack(x) ==
  txn' = [txn EXCEPT ![x] = [Fresh EXCEPT !.state = "failed", !.before = txn[x].before]]

(* Only the seeding runs where nobody has a token yet. *)
Begin(x) ==
  /\ txn[x].state = "idle"
  /\ \/ job[x] = Seeding
     \/ \E r \in rows : SameKey(r, AssignedRow(job[x].admin, Person))
  /\ txn' = [txn EXCEPT ![x].state = "open",
                       ![x].before = {y \in Txn : txn[y].state = "committed"}]
  /\ UNCHANGED <<rows, job>>

(* The SELECT of _get_or_create and of _policy: scalar_one_or_none raises  *)
(* when there are several rows.  A column that is not as seeded is set     *)
(* again.                                                                  *)
Lookup(x) ==
  /\ Reads(x, "find")
  /\ \/ Matches(x) = {} /\ txn' = [txn EXCEPT ![x].state = "missing", ![x].found = {}]
     \/ \E r \in Matches(x) :
          /\ Matches(x) = {r}
          /\ LET stale == {c \in DOMAIN Step(x).columns : r.columns[c] # Step(x).columns[c]}
             IN  txn' = [txn EXCEPT ![x].at = @ + 1,
                                    ![x].found = IF stale = {} THEN {} ELSE {r},
                                    ![x].set = [c \in stale |-> Step(x).columns[c]]]
     \/ \E r, q \in Matches(x) : r # q /\ RolledBack(x)
  /\ UNCHANGED <<rows, job>>

Proceed(x) == txn' = [txn EXCEPT ![x].at = @ + 1]

LookupAny(x) ==
  /\ Reads(x, "any")
  /\ IF Matches(x) = {} THEN txn' = [txn EXCEPT ![x].state = "missing"] ELSE Proceed(x)
  /\ UNCHANGED <<rows, job>>

(* The lookups that answer 409 and 404. *)
Check(x) ==
  /\ Reads(x, "refuse") \/ Reads(x, "require")
  /\ IF (Matches(x) # {}) = (Step(x).do = "require") THEN Proceed(x) ELSE RolledBack(x)
  /\ UNCHANGED <<rows, job>>

(* What a transaction wrote is locked until it ends. *)
Holds(y) == txn[y].state # "committed"

(* An INSERT, flushed at once.  A unique key that another transaction has  *)
(* inserted but not committed makes it wait.                               *)
Inserting(x) ==
  /\ txn[x].at <= Len(Steps(x))
  /\ txn[x].state = "missing" \/ (txn[x].state = "open" /\ Step(x).do = "insert")

Taken(x, r) == r.in \in Unique /\ \E q \in rows : SameKey(q, r)

Contested(x, r) ==
  r.in \in Unique /\ \E y \in Txn \ {x} : Holds(y) /\ \E q \in txn[y].new : SameKey(q, r)

(* Mutant of NewRow: a policy gets no values by default. *)
NewRowBare(x) ==
  LET r == Step(x).row
  IN  [in |-> r.in, tenant |-> r.tenant, key |-> r.key, by |-> x, columns |-> NoColumns]

NewRow(x) ==
  LET r == Step(x).row
  IN  [in |-> r.in, tenant |-> r.tenant, key |-> r.key, by |-> x,
       columns |-> IF r.in = "policies" THEN FirstColumns ELSE NoColumns]

(* Mutant of Create: a commit where the code has a flush. *)
CreateCommits(x) ==
  /\ Inserting(x)
  /\ ~Contested(x, Step(x).row)
  /\ IF Taken(x, Step(x).row)
     THEN RolledBack(x) /\ UNCHANGED rows
     ELSE /\ txn' = [txn EXCEPT ![x].state = "open", ![x].at = @ + 1]
          /\ rows' = rows \cup {NewRow(x)}
  /\ UNCHANGED job

Create(x) ==
  /\ Inserting(x)
  /\ ~Contested(x, Step(x).row)
  /\ IF Taken(x, Step(x).row)
     THEN RolledBack(x)
     ELSE txn' = [txn EXCEPT ![x].state = "open", ![x].at = @ + 1,
                             ![x].new = @ \cup {NewRow(x)}]
  /\ UNCHANGED <<rows, job>>

(* update_policy: session.get, and the attributes that change.  SQLAlchemy *)
(* will write the columns whose values differ from those it loaded; the    *)
(* version always does.                                                    *)
LoadPolicy(x) ==
  /\ Reads(x, "load")
  /\ \/ Matches(x) = {} /\ RolledBack(x)
     \/ \E r \in Matches(x) :
          LET edit == Step(x).columns
              wanted == [c \in DOMAIN edit \cup {"version"} |->
                           IF c = "version" THEN r.columns.version + 1 ELSE edit[c]]
              dirty == {c \in DOMAIN wanted : wanted[c] # r.columns[c]}
          IN  txn' = [txn EXCEPT ![x].at = @ + 1, ![x].found = {r},
                                 ![x].set = [c \in dirty |-> wanted[c]]]
  /\ UNCHANGED <<rows, job>>

(* delete_policy: a policy that is not there is no error. *)
LoadToDelete(x) ==
  /\ Reads(x, "delete")
  /\ \/ Matches(x) = {} /\ Proceed(x)
     \/ \E r \in Matches(x) : txn' = [txn EXCEPT ![x].at = @ + 1, ![x].found = {r}]
  /\ UNCHANGED <<rows, job>>

Locked(x, r) ==
  \E y \in Txn \ {x} :
    Holds(y) /\ \E q \in txn[y].changed \cup txn[y].gone : SameRow(q, r)

There(x) == {r \in rows \cup txn[x].new : \E q \in txn[x].found : SameRow(r, q)}

Unlocked(x) == \A r \in txn[x].found : ~Locked(x, r)

Changes(x, some) == {[r EXCEPT !.columns = txn[x].set] : r \in some}

(* Columns after an UPDATE of some of them. *)
Overwritten(columns, set) ==
  [c \in DOMAIN columns |-> IF c \in DOMAIN set THEN set[c] ELSE columns[c]]

(* Mutant of FlushPolicy: every column is written as it was loaded. *)
FlushAll(x) ==
  /\ Reads(x, "flush")
  /\ Unlocked(x)
  /\ IF There(x) = {} /\ txn[x].found # {}
     THEN RolledBack(x)
     ELSE txn' = [txn EXCEPT ![x].at = @ + 1,
                    ![x].changed = @ \cup {[r EXCEPT !.columns = Overwritten(@, txn[x].set)] :
                                             r \in txn[x].found}]
  /\ UNCHANGED <<rows, job>>

(* Mutant of FlushPolicy: a row that is gone is inserted again. *)
FlushUpserts(x) ==
  /\ Reads(x, "flush")
  /\ Unlocked(x)
  /\ IF There(x) = {}
     THEN txn' = [txn EXCEPT ![x].at = @ + 1, ![x].new = @ \cup txn[x].found]
     ELSE txn' = [txn EXCEPT ![x].at = @ + 1, ![x].changed = @ \cup Changes(x, There(x))]
  /\ UNCHANGED <<rows, job>>

(* The UPDATE by id, which waits for a row that another transaction has    *)
(* written and then finds what that one left.  An UPDATE that finds no row *)
(* is an error (StaleDataError).                                           *)
FlushPolicy(x) ==
  /\ Reads(x, "flush")
  /\ Unlocked(x)
  /\ IF There(x) = {} /\ txn[x].found # {}
     THEN RolledBack(x)
     ELSE txn' = [txn EXCEPT ![x].at = @ + 1, ![x].changed = @ \cup Changes(x, There(x))]
  /\ UNCHANGED <<rows, job>>

(* The DELETE by id, which waits too, and for which no row is no error. *)
RemovePolicy(x) ==
  /\ Reads(x, "remove")
  /\ Unlocked(x)
  /\ txn' = [txn EXCEPT ![x].at = @ + 1, ![x].gone = There(x)]
  /\ UNCHANGED <<rows, job>>

Writes(x, r) == {w \in txn[x].changed : SameRow(w, r)}

(* A row as the transaction leaves it. *)
Written(x, r) ==
  IF Writes(x, r) = {} THEN r
  ELSE LET w == CHOOSE w \in Writes(x, r) : TRUE
       IN  [r EXCEPT !.columns = Overwritten(@, w.columns)]

Kept(x) == {r \in rows \cup txn[x].new : \A q \in txn[x].gone : ~SameRow(q, r)}

Commit(x) ==
  /\ txn[x].state = "open"
  /\ txn[x].at > Len(Steps(x))
  /\ rows' = {Written(x, r) : r \in Kept(x)}
  /\ txn' = [txn EXCEPT ![x].state = "committed"]
  /\ UNCHANGED job

(* Mutant of Abort: neither rollback nor close after an exception. *)
AbortLeavesOpen(x) ==
  /\ txn[x].state \in {"open", "missing"}
  /\ txn' = [txn EXCEPT ![x].state = "failed"]
  /\ UNCHANGED <<rows, job>>

(* A lost connection, a crash, or any other error. *)
Abort(x) ==
  /\ txn[x].state \in {"open", "missing"}
  /\ RolledBack(x)
  /\ UNCHANGED <<rows, job>>

Run(x) ==
  \/ Lookup(x) \/ LookupAny(x) \/ Check(x) \/ Create(x)
  \/ LoadPolicy(x) \/ LoadToDelete(x) \/ FlushPolicy(x) \/ RemovePolicy(x) \/ Commit(x)

Next == \E x \in Txn : Begin(x) \/ Run(x) \/ Abort(x)

Spec == Init /\ [][Next]_vars

(* A request or a seeding that has begun is run to its end; a statement    *)
(* that waits goes on when it can.                                         *)
FairSpec == Spec /\ \A x \in Txn : WF_vars(Run(x))

----------------------------------------------------------------------------
(* Properties *)

Committed == {x \in Txn : txn[x].state = "committed"}

Seeds == {x \in Txn : job[x] = Seeding}

(* A row that somebody has deleted; only policies can be. *)
Removed(row) == \E x \in Committed : \E q \in txn[x].gone : SameKey(q, row)

TypeOK ==
  /\ \A r \in rows :
       /\ r.by \in Txn
       /\ r.tenant \in Tenant \cup {Global}
       /\ DOMAIN r.columns = IF r.in = "policies" THEN DOMAIN FirstColumns ELSE {}
  /\ \A x \in Txn :
       /\ DOMAIN txn[x] = DOMAIN Fresh
       /\ txn[x].state \in {"idle", "open", "missing", "committed", "failed"}
       /\ txn[x].at \in 1..(Len(Steps(x)) + 1)
       /\ txn[x].before \subseteq Txn

(* seed.py is safe to run again, and beside itself: of what the seedings   *)
(* insert nothing is there twice, although tenants, org units and policies *)
(* have no UNIQUE constraint and are found by a SELECT before the INSERT.  *)
(* The exception is a policy that somebody deleted: two seedings at once   *)
(* can both miss it and both insert it.                                    *)
SeededOnce ==
  \A r, q \in {p \in rows : p.by \in Seeds} : SameKey(r, q) => r = q \/ Removed(r)

(* Nobody sees a role hold a permission before the policy that narrows it  *)
(* is there: the seeding commits the grants and the policies together.     *)
GrantsComeWithPolicies ==
  \A t \in Tenant :
    (\E r \in rows : SameKey(r, GrantRow(t)))
      => (\E r \in rows : SameKey(r, PolicyRow(t))) \/ Removed(PolicyRow(t))

(* The columns that update_policy answered with. *)
Answered(x, r) == Overwritten(r.columns, txn[x].set)

(* A column that a transaction has a reason to write. *)
Asked(x, c) ==
  \/ c = "version"
  \/ \E i \in DOMAIN Steps(x) :
       Steps(x)[i].do \in {"find", "load"} /\ c \in DOMAIN Steps(x)[i].columns

(* What update_policy answered is what is stored, column by column, but    *)
(* for what a transaction that overlapped it or came after it was asked to *)
(* write: its read and its write are apart, and it must not write back a   *)
(* column that it only read.                                               *)
AnsweredUpdatesHold ==
  \A x \in Committed :
    Steps(x)[1].do = "load" =>
      \A q \in txn[x].found, r \in rows :
        SameRow(q, r) => \A c \in DOMAIN r.columns :
          \/ r.columns[c] = Answered(x, q)[c]
          \/ \E y \in Committed \ (txn[x].before \cup {x}) : \E w \in txn[y].changed :
               /\ SameRow(w, r) /\ Asked(y, c) /\ c \in DOMAIN w.columns
               /\ r.columns[c] = w.columns[c]

(* A policy that was deleted does not come back: an update or a seeding    *)
(* that had loaded it before fails.                                        *)
DeletedStaysDeleted ==
  \A x \in Committed : \A q \in txn[x].gone : \A r \in rows : ~SameRow(q, r)

(* What an endpoint of the PAP commits belongs to the tenant of the token, *)
(* whatever the id in the path: Postgres shows it no other tenant's rows.  *)
TenantsApart ==
  [][\A x \in Txn :
       (job[x].scope # Identity /\ Holds(x) /\ txn'[x].state = "committed")
         => \A r \in (rows' \ rows) \cup (rows \ rows') : r.tenant = job[x].scope]_vars

(* Every transaction that begins ends, whoever waits for whom: an error    *)
(* gives up what the others wait for (rollback and close in db.py).  Each  *)
(* begins once, so from some time on none is under way.                    *)
TransactionsEnd == <>[](\A x \in Txn : txn[x].state \notin {"open", "missing"})
=============================================================================
