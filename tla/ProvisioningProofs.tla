------------------------- MODULE ProvisioningProofs -------------------------
(***************************************************************************)
(* What the transactions that fill the tables keep true, for any number of *)
(* transactions, tenants, users and conditions and any jobs beside one     *)
(* another.                                                                *)
(***************************************************************************)
EXTENDS Provisioning, SequenceTheorems, TLAPS

Columns(table) == IF table = "policies" THEN {"condition", "effect", "enabled", "version"} ELSE {}

Shaped(r) == DOMAIN r = {"in", "tenant", "key", "by", "columns"}

Whole(r) == Shaped(r) /\ DOMAIN r.columns = Columns(r.in)

(* The steps that may insert their row. *)
Makes(step) == step.do \in {"find", "any", "insert"}

(* One of the first n steps is for the row. *)
Planned(steps, n, row) ==
  \E i \in 1..n : Makes(steps[i]) /\ SameKey(steps[i].row, row)

----------------------------------------------------------------------------
(* A transaction alone *)

Progress(x) ==
  /\ DOMAIN txn[x] = DOMAIN Fresh
  /\ txn[x].state \in {"idle", "open", "missing", "committed", "failed"}
  /\ txn[x].at \in 1..(Len(Steps(x)) + 1)
  /\ txn[x].before \subseteq Committed
  /\ txn[x].state = "missing" => txn[x].at <= Len(Steps(x)) /\ Makes(Step(x))
  /\ txn[x].state \in {"idle", "failed"} =>
       /\ txn[x].at = 1 /\ txn[x].new = {} /\ txn[x].found = {}
       /\ txn[x].changed = {} /\ txn[x].gone = {} /\ txn[x].set = <<>>

NewRows(x) ==
  /\ \A r \in txn[x].new : Whole(r) /\ r.by = x /\ Planned(Steps(x), txn[x].at - 1, r)
  /\ \A r, q \in txn[x].new : SameKey(r, q) => r = q
  /\ txn[x].state = "missing" => \A r \in txn[x].new : ~SameKey(r, Step(x).row)

(* It loads one policy at a time, a committed one or its own. *)
Loaded(x) ==
  /\ \A p, q \in txn[x].found : p = q
  /\ \A q \in txn[x].found : Whole(q) /\ q.in = "policies" /\ q.by \in Committed \cup {x}
  /\ \A g \in txn[x].gone : g.in = "policies" /\ g.by \in Committed \cup {x}

Wanted(x) ==
  /\ \A c \in DOMAIN txn[x].set : Asked(x, c)
  /\ \A w \in txn[x].changed : Shaped(w) /\ \A c \in DOMAIN w.columns : Asked(x, c)

Apart(x) ==
  job[x].scope # Identity =>
    \A r \in txn[x].new \cup txn[x].found \cup txn[x].changed \cup txn[x].gone :
      r.tenant = job[x].scope

Own(x) == Progress(x) /\ NewRows(x) /\ Loaded(x) /\ Wanted(x) /\ Apart(x)

----------------------------------------------------------------------------
(* Updates *)

Updates(x) == Steps(x)[1].do = "load"

Updated(x) ==
  Updates(x) =>
    /\ txn[x].at = 1 => txn[x].found = {}
    /\ txn[x].at <= 2 => txn[x].changed = {}
    /\ txn[x].at > 2 =>
         /\ \A w \in txn[x].changed : w.columns = txn[x].set
         /\ \A q \in txn[x].found : \E w \in txn[x].changed : SameRow(w, q)

(* A transaction that x does not know to have ended wrote the column. *)
Later(x, r, c) ==
  \E y \in Committed \ (txn[x].before \cup {x}) : \E w \in txn[y].changed :
    /\ SameRow(w, r) /\ Asked(y, c) /\ c \in DOMAIN w.columns
    /\ r.columns[c] = w.columns[c]

(* The column is as x found it, or leaves it. *)
AsKnown(x, q, r, c) ==
  IF txn[x].state = "committed" THEN r.columns[c] = Answered(x, q)[c]
  ELSE r.columns[c] = q.columns[c]

Drift(x) ==
  Updates(x) =>
    \A q \in txn[x].found, r \in rows :
      SameRow(q, r) => \A c \in DOMAIN r.columns : AsKnown(x, q, r, c) \/ Later(x, r, c)

----------------------------------------------------------------------------
(* Seedings *)

Present(row) == \E r \in rows : SameKey(r, row)

(* Only a seeding begins before anything is committed, and the first to    *)
(* commit has inserted all its rows.                                       *)
First(x) ==
  /\ x \notin Seeds /\ txn[x].state # "idle" => Committed # {}
  /\ (x \in Seeds /\ Committed = {} /\ txn[x].state \in {"open", "missing"}) =>
       \A i \in 1..(txn[x].at - 1) :
         Makes(Steps(x)[i]) => \E r \in txn[x].new : SameKey(r, Steps(x)[i].row)

(* Thereafter a seeding inserts what somebody deleted, and nothing else.   *)
Again(x) ==
  (x \in Seeds /\ Committed # {} /\ txn[x].state \in {"open", "missing"}) =>
    /\ \A r \in txn[x].new : Removed(r)
    /\ txn[x].state = "missing" => txn[x].at = 1 \/ Removed(Step(x).row)

Settled ==
  Committed # {} =>
    \A i \in DOMAIN SeedSteps :
      Makes(SeedSteps[i]) => Present(SeedSteps[i].row) \/ Removed(SeedSteps[i].row)

----------------------------------------------------------------------------
(* The tables *)

Table ==
  /\ \A r \in rows :
       /\ Whole(r) /\ r.by \in Committed
       /\ Planned(Steps(r.by), Len(Steps(r.by)), r)
  /\ \A r, q \in rows : SameRow(r, q) => r = q

(* Of a unique key there is one uncommitted row. *)
Exclusive ==
  \A x, y \in Txn \ Committed : \A r \in txn[x].new, q \in txn[y].new :
    r.in \in Unique /\ SameKey(r, q) => x = y

Base == job \in Jobs /\ DOMAIN txn = Txn /\ \A x \in Txn : Own(x)

IInv ==
  /\ Base /\ Table /\ Exclusive /\ Settled /\ SeededOnce /\ DeletedStaysDeleted
  /\ \A x \in Txn : Updated(x) /\ Drift(x) /\ First(x) /\ Again(x)

----------------------------------------------------------------------------
(* Jobs *)

(* What holds of each step, whatever the job. *)
Regular(step) ==
  /\ Makes(step) => step.row.tenant \in Tenant \cup {Global}
  /\ step.do = "find" => DOMAIN step.columns = {} \/ step.row.in = "policies"
  /\ step.do \in {"load", "delete"} =>
       step.row.in = "policies" /\ step.row.tenant \in Tenant
  /\ Makes(step) /\ step.row.in = "role_permissions" =>
       \E t \in {Acme, Globex} : step.row = GrantRow(t)

(* What holds of the steps of a job. *)
Sound(j) ==
  /\ Len(j.steps) \in Nat \ {0} /\ DOMAIN j.steps = 1..Len(j.steps)
  /\ \A i \in DOMAIN j.steps :
       /\ Regular(j.steps[i])
       /\ j.scope # Identity /\ Makes(j.steps[i]) => j.steps[i].row.tenant = j.scope
       /\ j.steps[i].do = "insert" =>
            \A k \in 1..(i - 1) :
              Makes(j.steps[k]) => ~SameKey(j.steps[k].row, j.steps[i].row)
  /\ j.steps[1].do = "load" =>
       Len(j.steps) = 2 /\ j.steps[2].do = "flush"

LEMMA JoinedLength ==
  ASSUME NEW S, NEW s \in Seq(S), NEW t \in Seq(S)
  PROVE  s \o t \in Seq(S) /\ Len(s \o t) = Len(s) + Len(t)
  OBVIOUS

LEMMA JoinedLeft ==
  ASSUME NEW S, NEW s \in Seq(S), NEW t \in Seq(S), NEW i \in 1..Len(s)
  PROVE  (s \o t)[i] = s[i]
  OBVIOUS

LEMMA JoinedRight ==
  ASSUME NEW S, NEW s \in Seq(S), NEW t \in Seq(S), NEW i \in (Len(s) + 1)..(Len(s) + Len(t))
  PROVE  (s \o t)[i] = t[i - Len(s)]
  OBVIOUS

(* The steps of the seeding, one after the other. *)
AllSeedSteps ==
  {Find(PermissionRow), Find(UserRow(Admin)),
   Find(TenantRow(Acme)), Find(TenantRow(Globex)), Find(UnitRow(Acme)), Find(UnitRow(Globex)),
   Find(RoleRow(Acme)), Find(GrantRow(Acme)),
   Seeded(PolicyRow(Acme), SeededColumns), Flush,
   Find(RoleRow(Globex)), Find(GrantRow(Globex)),
   Seeded(PolicyRow(Globex), SeededColumns),
   Find(UserRow(Person)), Find(MemberRow(Acme, Person)), Find(AssignedRow(Acme, Person)),
   FindAny(ExpenseRow(Acme))}

LEMMA SeedStepsFacts ==
  /\ SeedSteps \in Seq(AllSeedSteps) /\ Len(SeedSteps) = 18
  /\ SeedSteps[1] = Find(PermissionRow)
  /\ SeedSteps[9] = Seeded(PolicyRow(Acme), SeededColumns)
  /\ SeedSteps[13] = Seeded(PolicyRow(Globex), SeededColumns)
<1> DEFINE S == AllSeedSteps
           s2 == SeedCatalog \o SeedTenants
           s3 == s2 \o SeedRbac(Acme)
           s4 == s3 \o SeedRbac(Globex)
<1>1. /\ SeedCatalog \in Seq(S) /\ Len(SeedCatalog) = 2
      /\ SeedCatalog[1] = Find(PermissionRow)
  BY DEF SeedCatalog, AllSeedSteps
<1>2. SeedTenants \in Seq(S) /\ Len(SeedTenants) = 4
  BY DEF SeedTenants, AllSeedSteps
<1>3. /\ SeedRbac(Acme) \in Seq(S) /\ SeedRbac(Globex) \in Seq(S)
      /\ Len(SeedRbac(Acme)) = 4 /\ Len(SeedRbac(Globex)) = 4
      /\ SeedRbac(Acme)[3] = Seeded(PolicyRow(Acme), SeededColumns)
      /\ SeedRbac(Globex)[3] = Seeded(PolicyRow(Globex), SeededColumns)
  BY DEF SeedRbac, AllSeedSteps
<1>4. SeedPeople \in Seq(S) /\ Len(SeedPeople) = 4
  BY DEF SeedPeople, AllSeedSteps
<1> HIDE DEF S
<1>5. s2 \in Seq(S) /\ Len(s2) = 6 /\ s2[1] = Find(PermissionRow)
  <2>1. s2 \in Seq(S) /\ Len(s2) = Len(SeedCatalog) + Len(SeedTenants)
    BY <1>1, <1>2, JoinedLength
  <2>2. s2[1] = SeedCatalog[1]
    <3>1. 1 \in 1..Len(SeedCatalog)
      BY <1>1
    <3>2. QED
      BY <1>1, <1>2, <3>1, JoinedLeft
  <2>3. QED
    BY <2>1, <2>2, <1>1, <1>2
<1> HIDE DEF s2
<1>6. /\ s3 \in Seq(S) /\ Len(s3) = 10 /\ s3[1] = Find(PermissionRow)
      /\ s3[9] = Seeded(PolicyRow(Acme), SeededColumns)
  <2>1. s3 \in Seq(S) /\ Len(s3) = Len(s2) + Len(SeedRbac(Acme))
    BY <1>5, <1>3, JoinedLength
  <2>2. s3[1] = s2[1]
    BY <1>5, <1>3, JoinedLeft
  <2>3. s3[9] = SeedRbac(Acme)[9 - Len(s2)]
    <3>1. 9 \in (Len(s2) + 1)..(Len(s2) + Len(SeedRbac(Acme)))
      BY <1>5, <1>3
    <3>2. QED
      BY <1>5, <1>3, <3>1, JoinedRight
  <2>4. QED
    BY <2>1, <2>2, <2>3, <1>5, <1>3
<1> HIDE DEF s3
<1>7. /\ s4 \in Seq(S) /\ Len(s4) = 14 /\ s4[1] = Find(PermissionRow)
      /\ s4[9] = Seeded(PolicyRow(Acme), SeededColumns)
      /\ s4[13] = Seeded(PolicyRow(Globex), SeededColumns)
  <2>1. s4 \in Seq(S) /\ Len(s4) = Len(s3) + Len(SeedRbac(Globex))
    BY <1>6, <1>3, JoinedLength
  <2>2. 1 \in 1..Len(s3) /\ 9 \in 1..Len(s3)
    BY <1>6, <1>3
  <2>3. s4[1] = s3[1] /\ s4[9] = s3[9]
    <3>1. s3 \in Seq(S) /\ SeedRbac(Globex) \in Seq(S)
      BY <1>6, <1>3
    <3>2. \A i \in 1..Len(s3) : s4[i] = s3[i]
      BY <3>1, JoinedLeft
    <3>3. QED
      BY <2>2, <3>2
  <2>4. s4[13] = SeedRbac(Globex)[13 - Len(s3)]
    <3>1. 13 \in (Len(s3) + 1)..(Len(s3) + Len(SeedRbac(Globex)))
      BY <1>6, <1>3
    <3>2. QED
      BY <1>6, <1>3, <3>1, JoinedRight
  <2>5. QED
    BY <2>1, <2>3, <2>4, <1>6, <1>3
<1> HIDE DEF s4
<1>8. SeedSteps = s4 \o SeedPeople
  BY DEF SeedSteps, s4, s3, s2
<1>9. SeedSteps \in Seq(S) /\ Len(SeedSteps) = Len(s4) + Len(SeedPeople)
  BY <1>7, <1>4, <1>8, JoinedLength
<1>10. 1 \in 1..Len(s4) /\ 9 \in 1..Len(s4) /\ 13 \in 1..Len(s4)
  BY <1>7
<1>11. SeedSteps[1] = s4[1] /\ SeedSteps[9] = s4[9] /\ SeedSteps[13] = s4[13]
  <2>1. s4 \in Seq(S) /\ SeedPeople \in Seq(S)
    BY <1>7, <1>4
  <2>2. \A i \in 1..Len(s4) : (s4 \o SeedPeople)[i] = s4[i]
    BY <2>1, JoinedLeft
  <2>3. QED
    BY <1>8, <1>10, <2>2
<1>12. QED
  BY <1>9, <1>11, <1>7, <1>4 DEF S

LEMMA SeedingSound == Sound(Seeding)
<1>1. \A s \in AllSeedSteps : Regular(s) /\ s.do \in {"find", "any", "flush"}
  BY ProvisioningAssumption
  DEF AllSeedSteps, Regular, Makes, Find, FindAny, Seeded, Flush, PermissionRow, UserRow,
      TenantRow, UnitRow, RoleRow, GrantRow, PolicyRow, MemberRow, AssignedRow, ExpenseRow,
      Row, NoColumns
<1>2. DOMAIN SeedSteps = 1..Len(SeedSteps) /\ Len(SeedSteps) = 18
  BY SeedStepsFacts
<1>3. \A i \in DOMAIN SeedSteps : SeedSteps[i] \in AllSeedSteps
  BY SeedStepsFacts, <1>2, ElementOfSeq
<1>4. \A i \in DOMAIN SeedSteps : Regular(SeedSteps[i]) /\ SeedSteps[i].do # "insert"
  BY <1>1, <1>3
<1>5. SeedSteps[1].do # "load"
  BY <1>1, <1>2, <1>3
<1>6. Seeding.steps = SeedSteps /\ Seeding.scope = Identity
  BY DEF Seeding
<1>7. Len(Seeding.steps) \in Nat \ {0} /\ DOMAIN Seeding.steps = 1..Len(Seeding.steps)
  <2>1. Len(SeedSteps) \in Nat \ {0} /\ DOMAIN SeedSteps = 1..Len(SeedSteps)
    BY <1>2
  <2>2. QED
    BY <2>1, <1>6
<1>8. ASSUME NEW i \in DOMAIN Seeding.steps
      PROVE  Regular(Seeding.steps[i]) /\ Seeding.steps[i].do # "insert"
  BY <1>4, <1>6
<1>9. Seeding.steps[1].do # "load"
  BY <1>5, <1>6
<1> HIDE DEF Seeding
<1>10. QED
  BY <1>6, <1>7, <1>8, <1>9 DEF Sound

LEMMA CreateUserSound == ASSUME NEW t \in Tenant, NEW u \in User PROVE Sound(CreateUser(t, u))
<1> DEFINE check == Refuse(UserRow(u))
           insert == Insert(UserRow(u), NoColumns)
<1>1. /\ CreateUser(t, u).scope = Identity
      /\ CreateUser(t, u).steps = <<check, insert>>
  BY DEF CreateUser
<1>2. check.do = "refuse" /\ ~Makes(check) /\ insert.do = "insert"
  BY DEF Refuse, Insert, Makes
<1>3. Regular(check) /\ Regular(insert)
  BY ProvisioningAssumption DEF Regular, Makes, Refuse, Insert, UserRow, Row
<1> HIDE DEF check, insert
<1>4. QED
  BY <1>1, <1>2, <1>3 DEF Sound

LEMMA CreateTenantSound ==
  ASSUME NEW t \in Tenant, NEW name \in Tenant PROVE Sound(CreateTenant(t, name))
  BY ProvisioningAssumption
  DEF Sound, CreateTenant, Regular, Makes, Insert, TenantRow, Row, SameKey

LEMMA CreateOrgUnitSound == ASSUME NEW t \in Tenant PROVE Sound(CreateOrgUnit(t))
  BY ProvisioningAssumption
  DEF Sound, CreateOrgUnit, Regular, Makes, Insert, UnitRow, Row, SameKey

LEMMA AddMemberSound == ASSUME NEW t \in Tenant, NEW u \in User PROVE Sound(AddMember(t, u))
<1> DEFINE s1 == Require(TenantRow(t))
           s2 == Require(UserRow(u))
           s3 == Refuse(MemberRow(t, u))
           s4 == Insert(MemberRow(t, u), NoColumns)
           s5 == Insert(AuditRow(t, u), NoColumns)
<1>1. /\ AddMember(t, u).scope = Identity
      /\ AddMember(t, u).steps = <<s1, s2, s3, s4, s5>>
  BY DEF AddMember
<1>2. /\ s1.do = "require" /\ s2.do = "require" /\ s3.do = "refuse"
      /\ s4.do = "insert" /\ s5.do = "insert"
      /\ ~Makes(s1) /\ ~Makes(s2) /\ ~Makes(s3)
  BY DEF Require, Refuse, Insert, Makes
<1>3. Regular(s1) /\ Regular(s2) /\ Regular(s3)
  BY <1>2 DEF Regular
<1>4. Regular(s4) /\ Regular(s5)
  BY ProvisioningAssumption DEF Regular, Makes, Insert, MemberRow, AuditRow, Row
<1>5. ~SameKey(s4.row, s5.row)
  BY DEF Insert, MemberRow, AuditRow, Row, SameKey
<1> HIDE DEF s1, s2, s3, s4, s5
<1>6. QED
  BY <1>1, <1>2, <1>3, <1>4, <1>5 DEF Sound

LEMMA AssignRoleSound == ASSUME NEW t \in Tenant, NEW u \in User PROVE Sound(AssignRole(t, u))
  BY ProvisioningAssumption
  DEF Sound, AssignRole, Regular, Makes, Require, Find, Insert, MemberRow, RoleRow,
      AssignedRow, AuditRow, Row, SameKey, NoColumns

LEMMA CreatePermissionSound == ASSUME NEW t \in Tenant PROVE Sound(CreatePermission(t))
  BY ProvisioningAssumption
  DEF Sound, CreatePermission, Regular, Makes, Find, PermissionRow, Row, SameKey, NoColumns

LEMMA CreatePolicySound == ASSUME NEW t \in Tenant PROVE Sound(CreatePolicy(t))
  BY ProvisioningAssumption
  DEF Sound, CreatePolicy, Regular, Makes, Require, Insert, PermissionRow, PolicyRow, Row,
      SameKey

LEMMA UpdatePolicySound ==
  ASSUME NEW t \in Tenant, NEW of \in Tenant, NEW columns \in Edit
  PROVE  Sound(UpdatePolicy(t, of, columns))
  BY ProvisioningAssumption
  DEF Sound, UpdatePolicy, Regular, Makes, Load, Flush, PolicyRow, Row, SameKey

LEMMA DeletePolicySound ==
  ASSUME NEW t \in Tenant, NEW of \in Tenant PROVE Sound(DeletePolicy(t, of))
  BY ProvisioningAssumption
  DEF Sound, DeletePolicy, Regular, Makes, Delete, Remove, PolicyRow, Row, SameKey

LEMMA JobSound == ASSUME NEW j \in Job PROVE Sound(j)
  BY SeedingSound, CreateUserSound, CreateTenantSound, CreateOrgUnitSound, AddMemberSound,
     AssignRoleSound, CreatePermissionSound, CreatePolicySound, UpdatePolicySound,
     DeletePolicySound
  DEF Job

----------------------------------------------------------------------------
(* What a step changes *)

(* x does something that is neither an end of its transaction in a commit  *)
(* nor seen by anybody.                                                    *)
Moves(x) ==
  /\ rows' = rows /\ job' = job /\ DOMAIN txn' = Txn
  /\ \A y \in Txn \ {x} : txn'[y] = txn[y]
  /\ DOMAIN txn'[x] = DOMAIN Fresh
  /\ txn[x].state # "committed" /\ txn'[x].state # "committed"

SameWrites(x) ==
  /\ txn'[x].new = txn[x].new /\ txn'[x].changed = txn[x].changed
  /\ txn'[x].gone = txn[x].gone

SameLoads(x) == txn'[x].found = txn[x].found /\ txn'[x].set = txn[x].set

(* A rollback. *)
Fails(x) ==
  RolledBack(x) /\ txn[x].state \in {"open", "missing"} /\ UNCHANGED <<rows, job>>

(* A statement that changes nothing. *)
Passes(x) ==
  /\ Proceed(x) /\ txn[x].state = "open" /\ UNCHANGED <<rows, job>>
  /\ txn[x].at <= Len(Steps(x))
  /\ \/ Step(x).do \in {"refuse", "require", "delete"}
     \/ Step(x).do = "any" /\ Matches(x) # {}

(* A lookup that finds nothing. *)
Misses(x) ==
  /\ Moves(x) /\ SameWrites(x)
  /\ txn[x].state = "open" /\ txn'[x].state = "missing"
  /\ txn'[x].at = txn[x].at /\ txn'[x].before = txn[x].before
  /\ txn'[x].found \in {{}, txn[x].found} /\ txn'[x].set = txn[x].set
  /\ txn[x].at <= Len(Steps(x)) /\ Step(x).do \in {"find", "any"} /\ Matches(x) = {}

(* A lookup, by _get_or_create or session.get, that finds a row. *)
Finds(x) ==
  /\ Moves(x) /\ SameWrites(x)
  /\ txn[x].state = "open" /\ txn'[x].state = "open"
  /\ txn'[x].at = txn[x].at + 1 /\ txn'[x].before = txn[x].before
  /\ txn[x].at <= Len(Steps(x)) /\ Step(x).do \in {"find", "load", "delete"}
  /\ \A c \in DOMAIN txn'[x].set :
       \/ c \in DOMAIN txn[x].set /\ Step(x).do = "delete"
       \/ c = "version" /\ Step(x).do = "load"
       \/ c \in DOMAIN Step(x).columns /\ Step(x).do \in {"find", "load"}
  /\ \E r \in Matches(x) :
       \/ txn'[x].found = {r}
          /\ (Step(x).do = "find" => DOMAIN Step(x).columns # {})
       \/ txn'[x].found = {} /\ Step(x).do = "find"

(* The INSERT of a row. *)
Inserts(x) ==
  /\ Moves(x) /\ SameLoads(x)
  /\ txn[x].state = "missing" \/ Step(x).do = "insert"
  /\ txn[x].state \in {"open", "missing"} /\ txn'[x].state = "open"
  /\ txn'[x].at = txn[x].at + 1 /\ txn'[x].before = txn[x].before
  /\ txn'[x].new = txn[x].new \cup {NewRow(x)}
  /\ txn'[x].changed = txn[x].changed /\ txn'[x].gone = txn[x].gone
  /\ txn[x].at <= Len(Steps(x)) /\ ~Contested(x, Step(x).row) /\ ~Taken(x, Step(x).row)

(* The UPDATE or the DELETE of what was found. *)
Flushes(x) ==
  /\ Moves(x) /\ SameLoads(x) /\ txn'[x].new = txn[x].new
  /\ txn[x].state = "open" /\ txn'[x].state = "open"
  /\ txn'[x].at = txn[x].at + 1 /\ txn'[x].before = txn[x].before
  /\ txn[x].at <= Len(Steps(x))

Updating(x) ==
  /\ Flushes(x) /\ Step(x).do = "flush"
  /\ txn'[x].changed = txn[x].changed \cup Changes(x, There(x))
  /\ txn'[x].gone = txn[x].gone
  /\ There(x) # {} \/ txn[x].found = {}

Removing(x) ==
  /\ Flushes(x) /\ Step(x).do = "remove"
  /\ txn'[x].changed = txn[x].changed /\ txn'[x].gone = There(x)

(* x ends in a commit. *)
Commits(x) ==
  /\ job' = job /\ DOMAIN txn' = Txn
  /\ \A y \in Txn \ {x} : txn'[y] = txn[y]
  /\ DOMAIN txn'[x] = DOMAIN Fresh /\ SameWrites(x) /\ SameLoads(x)
  /\ txn[x].state = "open" /\ txn'[x].state = "committed"
  /\ txn'[x].at = txn[x].at /\ txn'[x].before = txn[x].before
  /\ txn[x].at = Len(Steps(x)) + 1
  /\ rows' = {Written(x, r) : r \in Kept(x)}

LEMMA JobOf ==
  ASSUME Base, NEW x \in Txn
  PROVE  job[x] \in Job /\ Sound(job[x])
  BY ProvisioningAssumption, JobSound DEF Base

LEMMA FailsEffect ==
  ASSUME Base, NEW x \in Txn, Fails(x)
  PROVE  /\ Moves(x)
         /\ txn'[x].state = "failed" /\ txn'[x].at = 1 /\ txn'[x].before = txn[x].before
         /\ txn'[x].new = {} /\ txn'[x].found = {} /\ txn'[x].changed = {}
         /\ txn'[x].gone = {} /\ txn'[x].set = <<>>
  BY DEF Base, Fails, RolledBack, Moves, Fresh

LEMMA BeginEffect ==
  ASSUME Base, NEW x \in Txn, Begin(x)
  PROVE  /\ Moves(x) /\ SameWrites(x) /\ SameLoads(x)
         /\ txn[x].state = "idle" /\ txn'[x].state = "open" /\ txn'[x].at = txn[x].at
         /\ txn'[x].before = Committed
         /\ job[x] = Seeding \/ rows # {}
  BY DEF Base, Begin, Moves, SameWrites, SameLoads, Own, Progress, Fresh, Committed

LEMMA PassesEffect ==
  ASSUME Base, NEW x \in Txn, Passes(x)
  PROVE  /\ Moves(x) /\ SameWrites(x) /\ SameLoads(x)
         /\ txn'[x].state = "open" /\ txn'[x].at = txn[x].at + 1
         /\ txn'[x].before = txn[x].before
  BY DEF Base, Passes, Proceed, Moves, SameWrites, SameLoads, Own, Progress, Fresh

LEMMA LookupEffect ==
  ASSUME Base, NEW x \in Txn, Lookup(x)
  PROVE  Misses(x) \/ Finds(x) \/ Fails(x)
<1> USE DEF Base, Own, Progress, Fresh
<1>1. CASE Matches(x) = {} /\ txn' = [txn EXCEPT ![x].state = "missing", ![x].found = {}]
  BY <1>1 DEF Lookup, Reads, Misses, Moves, SameWrites
<1>2. ASSUME NEW r \in Matches(x), Matches(x) = {r},
             LET stale == {c \in DOMAIN Step(x).columns : r.columns[c] # Step(x).columns[c]}
             IN  txn' = [txn EXCEPT ![x].at = @ + 1,
                                    ![x].found = IF stale = {} THEN {} ELSE {r},
                                    ![x].set = [c \in stale |-> Step(x).columns[c]]]
      PROVE  Finds(x)
  <2> DEFINE stale == {c \in DOMAIN Step(x).columns : r.columns[c] # Step(x).columns[c]}
  <2>1. /\ Moves(x) /\ SameWrites(x)
        /\ txn[x].state = "open" /\ txn'[x].state = "open"
        /\ txn'[x].at = txn[x].at + 1 /\ txn'[x].before = txn[x].before
    <3>1. PICK f, n : txn' = [txn EXCEPT ![x].at = @ + 1, ![x].found = f, ![x].set = n]
      BY <1>2
    <3>2. txn[x].state = "open" /\ UNCHANGED <<rows, job>>
      BY DEF Lookup, Reads
    <3>3. QED
      BY <3>1, <3>2 DEF Moves, SameWrites
  <2>2. /\ txn'[x].found = (IF stale = {} THEN {} ELSE {r})
        /\ txn'[x].set = [c \in stale |-> Step(x).columns[c]]
    BY <1>2
  <2>3. txn[x].at <= Len(Steps(x)) /\ Step(x).do = "find"
    BY DEF Lookup, Reads
  <2>4. DOMAIN txn'[x].set \subseteq DOMAIN Step(x).columns
    BY <2>2
  <2>5. stale # {} => DOMAIN Step(x).columns # {}
    OBVIOUS
  <2> HIDE DEF stale
  <2>6. QED
    BY <2>1, <2>2, <2>3, <2>4, <2>5 DEF Finds
<1>3. QED
  BY <1>1, <1>2 DEF Lookup, Reads, Fails

LEMMA LookupAnyEffect ==
  ASSUME Base, NEW x \in Txn, LookupAny(x)
  PROVE  Misses(x) \/ Passes(x)
  BY DEF Passes, LookupAny, Reads, Misses, Moves, SameWrites, Base, Own, Progress, Fresh

LEMMA CheckEffect ==
  ASSUME Base, NEW x \in Txn, Check(x)
  PROVE  Fails(x) \/ Passes(x)
  BY DEF Check, Reads, Passes, Fails

LEMMA LoadPolicyEffect ==
  ASSUME Base, NEW x \in Txn, LoadPolicy(x)
  PROVE  \/ Finds(x) /\ Step(x).do = "load"
         \/ Fails(x)
<1> USE DEF Base, Own, Progress, Fresh
<1>1. ASSUME NEW r \in Matches(x),
             LET edit == Step(x).columns
                 wanted == [c \in DOMAIN edit \cup {"version"} |->
                              IF c = "version" THEN r.columns.version + 1 ELSE edit[c]]
                 dirty == {c \in DOMAIN wanted : wanted[c] # r.columns[c]}
             IN  txn' = [txn EXCEPT ![x].at = @ + 1, ![x].found = {r},
                                    ![x].set = [c \in dirty |-> wanted[c]]]
      PROVE  Finds(x) /\ Step(x).do = "load"
  <2>1. /\ Moves(x) /\ SameWrites(x)
        /\ txn[x].state = "open" /\ txn'[x].state = "open"
        /\ txn'[x].at = txn[x].at + 1 /\ txn'[x].before = txn[x].before
        /\ txn'[x].found = {r}
    <3>1. PICK n : txn' = [txn EXCEPT ![x].at = @ + 1, ![x].found = {r}, ![x].set = n]
      BY <1>1
    <3>2. txn[x].state = "open" /\ UNCHANGED <<rows, job>>
      BY DEF LoadPolicy, Reads
    <3>3. QED
      BY <3>1, <3>2 DEF Moves, SameWrites
  <2>2. DOMAIN txn'[x].set \subseteq DOMAIN Step(x).columns \cup {"version"}
    BY <1>1
  <2>3. txn[x].at <= Len(Steps(x)) /\ Step(x).do = "load"
    BY DEF LoadPolicy, Reads
  <2>4. QED
    BY <2>1, <2>2, <2>3 DEF Finds
<1>2. QED
  BY <1>1 DEF LoadPolicy, Reads, Fails

LEMMA LoadToDeleteEffect ==
  ASSUME Base, NEW x \in Txn, LoadToDelete(x)
  PROVE  \/ Finds(x) /\ Step(x).do = "delete"
         \/ Passes(x)
<1> USE DEF Base, Own, Progress, Fresh
<1>1. ASSUME NEW r \in Matches(x), txn' = [txn EXCEPT ![x].at = @ + 1, ![x].found = {r}]
      PROVE  Finds(x) /\ Step(x).do = "delete"
  <2>1. /\ Moves(x) /\ SameWrites(x)
        /\ txn[x].state = "open" /\ txn'[x].state = "open"
        /\ txn'[x].at = txn[x].at + 1 /\ txn'[x].before = txn[x].before
        /\ txn'[x].found = {r} /\ txn'[x].set = txn[x].set
    <3>1. txn[x].state = "open" /\ rows' = rows /\ job' = job
      BY DEF LoadToDelete, Reads
    <3>2. /\ DOMAIN txn' = Txn /\ \A y \in Txn \ {x} : txn'[y] = txn[y]
          /\ txn'[x] = [txn[x] EXCEPT !.at = @ + 1, !.found = {r}]
      BY <1>1
    <3>3. QED
      BY <3>1, <3>2 DEF Moves, SameWrites
  <2>2. txn[x].at <= Len(Steps(x)) /\ Step(x).do = "delete"
    BY DEF LoadToDelete, Reads
  <2>3. QED
    BY <2>1, <2>2 DEF Finds
<1>2. QED
  BY <1>1 DEF LoadToDelete, Reads, Passes

LEMMA CreateEffect ==
  ASSUME Base, NEW x \in Txn, Create(x)
  PROVE  Inserts(x) \/ Fails(x)
<1>1. /\ txn[x].at <= Len(Steps(x)) /\ ~Contested(x, Step(x).row)
      /\ txn[x].state \in {"open", "missing"} /\ UNCHANGED <<rows, job>>
      /\ txn[x].state = "missing" \/ Step(x).do = "insert"
  BY DEF Create, Inserting
<1>2. CASE Taken(x, Step(x).row)
  BY <1>1, <1>2 DEF Create, Fails
<1>3. CASE ~Taken(x, Step(x).row)
  <2>1. txn' = [txn EXCEPT ![x].state = "open", ![x].at = @ + 1, ![x].new = @ \cup {NewRow(x)}]
    BY <1>3 DEF Create
  <2>2. QED
    BY <1>1, <1>3, <2>1 DEF Inserts, Moves, SameLoads, Base, Own, Progress, Fresh
<1>4. QED
  BY <1>2, <1>3

LEMMA FlushPolicyEffect ==
  ASSUME Base, NEW x \in Txn, FlushPolicy(x)
  PROVE  Updating(x) \/ Fails(x)
  BY DEF Updating, Fails, FlushPolicy, Reads, Flushes, Moves, SameLoads, Base, Own, Progress, Fresh

LEMMA RemovePolicyEffect ==
  ASSUME Base, NEW x \in Txn, RemovePolicy(x)
  PROVE  Removing(x)
  BY DEF Removing, RemovePolicy, Reads, Flushes, Moves, SameLoads, Base, Own, Progress, Fresh

LEMMA CommitEffect ==
  ASSUME Base, NEW x \in Txn, Commit(x)
  PROVE  Commits(x)
<1>1. Len(Steps(x)) \in Nat /\ txn[x].at \in 1..(Len(Steps(x)) + 1)
  BY JobOf DEF Sound, Steps, Base, Own, Progress
<1>2. txn' = [txn EXCEPT ![x].state = "committed"]
  BY DEF Commit
<1>3. QED
  BY <1>1, <1>2 DEF Commit, Commits, SameWrites, SameLoads, Base, Own, Progress, Fresh

LEMMA AbortEffect ==
  ASSUME Base, NEW x \in Txn, Abort(x)
  PROVE  Fails(x)
  BY DEF Abort, Fails

LEMMA Effects ==
  ASSUME Base, NEW x \in Txn, Begin(x) \/ Run(x) \/ Abort(x)
  PROVE  \/ Begin(x) \/ Passes(x) \/ Misses(x) \/ Finds(x) \/ Inserts(x)
         \/ Updating(x) \/ Removing(x) \/ Commits(x) \/ Fails(x)
  BY LookupEffect, LookupAnyEffect, CheckEffect, CreateEffect, LoadPolicyEffect,
     LoadToDeleteEffect, FlushPolicyEffect, RemovePolicyEffect, CommitEffect, AbortEffect
  DEF Run

----------------------------------------------------------------------------
(* A transaction alone *)

LEMMA MovesCommitted ==
  ASSUME Base, NEW x \in Txn, Moves(x)
  PROVE  Committed' = Committed /\ x \notin Committed
  BY DEF Base, Moves, Committed

LEMMA CommitsCommitted ==
  ASSUME Base, NEW x \in Txn, Commits(x)
  PROVE  Committed' = Committed \cup {x} /\ x \notin Committed
  BY DEF Base, Commits, Committed

LEMMA OwnKept ==
  ASSUME Base, NEW y \in Txn, job' = job, txn'[y] = txn[y], Committed \subseteq Committed'
  PROVE  Own(y)'
<1>1. Own(y)
  BY DEF Base
<1>2. Steps(y)' = Steps(y) /\ Step(y)' = Step(y)
  BY DEF Steps, Step
<1>3. Progress(y)'
  BY <1>1, <1>2 DEF Own, Progress
<1>4. NewRows(y)'
  BY <1>1, <1>2 DEF Own, NewRows
<1>5. Loaded(y)'
  BY <1>1 DEF Own, Loaded
<1>6. \A c : Asked(y, c)' <=> Asked(y, c)
  BY <1>2 DEF Asked
<1>7. Wanted(y)'
  BY <1>1, <1>6 DEF Own, Wanted
<1>8. Apart(y)'
  BY <1>1 DEF Own, Apart
<1>9. QED
  BY <1>3, <1>4, <1>5, <1>7, <1>8 DEF Own

(* What a statement matches. *)
LEMMA MatchOf ==
  ASSUME Base, Table, NEW x \in Txn, txn[x].at <= Len(Steps(x)), NEW r \in Matches(x)
  PROVE  /\ Whole(r) /\ r.by \in Committed \cup {x} /\ SameKey(r, Step(x).row)
         /\ job[x].scope # Identity => r.tenant \in {Global, job[x].scope}
  BY DEF Base, Table, Own, NewRows, Matches, Visible

(* The current step is a step of a job. *)
LEMMA StepOf ==
  ASSUME Base, NEW x \in Txn, txn[x].at <= Len(Steps(x))
  PROVE  /\ Len(Steps(x)) \in Nat /\ txn[x].at \in DOMAIN Steps(x)
         /\ txn[x].at \in 1..Len(Steps(x)) /\ Regular(Step(x))
         /\ job[x].scope # Identity /\ Makes(Step(x)) => Step(x).row.tenant = job[x].scope
         /\ Step(x).do = "insert" =>
              \A k \in 1..(txn[x].at - 1) :
                Makes(Steps(x)[k]) => ~SameKey(Steps(x)[k].row, Step(x).row)
<1>1. txn[x].at \in 1..Len(Steps(x)) /\ DOMAIN Steps(x) = 1..Len(Steps(x))
  BY JobOf DEF Sound, Steps, Base, Own, Progress
<1>2. QED
  BY <1>1, JobOf DEF Sound, Steps, Step

LEMMA ProgressNext ==
  ASSUME Base, NEW x \in Txn,
         \/ Begin(x) \/ Passes(x) \/ Misses(x) \/ Finds(x) \/ Inserts(x)
         \/ Flushes(x) \/ Commits(x) \/ Fails(x)
  PROVE  Progress(x)'
<1>1. /\ Progress(x) /\ Len(Steps(x)) \in Nat \ {0}
      /\ Moves(x) \/ Commits(x) => Steps(x)' = Steps(x)
  BY JobOf DEF Base, Own, Sound, Steps, Moves, Commits
<1>2. Moves(x) => Committed' = Committed
  BY MovesCommitted
<1>3. CASE Begin(x)
  BY <1>1, <1>2, <1>3, BeginEffect DEF Progress, Moves
<1>4. CASE Passes(x)
  BY <1>1, <1>2, <1>4, PassesEffect DEF Progress, Moves, Passes
<1>5. CASE Misses(x)
  BY <1>1, <1>2, <1>5 DEF Progress, Moves, Misses, Makes, Step
<1>6. CASE Finds(x)
  BY <1>1, <1>2, <1>6 DEF Progress, Moves, Finds
<1>7. CASE Inserts(x)
  BY <1>1, <1>2, <1>7 DEF Progress, Moves, Inserts
<1>8. CASE Flushes(x)
  BY <1>1, <1>2, <1>8 DEF Progress, Moves, Flushes
<1>9. CASE Commits(x)
  BY <1>1, <1>9, CommitsCommitted DEF Progress, Commits
<1>10. CASE Fails(x)
  BY <1>1, <1>2, <1>10, FailsEffect DEF Progress, Moves
<1>11. QED
  BY <1>3, <1>4, <1>5, <1>6, <1>7, <1>8, <1>9, <1>10

LEMMA PlannedMore ==
  ASSUME NEW steps, NEW n \in Int, NEW m \in Int, n <= m, NEW row, Planned(steps, n, row)
  PROVE  Planned(steps, m, row)
  BY DEF Planned

LEMMA NewRowOf ==
  ASSUME Base, NEW x \in Txn, Inserts(x)
  PROVE  /\ Whole(NewRow(x)) /\ NewRow(x).by = x /\ SameKey(NewRow(x), Step(x).row)
         /\ Makes(Step(x)) /\ Planned(Steps(x), txn[x].at, NewRow(x))
         /\ \A r \in txn[x].new : ~SameKey(r, NewRow(x))
<1>1. /\ Whole(NewRow(x)) /\ NewRow(x).by = x /\ SameKey(NewRow(x), Step(x).row)
  BY DEF NewRow, Whole, Shaped, Columns, SameKey, FirstColumns, NoColumns
<1>2. Makes(Step(x))
  BY DEF Inserts, Base, Own, Progress, Makes
<1>3. /\ txn[x].at \in 1..txn[x].at
      /\ \A r \in txn[x].new : Planned(Steps(x), txn[x].at - 1, r)
  BY DEF Base, Own, Progress, NewRows
<1>4. Planned(Steps(x), txn[x].at, NewRow(x))
  BY <1>1, <1>2, <1>3 DEF Planned, Step, SameKey
<1>5. \A r \in txn[x].new : ~SameKey(r, Step(x).row)
  <2>1. CASE txn[x].state = "missing"
    BY <2>1 DEF Base, Own, NewRows
  <2>2. CASE Step(x).do = "insert"
    <3>1. \A k \in 1..(txn[x].at - 1) :
            Makes(Steps(x)[k]) => ~SameKey(Steps(x)[k].row, Step(x).row)
      BY <2>2, StepOf DEF Inserts
    <3>2. QED
      BY <1>3, <3>1 DEF Planned, SameKey
  <2>3. QED
    BY <2>1, <2>2 DEF Inserts
<1>6. QED
  BY <1>1, <1>2, <1>4, <1>5 DEF SameKey

LEMMA NewRowsNext ==
  ASSUME Base, NEW x \in Txn,
         \/ Begin(x) \/ Passes(x) \/ Misses(x) \/ Finds(x) \/ Inserts(x)
         \/ Flushes(x) \/ Commits(x) \/ Fails(x)
  PROVE  NewRows(x)'
<1>1. /\ NewRows(x) /\ txn[x].at \in Int
      /\ Moves(x) \/ Commits(x) => Steps(x)' = Steps(x)
  BY DEF Base, Own, Progress, Steps, Moves, Commits
<1>2. ASSUME Moves(x) \/ Commits(x), txn'[x].new = txn[x].new, txn'[x].state # "missing",
             txn'[x].at \in {txn[x].at, txn[x].at + 1}
      PROVE  NewRows(x)'
  <2>1. \A r \in txn[x].new : Planned(Steps(x), txn'[x].at - 1, r)
    BY <1>1, <1>2, PlannedMore DEF NewRows
  <2>2. QED
    BY <1>1, <1>2, <2>1 DEF NewRows
<1>3. CASE Begin(x)
  BY <1>2, <1>3, BeginEffect DEF SameWrites
<1>4. CASE Passes(x)
  BY <1>2, <1>4, PassesEffect DEF SameWrites
<1>5. CASE Finds(x)
  BY <1>2, <1>5 DEF SameWrites, Finds
<1>6. CASE Flushes(x)
  BY <1>2, <1>6 DEF Flushes
<1>7. CASE Commits(x)
  BY <1>2, <1>7 DEF SameWrites, Commits
<1>8. CASE Fails(x)
  BY <1>8, FailsEffect DEF NewRows
<1>9. CASE Misses(x)
  <2>1. ASSUME NEW r \in txn[x].new, SameKey(r, Step(x).row)
        PROVE  FALSE
    <3>1. job[x].scope # Identity => r.tenant = job[x].scope
      BY <1>9, <2>1, StepOf DEF Misses, Makes, SameKey
    <3>2. r \in Matches(x)
      BY <2>1, <3>1 DEF Matches, Visible
    <3>3. QED
      BY <3>2, <1>9 DEF Misses
  <2>2. Step(x)' = Step(x)
    BY <1>9 DEF Misses, Moves, Step, Steps
  <2>3. QED
    BY <1>1, <1>9, <2>1, <2>2 DEF NewRows, Misses, SameWrites
<1>10. CASE Inserts(x)
  <2> DEFINE n == NewRow(x)
  <2>1. /\ Whole(n) /\ n.by = x /\ Planned(Steps(x), txn[x].at, n)
        /\ \A r \in txn[x].new : ~SameKey(r, n)
    BY <1>10, NewRowOf
  <2>2. \A r \in txn[x].new : Planned(Steps(x), txn[x].at, r)
    BY <1>1, PlannedMore DEF NewRows
  <2>3. /\ txn'[x].new = txn[x].new \cup {n} /\ txn'[x].at - 1 = txn[x].at
        /\ txn'[x].state = "open" /\ Steps(x)' = Steps(x)
    BY <1>1, <1>10 DEF Inserts
  <2> HIDE DEF n
  <2>4. \A r, q \in txn'[x].new : SameKey(r, q) => r = q
    BY <1>1, <2>1, <2>3 DEF NewRows, SameKey
  <2>5. \A r \in txn'[x].new : Whole(r) /\ r.by = x /\ Planned(Steps(x)', txn'[x].at - 1, r)
    BY <1>1, <2>1, <2>2, <2>3 DEF NewRows
  <2>6. QED
    BY <2>3, <2>4, <2>5 DEF NewRows
<1>11. QED
  BY <1>3, <1>4, <1>5, <1>6, <1>7, <1>8, <1>9, <1>10

LEMMA LoadedNext ==
  ASSUME Base, Table, NEW x \in Txn,
         \/ Begin(x) \/ Passes(x) \/ Misses(x) \/ Finds(x) \/ Inserts(x)
         \/ Updating(x) \/ Removing(x) \/ Commits(x) \/ Fails(x)
  PROVE  Loaded(x)'
<1>1. /\ Loaded(x) /\ Committed \subseteq Committed'
      /\ Moves(x) => Committed' = Committed
  <2>1. Moves(x) \/ Commits(x)
    BY BeginEffect, PassesEffect, FailsEffect
    DEF Misses, Finds, Inserts, Updating, Removing, Flushes
  <2>2. QED
    BY <2>1, MovesCommitted, CommitsCommitted DEF Base, Own
<1>2. ASSUME txn'[x].found \in {{}, txn[x].found}, txn'[x].gone = txn[x].gone
      PROVE  Loaded(x)'
  BY <1>1, <1>2 DEF Loaded
<1>3. CASE Begin(x)
  BY <1>2, <1>3, BeginEffect DEF SameWrites, SameLoads
<1>4. CASE Passes(x)
  BY <1>2, <1>4, PassesEffect DEF SameWrites, SameLoads
<1>5. CASE Misses(x)
  BY <1>2, <1>5 DEF Misses, SameWrites
<1>6. CASE Inserts(x)
  BY <1>2, <1>6 DEF Inserts, SameLoads
<1>7. CASE Updating(x)
  BY <1>2, <1>7 DEF Updating, Flushes, SameLoads
<1>8. CASE Commits(x)
  BY <1>2, <1>8 DEF Commits, SameLoads, SameWrites
<1>9. CASE Fails(x)
  BY <1>9, FailsEffect DEF Loaded
<1>10. CASE Finds(x)
  <2>1. PICK r \in Matches(x) :
          \/ txn'[x].found = {r} /\ (Step(x).do = "find" => DOMAIN Step(x).columns # {})
          \/ txn'[x].found = {}
    BY <1>10 DEF Finds
  <2>2. Whole(r) /\ r.by \in Committed \cup {x} /\ SameKey(r, Step(x).row)
    BY <1>10, MatchOf DEF Finds
  <2>3. txn'[x].found # {} => r.in = "policies"
    BY <1>10, <2>1, <2>2, StepOf DEF Regular, SameKey, Finds
  <2>4. QED
    BY <1>1, <1>10, <2>1, <2>2, <2>3 DEF Loaded, Finds, SameWrites
<1>11. CASE Removing(x)
  <2>1. txn'[x].found = txn[x].found /\ txn'[x].gone = There(x)
    BY <1>11 DEF Removing, Flushes, SameLoads
  <2>2. \A g \in There(x) : g.in = "policies" /\ g.by \in Committed \cup {x}
    BY <1>1 DEF There, SameRow, SameKey, Loaded
  <2>3. QED
    BY <1>1, <2>1, <2>2 DEF Loaded
<1>12. QED
  BY <1>3, <1>4, <1>5, <1>6, <1>7, <1>8, <1>9, <1>10, <1>11

(* The rows that a statement by id writes. *)
LEMMA ThereOf ==
  ASSUME Base, Table, NEW x \in Txn, NEW r \in There(x)
  PROVE  Whole(r) /\ \E q \in txn[x].found : SameRow(r, q)
  BY DEF Base, Table, Own, NewRows, There

LEMMA ChangesOf ==
  ASSUME Base, Table, NEW x \in Txn, NEW w \in Changes(x, There(x))
  PROVE  /\ Shaped(w) /\ w.columns = txn[x].set
         /\ \E r \in There(x) : SameRow(w, r)
<1>1. PICK r \in There(x) : w = [r EXCEPT !.columns = txn[x].set]
  BY DEF Changes
<1>2. Shaped(r)
  BY ThereOf DEF Whole
<1>3. QED
  BY <1>1, <1>2 DEF Shaped, SameRow, SameKey

LEMMA WantedNext ==
  ASSUME Base, Table, NEW x \in Txn,
         \/ Begin(x) \/ Passes(x) \/ Misses(x) \/ Finds(x) \/ Inserts(x)
         \/ Updating(x) \/ Removing(x) \/ Commits(x) \/ Fails(x)
  PROVE  Wanted(x)'
<1>1. Wanted(x) /\ \A c : Asked(x, c)' <=> Asked(x, c)
  <2>1. Moves(x) \/ Commits(x)
    BY BeginEffect, PassesEffect, FailsEffect
    DEF Misses, Finds, Inserts, Updating, Removing, Flushes
  <2>2. Steps(x)' = Steps(x)
    BY <2>1 DEF Moves, Commits, Steps
  <2>3. QED
    BY <2>2 DEF Asked, Base, Own
<1>2. ASSUME txn'[x].set = txn[x].set, txn'[x].changed = txn[x].changed
      PROVE  Wanted(x)'
  BY <1>1, <1>2 DEF Wanted
<1>3. CASE Begin(x)
  BY <1>2, <1>3, BeginEffect DEF SameWrites, SameLoads
<1>4. CASE Passes(x)
  BY <1>2, <1>4, PassesEffect DEF SameWrites, SameLoads
<1>5. CASE Misses(x)
  BY <1>2, <1>5 DEF Misses, SameWrites
<1>6. CASE Inserts(x)
  BY <1>2, <1>6 DEF Inserts, SameLoads
<1>7. CASE Removing(x)
  BY <1>2, <1>7 DEF Removing, Flushes, SameLoads
<1>8. CASE Commits(x)
  BY <1>2, <1>8 DEF Commits, SameLoads, SameWrites
<1>9. CASE Fails(x)
  BY <1>9, FailsEffect DEF Wanted
<1>10. CASE Finds(x)
  <2>1. ASSUME NEW c \in DOMAIN txn'[x].set
        PROVE  Asked(x, c)
    <3>1. txn[x].at \in DOMAIN Steps(x)
      BY <1>10, StepOf DEF Finds
    <3>2. \/ c \in DOMAIN txn[x].set \/ c = "version"
          \/ Step(x).do \in {"find", "load"} /\ c \in DOMAIN Step(x).columns
      BY <1>10, <2>1 DEF Finds
    <3>3. QED
      BY <1>1, <3>1, <3>2 DEF Asked, Step, Wanted
  <2>2. QED
    BY <1>1, <1>10, <2>1 DEF Wanted, Finds, SameWrites
<1>11. CASE Updating(x)
  <2>1. /\ txn'[x].set = txn[x].set
        /\ txn'[x].changed = txn[x].changed \cup Changes(x, There(x))
    BY <1>11 DEF Updating, Flushes, SameLoads
  <2>2. \A w \in Changes(x, There(x)) : Shaped(w) /\ w.columns = txn[x].set
    BY ChangesOf
  <2>3. QED
    BY <1>1, <2>1, <2>2 DEF Wanted
<1>12. QED
  BY <1>3, <1>4, <1>5, <1>6, <1>7, <1>8, <1>9, <1>10, <1>11

LEMMA ApartNext ==
  ASSUME Base, Table, NEW x \in Txn,
         \/ Begin(x) \/ Passes(x) \/ Misses(x) \/ Finds(x) \/ Inserts(x)
         \/ Updating(x) \/ Removing(x) \/ Commits(x) \/ Fails(x)
  PROVE  Apart(x)'
<1>1. Apart(x) /\ job' = job
  <2>1. Moves(x) \/ Commits(x)
    BY BeginEffect, PassesEffect, FailsEffect
    DEF Misses, Finds, Inserts, Updating, Removing, Flushes
  <2>2. QED
    BY <2>1 DEF Moves, Commits, Base, Own
<1>2. ASSUME txn'[x].found \in {{}, txn[x].found}, SameWrites(x)
      PROVE  Apart(x)'
  BY <1>1, <1>2 DEF Apart, SameWrites
<1>3. CASE Begin(x)
  BY <1>2, <1>3, BeginEffect DEF SameLoads
<1>4. CASE Passes(x)
  BY <1>2, <1>4, PassesEffect DEF SameLoads
<1>5. CASE Misses(x)
  BY <1>2, <1>5 DEF Misses
<1>6. CASE Commits(x)
  BY <1>2, <1>6 DEF Commits, SameLoads
<1>7. CASE Fails(x)
  BY <1>7, FailsEffect DEF Apart
<1>8. CASE Inserts(x)
  <2>1. job[x].scope # Identity => NewRow(x).tenant = job[x].scope
    BY <1>8, NewRowOf, StepOf DEF Inserts, SameKey
  <2>2. QED
    BY <1>1, <1>8, <2>1 DEF Apart, Inserts, SameLoads
<1>9. CASE Finds(x)
  <2>1. PICK r \in Matches(x) : txn'[x].found \in {{}, {r}}
    BY <1>9 DEF Finds
  <2>2. /\ SameKey(r, Step(x).row)
        /\ job[x].scope # Identity => r.tenant \in {Global, job[x].scope}
    BY <1>9, MatchOf DEF Finds
  <2>3. job[x].scope # Identity => r.tenant = job[x].scope
    BY <1>9, <2>2, StepOf, ProvisioningAssumption DEF Finds, Makes, Regular, SameKey
  <2>4. QED
    BY <1>1, <1>9, <2>1, <2>3 DEF Apart, Finds, SameWrites
<1>10. ASSUME job[x].scope # Identity, NEW r \in There(x)
       PROVE  r.tenant = job[x].scope
  BY <1>1, <1>10 DEF Apart, There, SameRow, SameKey
<1>11. CASE Updating(x)
  <2>1. job[x].scope # Identity => \A w \in Changes(x, There(x)) : w.tenant = job[x].scope
    BY <1>10, ChangesOf DEF SameRow, SameKey
  <2>2. QED
    BY <1>1, <1>11, <2>1 DEF Apart, Updating, Flushes, SameLoads
<1>12. CASE Removing(x)
  BY <1>1, <1>10, <1>12 DEF Apart, Removing, Flushes, SameLoads
<1>13. QED
  BY <1>3, <1>4, <1>5, <1>6, <1>7, <1>8, <1>9, <1>11, <1>12

LEMMA OwnNext ==
  ASSUME Base, Table, NEW x \in Txn,
         \/ Begin(x) \/ Passes(x) \/ Misses(x) \/ Finds(x) \/ Inserts(x)
         \/ Updating(x) \/ Removing(x) \/ Commits(x) \/ Fails(x)
  PROVE  Own(x)'
<1>1. Updating(x) \/ Removing(x) => Flushes(x)
  BY DEF Updating, Removing
<1>2. QED
  BY <1>1, ProgressNext, NewRowsNext, LoadedNext, WantedNext, ApartNext DEF Own

LEMMA MovesOrCommits ==
  ASSUME Base, NEW x \in Txn, Begin(x) \/ Run(x) \/ Abort(x)
  PROVE  Moves(x) \/ Commits(x)
  BY Effects, BeginEffect, PassesEffect, FailsEffect
  DEF Misses, Finds, Inserts, Updating, Removing, Flushes

LEMMA BaseNext ==
  ASSUME Base, Table, NEW x \in Txn, Begin(x) \/ Run(x) \/ Abort(x)
  PROVE  Base'
<1>1. /\ job' = job /\ DOMAIN txn' = Txn /\ Committed \subseteq Committed'
      /\ \A y \in Txn \ {x} : txn'[y] = txn[y]
  BY MovesOrCommits, MovesCommitted, CommitsCommitted DEF Moves, Commits
<1>2. Own(x)'
  BY Effects, OwnNext
<1>3. \A y \in Txn \ {x} : Own(y)'
  BY <1>1, OwnKept
<1>4. QED
  BY <1>1, <1>2, <1>3 DEF Base

----------------------------------------------------------------------------
(* The tables *)

(* A row after the commit: the same row, with some columns written. *)
LEMMA WrittenOf ==
  ASSUME NEW x, NEW r, Whole(r)
  PROVE  /\ Whole(Written(x, r)) /\ SameRow(Written(x, r), r)
         /\ \/ Written(x, r) = r /\ Writes(x, r) = {}
            \/ \E w \in Writes(x, r) : Written(x, r).columns = Overwritten(r.columns, w.columns)
<1>1. CASE Writes(x, r) = {}
  BY <1>1 DEF Written, SameRow, SameKey
<1>2. CASE Writes(x, r) # {}
  <2> DEFINE w == CHOOSE w \in Writes(x, r) : TRUE
  <2>1. w \in Writes(x, r)
    BY <1>2
  <2>2. Written(x, r) = [r EXCEPT !.columns = Overwritten(r.columns, w.columns)]
    BY <1>2 DEF Written
  <2>3. DOMAIN Overwritten(r.columns, w.columns) = DOMAIN r.columns
    BY DEF Overwritten
  <2> HIDE DEF w
  <2>4. /\ DOMAIN Written(x, r) = DOMAIN r
        /\ Written(x, r).columns = Overwritten(r.columns, w.columns)
        /\ Written(x, r).in = r.in /\ Written(x, r).tenant = r.tenant
        /\ Written(x, r).key = r.key /\ Written(x, r).by = r.by
    BY <2>2 DEF Whole, Shaped
  <2>5. QED
    BY <2>1, <2>3, <2>4 DEF Whole, Shaped, SameRow, SameKey
<1>3. QED
  BY <1>1, <1>2

(* Where the rows come from that a commit leaves. *)
LEMMA CommittedRow ==
  ASSUME Base, Table, NEW x \in Txn, Commits(x), NEW s \in rows'
  PROVE  \E r \in Kept(x) : s = Written(x, r) /\ Whole(r) /\ Whole(s) /\ SameRow(s, r)
<1>1. PICK r \in Kept(x) : s = Written(x, r)
  BY DEF Commits
<1>2. Whole(r)
  BY <1>1 DEF Kept, Base, Table, Own, NewRows
<1>3. QED
  BY <1>1, <1>2, WrittenOf

LEMMA KeptRow ==
  ASSUME Base, NEW x \in Txn, Commits(x), NEW r \in Kept(x), Whole(r)
  PROVE  \E s \in rows' : s = Written(x, r) /\ SameRow(s, r)
  BY WrittenOf DEF Commits

LEMMA TableNext ==
  ASSUME Base, Table, NEW x \in Txn, Moves(x) \/ Commits(x)
  PROVE  Table'
<1>1. CASE Moves(x)
  <2>1. rows' = rows /\ Committed' = Committed /\ job' = job
    BY <1>1, MovesCommitted DEF Moves
  <2>2. QED
    BY <2>1 DEF Table, Steps
<1>2. CASE Commits(x)
  <2>1. Committed' = Committed \cup {x} /\ x \notin Committed /\ job' = job
    BY <1>2, CommitsCommitted DEF Commits
  <2>2. ASSUME NEW r \in Kept(x)
        PROVE  r.by \in Committed \cup {x} /\ Planned(Steps(r.by), Len(Steps(r.by)), r)
    <3>1. CASE r \in rows
      BY <3>1 DEF Table
    <3>2. CASE r \in txn[x].new
      BY <3>2, <1>2 DEF Base, Own, Progress, NewRows, Commits
    <3>3. QED
      BY <2>2, <3>1, <3>2 DEF Kept
  <2>3. ASSUME NEW s \in rows'
        PROVE  Whole(s) /\ s.by \in Committed' /\ Planned(Steps(s.by), Len(Steps(s.by)), s)
    <3>1. PICK r \in Kept(x) : Whole(s) /\ SameRow(s, r)
      BY <1>2, CommittedRow
    <3>2. r.by \in Committed \cup {x} /\ Planned(Steps(r.by), Len(Steps(r.by)), r)
      BY <2>2
    <3>3. QED
      BY <2>1, <3>1, <3>2 DEF SameRow, SameKey, Planned
  <2>4. ASSUME NEW r \in Kept(x), NEW q \in Kept(x), SameRow(r, q)
        PROVE  r = q
    <3>1. /\ \A p \in rows : p.by \in Committed
          /\ \A p \in txn[x].new : p.by = x
      BY DEF Table, Base, Own, NewRows
    <3>2. \/ r \in rows /\ q \in rows
          \/ r \in txn[x].new /\ q \in txn[x].new
      BY <2>1, <2>4, <3>1 DEF Kept, SameRow
    <3>3. QED
      BY <2>4, <3>2 DEF Table, Base, Own, NewRows, SameRow
  <2>5. ASSUME NEW s \in rows', NEW p \in rows', SameRow(s, p)
        PROVE  s = p
    <3>1. PICK r \in Kept(x) : s = Written(x, r) /\ SameRow(s, r)
      BY <1>2, CommittedRow
    <3>2. PICK q \in Kept(x) : p = Written(x, q) /\ SameRow(p, q)
      BY <1>2, CommittedRow
    <3>3. r = q
      BY <2>4, <2>5, <3>1, <3>2 DEF SameRow, SameKey
    <3>4. QED
      BY <3>1, <3>2, <3>3
  <2>6. \A y : Steps(y)' = Steps(y)
    BY <2>1 DEF Steps
  <2>7. QED
    BY <2>3, <2>5, <2>6 DEF Table
<1>3. QED
  BY <1>1, <1>2

LEMMA DeletedNext ==
  ASSUME Base, Table, DeletedStaysDeleted, NEW x \in Txn, Moves(x) \/ Commits(x)
  PROVE  DeletedStaysDeleted'
<1>1. CASE Moves(x)
  <2>1. Committed' = Committed /\ x \notin Committed /\ Committed \subseteq Txn
    BY <1>1, MovesCommitted DEF Committed
  <2>2. QED
    BY <1>1, <2>1 DEF DeletedStaysDeleted, Moves
<1>2. CASE Commits(x)
  <2>1. Committed' = Committed \cup {x} /\ x \notin Committed
    BY <1>2, CommitsCommitted
  <2>2. ASSUME NEW y \in Committed', NEW g \in txn'[y].gone, NEW s \in rows', SameRow(g, s)
        PROVE  FALSE
    <3>1. PICK r \in Kept(x) : SameRow(s, r)
      BY <1>2, CommittedRow
    <3>2. SameRow(g, r)
      BY <2>2, <3>1 DEF SameRow, SameKey
    <3>3. txn'[y].gone = txn[y].gone /\ y \in Txn
      BY <1>2, <2>1 DEF Commits, SameWrites, Committed
    <3>4. CASE y = x
      BY <2>2, <3>1, <3>2, <3>3, <3>4 DEF Kept
    <3>5. CASE y # x
      <4>1. y \in Committed /\ g \in txn[y].gone
        BY <2>1, <2>2, <3>3, <3>5
      <4>2. r \notin rows
        BY <3>2, <4>1 DEF DeletedStaysDeleted
      <4>3. r.by = x
        BY <3>1, <4>2 DEF Kept, Base, Own, NewRows
      <4>4. g.by \in Committed
        BY <4>1 DEF Base, Own, Loaded, Committed
      <4>5. QED
        BY <2>1, <3>2, <4>3, <4>4 DEF SameRow
    <3>6. QED
      BY <3>4, <3>5
  <2>3. QED
    BY <2>2 DEF DeletedStaysDeleted
<1>3. QED
  BY <1>1, <1>2

LEMMA ExclusiveNext ==
  ASSUME Base, Exclusive, NEW x \in Txn, Begin(x) \/ Run(x) \/ Abort(x)
  PROVE  Exclusive'
<1>1. \A y \in Txn \ {x} : txn'[y] = txn[y]
  BY MovesOrCommits DEF Moves, Commits
<1>2. ASSUME txn'[x].new \in {{}, txn[x].new}, Committed \subseteq Committed'
      PROVE  Exclusive'
  BY <1>1, <1>2 DEF Exclusive
<1>3. CASE Inserts(x)
  <2>1. /\ Committed' = Committed /\ x \notin Committed
        /\ txn'[x].new = txn[x].new \cup {NewRow(x)}
    BY <1>3, MovesCommitted DEF Inserts
  <2>2. ASSUME NEW y \in Txn \ Committed, y # x, NEW q \in txn[y].new,
               NewRow(x).in \in Unique, SameKey(NewRow(x), q)
        PROVE  FALSE
    <3>1. SameKey(NewRow(x), Step(x).row) /\ ~Contested(x, Step(x).row)
      BY <1>3, NewRowOf DEF Inserts
    <3>2. QED
      BY <2>2, <3>1 DEF Contested, Holds, SameKey, Committed
  <2>3. QED
    BY <1>1, <2>1, <2>2 DEF Exclusive, SameKey
<1>4. CASE ~Inserts(x)
  <2>1. txn'[x].new \in {{}, txn[x].new}
    BY <1>4, Effects, BeginEffect, PassesEffect, FailsEffect
    DEF Misses, Finds, Updating, Removing, Flushes, Commits, SameWrites
  <2>2. Committed \subseteq Committed'
    BY MovesOrCommits, MovesCommitted, CommitsCommitted
  <2>3. QED
    BY <1>2, <2>1, <2>2
<1>5. QED
  BY <1>3, <1>4

----------------------------------------------------------------------------
(* Updates *)

LEMMA UpdatedNext ==
  ASSUME Base, Table, NEW x \in Txn, Updated(x),
         \/ Begin(x) \/ Passes(x) \/ Misses(x) \/ Finds(x) \/ Inserts(x)
         \/ Updating(x) \/ Removing(x) \/ Commits(x) \/ Fails(x)
  PROVE  Updated(x)'
<1>1. Steps(x)' = Steps(x)
  BY BeginEffect, PassesEffect, FailsEffect
  DEF Misses, Finds, Inserts, Updating, Removing, Flushes, Moves, Commits, Steps
<1> SUFFICES ASSUME Updates(x)
             PROVE  /\ txn'[x].at = 1 => txn'[x].found = {}
                    /\ txn'[x].at <= 2 => txn'[x].changed = {}
                    /\ txn'[x].at > 2 =>
                         /\ \A w \in txn'[x].changed : w.columns = txn'[x].set
                         /\ \A q \in txn'[x].found : \E w \in txn'[x].changed : SameRow(w, q)
  BY <1>1 DEF Updated, Updates
<1>2. /\ txn[x].at = 1 => txn[x].found = {}
      /\ txn[x].at <= 2 => txn[x].changed = {}
      /\ txn[x].at > 2 =>
           /\ \A w \in txn[x].changed : w.columns = txn[x].set
           /\ \A q \in txn[x].found : \E w \in txn[x].changed : SameRow(w, q)
  BY DEF Updated
<1>3. /\ Steps(x)[1].do = "load" /\ Steps(x)[2].do = "flush" /\ Len(Steps(x)) = 2
      /\ txn[x].at \in 1..3
  <2>1. Steps(x)[1].do = "load" /\ txn[x].at \in 1..(Len(Steps(x)) + 1)
    BY DEF Updates, Base, Own, Progress
  <2>2. Len(Steps(x)) = 2 /\ Steps(x)[2].do = "flush"
    BY <2>1, JobOf DEF Sound, Steps
  <2>3. QED
    BY <2>1, <2>2
<1>4. CASE Begin(x)
  BY <1>2, <1>4, BeginEffect DEF SameWrites, SameLoads
<1>5. CASE Commits(x)
  BY <1>2, <1>5 DEF Commits, SameWrites, SameLoads
<1>6. CASE Fails(x)
  BY <1>6, FailsEffect
<1>7. CASE Finds(x)
  <2>1. /\ txn'[x].at = txn[x].at + 1 /\ txn[x].at <= Len(Steps(x))
        /\ Steps(x)[txn[x].at].do \in {"find", "load", "delete"}
    BY <1>7 DEF Finds, Step
  <2>2. txn'[x].changed = txn[x].changed
    BY <1>7 DEF Finds, SameWrites
  <2>3. txn[x].at = 1 /\ txn'[x].at = 2
    BY <1>3, <2>1
  <2>4. QED
    BY <1>2, <2>2, <2>3
<1>8. CASE Updating(x)
  <2>1. /\ txn[x].at = 2 /\ txn'[x].at = 3
        /\ txn'[x].found = txn[x].found /\ txn'[x].set = txn[x].set
        /\ txn'[x].changed = txn[x].changed \cup Changes(x, There(x))
        /\ There(x) # {} \/ txn[x].found = {}
    <3>1. txn[x].at <= Len(Steps(x)) /\ Steps(x)[txn[x].at].do = "flush"
      BY <1>8 DEF Updating, Flushes, Step
    <3>2. txn[x].at = 2
      BY <1>3, <3>1
    <3>3. QED
      BY <1>8, <3>2 DEF Updating, Flushes, SameLoads
  <2>2. \A w \in Changes(x, There(x)) : w.columns = txn[x].set
    BY ChangesOf
  <2>3. ASSUME NEW q \in txn[x].found
        PROVE  \E w \in Changes(x, There(x)) : SameRow(w, q)
    <3>1. PICK r \in There(x) : SameRow(r, q)
      BY <2>1, ThereOf DEF Base, Own, Loaded
    <3>2. PICK w \in Changes(x, There(x)) : w = [r EXCEPT !.columns = txn[x].set]
      BY DEF Changes
    <3>3. SameRow(w, r)
      BY <3>2, ThereOf DEF Whole, Shaped, SameRow, SameKey
    <3>4. QED
      BY <3>1, <3>2, <3>3 DEF SameRow, SameKey
  <2>4. QED
    BY <1>2, <2>1, <2>2, <2>3
<1>9. CASE Passes(x) \/ Misses(x) \/ Inserts(x) \/ Removing(x)
  <2>1. txn[x].at <= Len(Steps(x))
    BY <1>9 DEF Passes, Misses, Inserts, Removing, Flushes
  <2>2. Step(x).do \in {"load", "flush"}
    BY <1>3, <2>1 DEF Step
  <2>3. txn[x].state # "missing"
    BY <2>2 DEF Base, Own, Progress, Makes
  <2>4. /\ ~Passes(x) /\ ~Misses(x) /\ ~Inserts(x)
    BY <2>2, <2>3 DEF Passes, Misses, Inserts
  <2>5. ~Removing(x)
    BY <2>2 DEF Removing
  <2>6. QED
    BY <1>9, <2>4, <2>5
<1>10. QED
  BY <1>4, <1>5, <1>6, <1>7, <1>8, <1>9

LEMMA UpdateInsertsNothing ==
  ASSUME Base, NEW x \in Txn, Updates(x)
  PROVE  txn[x].new = {} /\ Len(Steps(x)) = 2
<1>1. Len(Steps(x)) = 2 /\ Steps(x)[1].do = "load" /\ Steps(x)[2].do = "flush"
  BY JobOf DEF Updates, Sound, Steps
<1>2. txn[x].at \in 1..3
  <2>1. txn[x].at \in 1..(Len(Steps(x)) + 1)
    BY DEF Base, Own, Progress
  <2>2. QED
    BY <1>1, <2>1
<1>3. \A r : ~Planned(Steps(x), txn[x].at - 1, r)
  BY <1>1, <1>2 DEF Planned, Makes
<1>4. QED
  BY <1>1, <1>3 DEF Base, Own, NewRows

(* A column of a row that a commit leaves. *)
LEMMA ColumnOf ==
  ASSUME NEW x, NEW r, Whole(r), NEW c \in DOMAIN Written(x, r).columns
  PROVE  /\ c \in DOMAIN r.columns
         /\ \/ Written(x, r).columns[c] = r.columns[c]
            \/ \E w \in txn[x].changed :
                 /\ SameRow(w, r) /\ c \in DOMAIN w.columns
                 /\ Written(x, r).columns[c] = w.columns[c]
<1>1. /\ Whole(Written(x, r)) /\ SameRow(Written(x, r), r)
      /\ \/ Written(x, r) = r
         \/ \E w \in Writes(x, r) : Written(x, r).columns = Overwritten(r.columns, w.columns)
  BY WrittenOf
<1>2. c \in DOMAIN r.columns
  BY <1>1 DEF Whole, SameRow, SameKey
<1>3. CASE Written(x, r) = r
  BY <1>2, <1>3
<1>4. ASSUME NEW w \in Writes(x, r),
             Written(x, r).columns = Overwritten(r.columns, w.columns)
      PROVE  \/ Written(x, r).columns[c] = r.columns[c]
             \/ /\ SameRow(w, r) /\ c \in DOMAIN w.columns
                /\ Written(x, r).columns[c] = w.columns[c]
  BY <1>2, <1>4 DEF Overwritten, Writes
<1>5. QED
  BY <1>1, <1>2, <1>3, <1>4 DEF Writes

LEMMA LaterKept ==
  ASSUME Base, NEW x \in Txn, Moves(x) \/ Commits(x), NEW y \in Txn, NEW r, NEW s, NEW c,
         txn'[y].before = txn[y].before, SameRow(s, r), s.columns[c] = r.columns[c],
         Later(y, r, c)
  PROVE  Later(y, s, c)'
<1>1. PICK z \in Committed \ (txn[y].before \cup {y}) : \E w \in txn[z].changed :
        /\ SameRow(w, r) /\ Asked(z, c) /\ c \in DOMAIN w.columns
        /\ r.columns[c] = w.columns[c]
  BY DEF Later
<1>2. z \in Committed' /\ txn'[z].changed = txn[z].changed
  <2>1. z # x /\ z \in Txn /\ Committed \subseteq Committed'
    BY MovesCommitted, CommitsCommitted DEF Committed
  <2>2. QED
    BY <2>1 DEF Moves, Commits
<1>3. Asked(z, c)'
  BY <1>1 DEF Asked, Steps, Moves, Commits
<1>4. \A w : SameRow(w, r) => SameRow(w, s)
  BY DEF SameRow, SameKey
<1>5. QED
  BY <1>1, <1>2, <1>3, <1>4 DEF Later

LEMMA DriftMoves ==
  ASSUME Base, NEW x \in Txn, Moves(x), NEW y \in Txn, Drift(y),
         txn'[y].found \in {{}, txn[y].found}, txn'[y].before = txn[y].before,
         txn'[y].state = "committed" <=> txn[y].state = "committed",
         txn'[y].state = "committed" => txn'[y].set = txn[y].set
  PROVE  Drift(y)'
<1>1. rows' = rows /\ Steps(y)' = Steps(y)
  BY DEF Moves, Steps
<1>2. ASSUME NEW q \in txn[y].found, NEW r \in rows, SameRow(q, r), NEW c \in DOMAIN r.columns,
             Updates(y)
      PROVE  AsKnown(y, q, r, c)' \/ Later(y, r, c)'
  <2>1. AsKnown(y, q, r, c) \/ Later(y, r, c)
    BY <1>2 DEF Drift
  <2>2. AsKnown(y, q, r, c) => AsKnown(y, q, r, c)'
    BY DEF AsKnown, Answered
  <2>3. Later(y, r, c) => Later(y, r, c)'
    BY LaterKept DEF SameRow, SameKey
  <2>4. QED
    BY <2>1, <2>2, <2>3
<1>3. QED
  BY <1>1, <1>2 DEF Drift, Updates

LEMMA DriftFinds ==
  ASSUME Base, Table, NEW x \in Txn, Finds(x)
  PROVE  Drift(x)'
<1>1. Moves(x) /\ rows' = rows /\ Steps(x)' = Steps(x) /\ txn'[x].state = "open"
  BY DEF Finds, Moves, Steps
<1>2. PICK f \in Matches(x) : txn'[x].found \in {{}, {f}}
  BY DEF Finds
<1>3. Updates(x) => f \in rows
  BY UpdateInsertsNothing DEF Matches
<1>4. \A r \in rows : Updates(x) /\ SameRow(f, r) => r = f
  BY <1>3 DEF Table
<1>5. QED
  BY <1>1, <1>2, <1>4 DEF Drift, Updates, AsKnown

LEMMA DriftOtherCommits ==
  ASSUME Base, Table, NEW x \in Txn, Commits(x), NEW y \in Txn, y # x, Drift(y)
  PROVE  Drift(y)'
<1>1. /\ txn'[y] = txn[y] /\ Steps(y)' = Steps(y) /\ Committed' = Committed \cup {x}
      /\ x \notin Committed /\ Updates(y)' = Updates(y)
  BY CommitsCommitted DEF Commits, Steps, Updates
<1>2. ASSUME NEW q \in txn[y].found, NEW s \in rows', SameRow(q, s),
             NEW c \in DOMAIN s.columns, Updates(y)
      PROVE  AsKnown(y, q, s, c)' \/ Later(y, s, c)'
  <2>1. PICK r \in Kept(x) : s = Written(x, r) /\ Whole(r) /\ SameRow(s, r)
    BY CommittedRow
  <2>2. SameRow(q, r)
    BY <1>2, <2>1 DEF SameRow, SameKey
  <2>3. r \in rows
    <3>1. q.by \in Committed \cup {y}
      BY DEF Base, Own, Loaded
    <3>2. \A p \in txn[x].new : p.by = x
      BY DEF Base, Own, NewRows
    <3>3. QED
      BY <1>1, <2>2, <3>1, <3>2 DEF Kept, SameRow
  <2>4. c \in DOMAIN r.columns
    BY <2>1, ColumnOf
  <2>5. AsKnown(y, q, r, c) \/ Later(y, r, c)
    BY <1>2, <2>2, <2>3, <2>4 DEF Drift
  <2>6. CASE s.columns[c] = r.columns[c]
    <3>1. AsKnown(y, q, r, c) => AsKnown(y, q, s, c)'
      BY <1>1, <2>6 DEF AsKnown, Answered
    <3>2. Later(y, r, c) => Later(y, s, c)'
      BY <1>1, <2>1, <2>6, LaterKept
    <3>3. QED
      BY <2>5, <3>1, <3>2
  <2>7. ASSUME NEW w \in txn[x].changed, SameRow(w, r), c \in DOMAIN w.columns,
               s.columns[c] = w.columns[c]
        PROVE  Later(y, s, c)'
    <3>1. x \in Committed' \ (txn'[y].before \cup {y})
      BY <1>1 DEF Base, Own, Progress
    <3>2. Asked(x, c)'
      BY <2>7 DEF Base, Own, Wanted, Asked, Steps, Commits
    <3>3. w \in txn'[x].changed /\ SameRow(w, s)
      BY <2>1, <2>7 DEF Commits, SameWrites, SameRow, SameKey
    <3>4. QED
      BY <2>7, <3>1, <3>2, <3>3 DEF Later
  <2>8. QED
    BY <2>1, <2>6, <2>7, ColumnOf
<1>3. QED
  BY <1>1, <1>2 DEF Drift

LEMMA DriftOwnCommit ==
  ASSUME Base, Table, NEW x \in Txn, Commits(x), Updated(x), Drift(x)
  PROVE  Drift(x)'
<1>1. Updates(x)' = Updates(x)
  BY DEF Commits, Steps, Updates
<1>2. ASSUME NEW q \in txn'[x].found, NEW s \in rows', SameRow(q, s),
             NEW c \in DOMAIN s.columns, Updates(x)
      PROVE  AsKnown(x, q, s, c)' \/ Later(x, s, c)'
  <2>1. PICK r \in Kept(x) : s = Written(x, r) /\ Whole(r) /\ SameRow(s, r)
    BY CommittedRow
  <2>2. r \in rows /\ q \in txn[x].found /\ SameRow(q, r)
    BY <1>2, <2>1, UpdateInsertsNothing DEF Kept, Commits, SameLoads, SameRow, SameKey
  <2>3. c \in DOMAIN r.columns /\ c \in DOMAIN q.columns
    BY <2>1, <2>2, ColumnOf DEF Base, Own, Loaded, Whole, SameRow, SameKey
  <2>4. AsKnown(x, q, r, c) \/ Later(x, r, c)
    BY <1>2, <2>2, <2>3 DEF Drift
  <2>5. /\ \A w \in txn[x].changed : w.columns = txn[x].set
        /\ \E w \in txn[x].changed : SameRow(w, r)
    BY <1>2, <2>2, UpdateInsertsNothing DEF Updated, Commits, SameRow, SameKey
  <2>6. s.columns = Overwritten(r.columns, txn[x].set)
    BY <2>1, <2>5, WrittenOf DEF Writes
  <2>7. /\ txn'[x].state = "committed" /\ txn'[x].set = txn[x].set
        /\ txn'[x].before = txn[x].before /\ txn[x].state = "open"
    BY DEF Commits, SameLoads
  <2>8. CASE c \in DOMAIN txn[x].set
    BY <2>3, <2>6, <2>7, <2>8 DEF AsKnown, Answered, Overwritten
  <2>9. CASE c \notin DOMAIN txn[x].set
    <3>1. s.columns[c] = r.columns[c]
      BY <2>3, <2>6, <2>9 DEF Overwritten
    <3>2. AsKnown(x, q, r, c) => AsKnown(x, q, s, c)'
      BY <2>3, <2>7, <2>9, <3>1 DEF AsKnown, Answered, Overwritten
    <3>3. Later(x, r, c) => Later(x, s, c)'
      BY <2>1, <2>7, <3>1, LaterKept
    <3>4. QED
      BY <2>4, <3>2, <3>3
  <2>10. QED
    BY <2>8, <2>9
<1>3. QED
  BY <1>1, <1>2 DEF Drift

LEMMA DriftNext ==
  ASSUME Base, Table, NEW x \in Txn, Begin(x) \/ Run(x) \/ Abort(x), NEW y \in Txn,
         Updated(y), Drift(y)
  PROVE  Drift(y)'
<1>1. CASE y # x
  <2>1. CASE Moves(x)
    BY <1>1, <2>1, DriftMoves DEF Moves
  <2>2. CASE Commits(x)
    BY <1>1, <2>2, DriftOtherCommits
  <2>3. QED
    BY <2>1, <2>2, MovesOrCommits
<1>2. CASE y = x
  <2>1. CASE Begin(x)
    <3>1. txn'[x].found = {}
      BY <2>1, BeginEffect DEF SameLoads, Base, Own, Progress
    <3>2. QED
      BY <1>2, <3>1 DEF Drift
  <2>2. CASE Finds(x)
    BY <1>2, <2>2, DriftFinds
  <2>3. CASE Commits(x)
    BY <1>2, <2>3, DriftOwnCommit
  <2>4. CASE Passes(x) \/ Misses(x) \/ Inserts(x) \/ Updating(x) \/ Removing(x) \/ Fails(x)
    <3>1. /\ Moves(x) /\ txn'[x].found \in {{}, txn[x].found}
          /\ txn'[x].before = txn[x].before
      BY <2>4, PassesEffect, FailsEffect
      DEF Misses, Inserts, Updating, Removing, Flushes, SameLoads
    <3>2. QED
      BY <1>2, <3>1, DriftMoves DEF Moves
  <2>5. QED
    BY <2>1, <2>2, <2>3, <2>4, Effects
<1>3. QED
  BY <1>1, <1>2

----------------------------------------------------------------------------
(* Seedings *)

LEMMA RemovedKept ==
  ASSUME Base, NEW x \in Txn, Moves(x) \/ Commits(x), NEW row, Removed(row)
  PROVE  Removed(row)'
<1>1. PICK y \in Committed : \E g \in txn[y].gone : SameKey(g, row)
  BY DEF Removed
<1>2. y \in Committed' /\ txn'[y].gone = txn[y].gone
  <2>1. y # x /\ y \in Txn /\ Committed \subseteq Committed'
    BY MovesCommitted, CommitsCommitted DEF Committed
  <2>2. QED
    BY <2>1 DEF Moves, Commits
<1>3. QED
  BY <1>1, <1>2 DEF Removed

LEMMA SeedOf ==
  ASSUME NEW x \in Seeds
  PROVE  /\ Steps(x) = SeedSteps /\ job[x].scope = Identity
         /\ Len(SeedSteps) = 18 /\ DOMAIN SeedSteps = 1..18
         /\ SeedSteps[1] = Find(PermissionRow)
         /\ \A i \in DOMAIN SeedSteps : SeedSteps[i].do # "insert"
<1>1. DOMAIN SeedSteps = 1..18 /\ Len(SeedSteps) = 18
  BY SeedStepsFacts
<1>2. \A i \in 1..Len(SeedSteps) : SeedSteps[i] \in AllSeedSteps
  BY SeedStepsFacts, <1>1, ElementOfSeq
<1>3. \A s \in AllSeedSteps : s.do # "insert"
  BY DEF AllSeedSteps, Find, FindAny, Seeded, Flush
<1>4. Steps(x) = SeedSteps /\ job[x].scope = Identity
  BY DEF Seeds, Seeding, Steps
<1>5. QED
  BY <1>1, <1>2, <1>3, <1>4, SeedStepsFacts

(* Before the first commit a transaction sees what it wrote. *)
LEMMA FirstMatch ==
  ASSUME Base, Table, NEW x \in Txn, Committed = {}, NEW r \in Matches(x)
  PROVE  r \in txn[x].new /\ SameKey(r, Step(x).row)
  BY DEF Matches, Table

LEMMA FirstNext ==
  ASSUME Base, Table, NEW x \in Txn, Begin(x) \/ Run(x) \/ Abort(x), NEW y \in Txn, First(y)
  PROVE  First(y)'
<1>1. Committed \subseteq Committed' /\ Seeds' = Seeds /\ Steps(y)' = Steps(y)
  BY MovesOrCommits, MovesCommitted, CommitsCommitted DEF Seeds, Steps, Moves, Commits
<1>2. CASE y # x
  <2>1. txn'[y] = txn[y]
    BY <1>2, MovesOrCommits DEF Moves, Commits
  <2>2. QED
    BY <1>1, <2>1 DEF First
<1>3. CASE y = x
  <2>1. ASSUME x \notin Seeds PROVE Committed' # {}
    <3>1. CASE Begin(x)
      BY <1>1, <2>1, <3>1, BeginEffect DEF Seeds, Table
    <3>2. CASE ~Begin(x)
      <4>1. txn[x].state # "idle"
        BY <3>2, Effects
        DEF Passes, Misses, Finds, Inserts, Updating, Removing, Flushes, Commits, Fails
      <4>2. QED
        BY <1>1, <1>3, <2>1, <4>1 DEF First
    <3>3. QED
      BY <3>1, <3>2
  <2>2. ASSUME x \in Seeds, Committed' = {}, txn'[x].state \in {"open", "missing"},
               NEW i \in 1..(txn'[x].at - 1), Makes(Steps(x)[i])
        PROVE  \E r \in txn'[x].new : SameKey(r, Steps(x)[i].row)
    <3>1. Committed = {} /\ txn[x].at \in Nat
      BY <1>1, <2>2 DEF Base, Own, Progress
    <3>2. ASSUME i < txn[x].at, txn[x].state \in {"open", "missing"}
          PROVE  \E r \in txn[x].new : SameKey(r, Steps(x)[i].row)
      BY <1>3, <2>2, <3>1, <3>2 DEF First
    <3>3. CASE Begin(x)
      BY <2>2, <3>3, BeginEffect DEF Base, Own, Progress
    <3>4. CASE Passes(x)
      <4>1. /\ txn'[x].at = txn[x].at + 1 /\ txn'[x].new = txn[x].new
            /\ txn[x].state = "open"
        BY <3>4, PassesEffect DEF SameWrites, Passes
      <4>2. CASE i = txn[x].at
        BY <2>2, <3>1, <3>4, <4>1, <4>2, FirstMatch DEF Passes, Step, Makes
      <4>3. QED
        BY <2>2, <3>1, <3>2, <4>1, <4>2
    <3>5. CASE Misses(x)
      BY <2>2, <3>1, <3>2, <3>5 DEF Misses, SameWrites
    <3>6. CASE Finds(x)
      <4>1. /\ txn'[x].at = txn[x].at + 1 /\ txn'[x].new = txn[x].new
            /\ txn[x].state = "open" /\ Matches(x) # {}
        BY <3>6 DEF SameWrites, Finds
      <4>2. CASE i = txn[x].at
        BY <3>1, <4>1, <4>2, FirstMatch DEF Step
      <4>3. QED
        BY <2>2, <3>1, <3>2, <4>1, <4>2
    <3>7. CASE Inserts(x)
      <4>1. /\ txn'[x].at = txn[x].at + 1 /\ txn'[x].new = txn[x].new \cup {NewRow(x)}
            /\ txn[x].state \in {"open", "missing"}
            /\ SameKey(NewRow(x), Step(x).row)
        BY <3>7, NewRowOf DEF Inserts
      <4>2. CASE i = txn[x].at
        BY <4>1, <4>2 DEF Step
      <4>3. QED
        BY <2>2, <3>1, <3>2, <4>1, <4>2
    <3>8. CASE Updating(x) \/ Removing(x)
      <4>1. /\ txn'[x].at = txn[x].at + 1 /\ txn'[x].new = txn[x].new
            /\ txn[x].state = "open" /\ Step(x).do \in {"flush", "remove"}
        BY <3>8 DEF Updating, Removing, Flushes
      <4>2. i # txn[x].at
        BY <2>2, <4>1 DEF Step, Makes
      <4>3. QED
        BY <2>2, <3>1, <3>2, <4>1, <4>2
    <3>9. CASE Commits(x)
      BY <2>2, <3>9 DEF Commits
    <3>10. CASE Fails(x)
      BY <2>2, <3>10, FailsEffect
    <3>11. QED
      BY <3>3, <3>4, <3>5, <3>6, <3>7, <3>8, <3>9, <3>10, Effects
  <2>3. QED
    BY <1>1, <1>3, <2>1, <2>2 DEF First
<1>4. QED
  BY <1>2, <1>3

(* When the first seeding commits, no other has got past its first step:   *)
(* it would hold the permission that the first one inserted.               *)
LEMMA FirstCommit ==
  ASSUME Base, Table, Exclusive, NEW x \in Txn, Commits(x), Committed = {}, First(x),
         NEW y \in Seeds, y # x, First(y), txn[y].state \in {"open", "missing"}
  PROVE  txn[y].at = 1 /\ txn[y].new = {}
<1>1. y \in Txn /\ x \in Seeds /\ txn[x].state = "open" /\ txn[y].at \in Nat \ {0}
  BY DEF Seeds, First, Commits, Base, Own, Progress
<1>2. /\ Steps(x) = SeedSteps /\ Steps(y) = SeedSteps /\ SeedSteps[1] = Find(PermissionRow)
      /\ Makes(SeedSteps[1]) /\ SeedSteps[1].row = PermissionRow
      /\ Len(SeedSteps) = 18
  BY <1>1, SeedOf DEF Makes, Find
<1>3. PICK r \in txn[x].new : SameKey(r, PermissionRow)
  <2>1. 1 \in 1..(txn[x].at - 1)
    BY <1>2 DEF Commits
  <2>2. QED
    BY <1>1, <1>2, <2>1 DEF First
<1>4. ASSUME txn[y].at # 1 PROVE FALSE
  <2>1. 1 \in 1..(txn[y].at - 1)
    BY <1>1, <1>4
  <2>2. PICK q \in txn[y].new : SameKey(q, PermissionRow)
    BY <1>1, <1>2, <2>1 DEF First
  <2>3. r.in \in Unique /\ SameKey(r, q)
    BY <1>3, <2>2 DEF SameKey, PermissionRow, Row, Unique
  <2>4. QED
    BY <1>1, <2>3 DEF Exclusive
<1>5. \A q : ~Planned(Steps(y), 0, q)
  BY DEF Planned
<1>6. QED
  BY <1>1, <1>4, <1>5 DEF Base, Own, NewRows

LEMMA AgainNext ==
  ASSUME Base, Table, Exclusive, Settled, NEW x \in Txn, Begin(x) \/ Run(x) \/ Abort(x),
         NEW y \in Txn, Again(y), First(y), First(x)
  PROVE  Again(y)'
<1>1. /\ Seeds' = Seeds /\ Steps(y)' = Steps(y)
      /\ \A row : Removed(row) => Removed(row)'
  BY MovesOrCommits, RemovedKept DEF Seeds, Steps, Moves, Commits
<1> SUFFICES ASSUME y \in Seeds, Committed' # {}, txn'[y].state \in {"open", "missing"}
             PROVE  /\ \A r \in txn'[y].new : Removed(r)'
                    /\ txn'[y].state = "missing" => txn'[y].at = 1 \/ Removed(Step(y).row)'
  BY <1>1 DEF Again
<1>2. CASE y # x /\ Committed # {}
  <2>1. txn'[y] = txn[y] /\ Step(y)' = Step(y)
    BY <1>1, <1>2, MovesOrCommits DEF Moves, Commits, Step
  <2>2. QED
    BY <1>1, <1>2, <2>1 DEF Again
<1>3. CASE y # x /\ Committed = {}
  <2>1. Commits(x) /\ txn'[y] = txn[y]
    BY <1>3, MovesOrCommits, MovesCommitted DEF Commits
  <2>2. txn[y].at = 1 /\ txn[y].new = {}
    BY <1>3, <2>1, FirstCommit
  <2>3. QED
    BY <2>1, <2>2
<1>4. CASE y = x
  <2>1. Committed # {}
    BY <1>4, MovesOrCommits, MovesCommitted DEF Commits
  <2>2. ASSUME txn[x].state \in {"open", "missing"}
        PROVE  /\ \A r \in txn[x].new : Removed(r)
               /\ txn[x].state = "missing" => txn[x].at = 1 \/ Removed(Step(x).row)
    BY <1>4, <2>1, <2>2 DEF Again
  <2>3. ASSUME Makes(Step(x)), txn[x].at <= Len(Steps(x))
        PROVE  Present(Step(x).row) \/ Removed(Step(x).row)
    BY <1>4, <2>1, <2>3, SeedOf, StepOf DEF Settled, Step
  <2>4. CASE Begin(x)
    BY <1>4, <2>4, BeginEffect DEF SameWrites, Base, Own, Progress
  <2>5. CASE Passes(x) \/ Finds(x) \/ Updating(x) \/ Removing(x)
    BY <1>1, <1>4, <2>2, <2>5, PassesEffect
    DEF Passes, Finds, Updating, Removing, Flushes, SameWrites
  <2>6. CASE Misses(x)
    <3>1. ~Present(Step(x).row)
      BY <1>4, <2>6, SeedOf DEF Present, Misses, Matches, Visible
    <3>2. Removed(Step(x).row)
      BY <2>3, <2>6, <3>1 DEF Misses, Makes
    <3>3. Step(x)' = Step(x) /\ txn'[x].new = txn[x].new /\ txn[x].state = "open"
      BY <2>6 DEF Misses, SameWrites, Moves, Step, Steps
    <3>4. QED
      BY <1>1, <1>4, <2>2, <3>2, <3>3
  <2>7. CASE Inserts(x)
    <3>1. /\ txn[x].state = "missing" /\ txn'[x].state = "open" /\ txn[x].at \in DOMAIN Steps(x)
          /\ txn'[x].new = txn[x].new \cup {NewRow(x)}
          /\ Makes(Step(x)) /\ SameKey(NewRow(x), Step(x).row) /\ ~Taken(x, Step(x).row)
          /\ txn[x].at <= Len(Steps(x))
      <4>1. txn[x].at <= Len(Steps(x)) /\ txn[x].at \in DOMAIN Steps(x)
        BY <2>7, StepOf DEF Inserts
      <4>2. Step(x).do # "insert"
        BY <1>4, <4>1, SeedOf DEF Step
      <4>3. QED
        BY <2>7, <4>1, <4>2, NewRowOf DEF Inserts
    <3>2. CASE txn[x].at = 1
      <4>1. Step(x).row = PermissionRow
        BY <1>4, <3>2, SeedOf DEF Step, Find
      <4>2. ~Present(Step(x).row)
        BY <3>1, <4>1 DEF Taken, Present, PermissionRow, Row, Unique
      <4>3. Removed(Step(x).row)
        BY <2>3, <3>1, <4>2
      <4>4. QED
        BY <1>1, <1>4, <2>2, <3>1, <4>3 DEF Removed, SameKey
    <3>3. CASE Removed(Step(x).row)
      <4>1. Removed(NewRow(x))
        BY <3>1, <3>3 DEF Removed, SameKey
      <4>2. QED
        BY <1>1, <1>4, <2>2, <3>1, <4>1
    <3>4. QED
      BY <2>2, <3>1, <3>2, <3>3
  <2>8. CASE Commits(x) \/ Fails(x)
    BY <1>4, <2>8, FailsEffect DEF Commits
  <2>9. QED
    BY <2>4, <2>5, <2>6, <2>7, <2>8, Effects
<1>5. QED
  BY <1>2, <1>3, <1>4

(* A commit keeps a key or has deleted it. *)
LEMMA KeptOrRemoved ==
  ASSUME Base, Table, NEW x \in Txn, Commits(x), NEW r \in rows \cup txn[x].new,
         NEW row, SameKey(r, row)
  PROVE  Present(row)' \/ Removed(row)'
<1>1. Whole(r)
  BY DEF Base, Table, Own, NewRows
<1>2. CASE r \in Kept(x)
  BY <1>1, <1>2, KeptRow DEF Present, SameRow, SameKey
<1>3. CASE r \notin Kept(x)
  <2>1. PICK g \in txn[x].gone : SameRow(g, r)
    BY <1>3 DEF Kept
  <2>2. x \in Committed' /\ txn'[x].gone = txn[x].gone
    BY CommitsCommitted DEF Commits, SameWrites
  <2>3. QED
    BY <2>1, <2>2 DEF Removed, SameRow, SameKey
<1>4. QED
  BY <1>2, <1>3

LEMMA SettledNext ==
  ASSUME Base, Table, Settled, NEW x \in Txn, Moves(x) \/ Commits(x), First(x)
  PROVE  Settled'
<1>1. CASE Moves(x)
  BY <1>1, MovesCommitted, RemovedKept DEF Settled, Present, Moves
<1>2. CASE Commits(x)
  <2>1. ASSUME NEW i \in DOMAIN SeedSteps, Makes(SeedSteps[i])
        PROVE  Present(SeedSteps[i].row)' \/ Removed(SeedSteps[i].row)'
    <3>1. CASE Committed # {}
      <4>1. Present(SeedSteps[i].row) \/ Removed(SeedSteps[i].row)
        BY <2>1, <3>1 DEF Settled
      <4>2. QED
        BY <1>2, <4>1, RemovedKept, KeptOrRemoved DEF Present
    <3>2. CASE Committed = {}
      <4>1. x \in Seeds /\ txn[x].state = "open"
        BY <1>2, <3>2 DEF First, Commits
      <4>2. Steps(x) = SeedSteps /\ i \in 1..(txn[x].at - 1)
        BY <1>2, <4>1, SeedOf DEF Commits
      <4>3. PICK r \in txn[x].new : SameKey(r, SeedSteps[i].row)
        BY <2>1, <3>2, <4>1, <4>2 DEF First
      <4>4. QED
        BY <1>2, <4>3, KeptOrRemoved
    <3>3. QED
      BY <3>1, <3>2
  <2>2. QED
    BY <2>1 DEF Settled
<1>3. QED
  BY <1>1, <1>2

LEMMA SeededOnceNext ==
  ASSUME Base, Table, SeededOnce, NEW x \in Txn, Moves(x) \/ Commits(x), Again(x)
  PROVE  SeededOnce'
<1>1. Seeds' = Seeds
  BY DEF Seeds, Moves, Commits
<1>2. CASE Moves(x)
  BY <1>1, <1>2, RemovedKept DEF SeededOnce, Moves
<1>3. CASE Commits(x)
  <2>1. ASSUME NEW r \in Kept(x), NEW q \in Kept(x), r.by \in Seeds, q.by \in Seeds,
               SameKey(r, q)
        PROVE  r = q \/ Removed(r)
    <3>1. CASE r \in rows /\ q \in rows
      BY <2>1, <3>1 DEF SeededOnce
    <3>2. CASE r \in txn[x].new /\ q \in txn[x].new
      BY <2>1, <3>2 DEF Base, Own, NewRows
    <3>3. ASSUME NEW n \in txn[x].new, n.by \in Seeds, NEW p \in rows
          PROVE  Removed(n)
      <4>1. n.by = x /\ Committed # {}
        BY <3>3 DEF Base, Table, Own, NewRows
      <4>2. QED
        BY <1>3, <3>3, <4>1 DEF Again, Commits
    <3>4. QED
      BY <2>1, <3>1, <3>2, <3>3 DEF Kept, Removed, SameKey
  <2>2. ASSUME NEW s \in rows', NEW p \in rows', s.by \in Seeds, p.by \in Seeds, SameKey(s, p)
        PROVE  s = p \/ Removed(s)'
    <3>1. PICK r \in Kept(x) : s = Written(x, r) /\ SameRow(s, r)
      BY <1>3, CommittedRow
    <3>2. PICK q \in Kept(x) : p = Written(x, q) /\ SameRow(p, q)
      BY <1>3, CommittedRow
    <3>3. r = q \/ Removed(r)
      BY <2>1, <2>2, <3>1, <3>2 DEF SameRow, SameKey
    <3>4. Removed(r) => Removed(s)
      BY <3>1 DEF Removed, SameRow, SameKey
    <3>5. QED
      BY <1>3, <3>1, <3>2, <3>3, <3>4, RemovedKept
  <2>3. QED
    BY <1>1, <2>2 DEF SeededOnce
<1>4. QED
  BY <1>2, <1>3

----------------------------------------------------------------------------

LEMMA InitInv == Init => IInv
<1> SUFFICES ASSUME Init PROVE IInv
  OBVIOUS
<1>1. /\ rows = {} /\ Committed = {} /\ job \in Jobs /\ DOMAIN txn = Txn
      /\ \A x \in Txn : txn[x] = Fresh
  BY DEF Init, Committed, Fresh
<1>2. ASSUME NEW x \in Txn
      PROVE  /\ txn[x].state = "idle" /\ txn[x].at = 1 /\ txn[x].new = {}
             /\ txn[x].found = {} /\ txn[x].changed = {} /\ txn[x].gone = {}
             /\ txn[x].before = {} /\ txn[x].set = <<>> /\ DOMAIN txn[x] = DOMAIN Fresh
  BY <1>1 DEF Fresh
<1>3. ASSUME NEW x \in Txn PROVE Own(x)
  <2>1. Len(Steps(x)) \in Nat \ {0}
    BY <1>1, ProvisioningAssumption, JobSound DEF Sound, Steps
  <2>2. Progress(x)
    BY <1>2, <2>1 DEF Progress
  <2>3. QED
    BY <1>2, <2>2 DEF Own, NewRows, Loaded, Wanted, Apart
<1>4. Base
  BY <1>1, <1>3 DEF Base
<1>5. Table /\ Exclusive /\ Settled /\ SeededOnce /\ DeletedStaysDeleted
  BY <1>1, <1>2 DEF Table, Exclusive, Settled, SeededOnce, DeletedStaysDeleted
<1>6. ASSUME NEW x \in Txn PROVE Updated(x) /\ Drift(x) /\ First(x) /\ Again(x)
  BY <1>1, <1>2 DEF Updated, Drift, First, Again
<1>7. QED
  BY <1>4, <1>5, <1>6 DEF IInv

LEMMA StepInv ==
  ASSUME IInv, NEW x \in Txn, Begin(x) \/ Run(x) \/ Abort(x)
  PROVE  IInv'
<1>1. /\ Base /\ Table /\ Exclusive /\ Settled /\ SeededOnce /\ DeletedStaysDeleted
      /\ \A y \in Txn : Updated(y) /\ Drift(y) /\ First(y) /\ Again(y)
  BY DEF IInv
<1>2. Moves(x) \/ Commits(x)
  BY <1>1, MovesOrCommits
<1>3. Base' /\ Table' /\ Exclusive'
  BY <1>1, <1>2, BaseNext, TableNext, ExclusiveNext
<1>4. Settled' /\ SeededOnce' /\ DeletedStaysDeleted'
  BY <1>1, <1>2, SettledNext, SeededOnceNext, DeletedNext
<1>5. ASSUME NEW y \in Txn PROVE Updated(y)'
  <2>1. CASE y = x
    BY <1>1, <2>1, Effects, UpdatedNext
  <2>2. CASE y # x
    <3>1. txn'[y] = txn[y] /\ Steps(y)' = Steps(y)
      BY <1>2, <2>2 DEF Moves, Commits, Steps
    <3>2. QED
      BY <1>1, <3>1 DEF Updated, Updates
  <2>3. QED
    BY <2>1, <2>2
<1>6. \A y \in Txn : Drift(y)'
  BY <1>1, DriftNext
<1>7. \A y \in Txn : First(y)' /\ Again(y)'
  BY <1>1, FirstNext, AgainNext
<1>8. QED
  BY <1>3, <1>4, <1>5, <1>6, <1>7 DEF IInv

LEMMA StutterInv ==
  ASSUME IInv, UNCHANGED vars
  PROVE  IInv'
<1>1. rows' = rows /\ txn' = txn /\ job' = job
  BY DEF vars
<1>2. Committed' = Committed /\ Seeds' = Seeds /\ \A x : Steps(x)' = Steps(x)
  BY <1>1 DEF Committed, Seeds, Steps
<1>3. \A row : (Removed(row)' <=> Removed(row)) /\ (Present(row)' <=> Present(row))
  BY <1>1, <1>2 DEF Removed, Present
<1>4. \A x, c : Asked(x, c)' <=> Asked(x, c)
  BY <1>2 DEF Asked
<1>5. Base'
  <2>1. \A x \in Txn : Own(x)'
    BY <1>1, <1>2, OwnKept DEF IInv
  <2>2. QED
    BY <1>1, <2>1 DEF IInv, Base
<1>6. Table' /\ Exclusive' /\ Settled' /\ SeededOnce' /\ DeletedStaysDeleted'
  BY <1>1, <1>2, <1>3
  DEF IInv, Table, Exclusive, Settled, SeededOnce, DeletedStaysDeleted
<1>7. \A x \in Txn : Updated(x)' /\ First(x)' /\ Again(x)'
  BY <1>1, <1>2, <1>3 DEF IInv, Updated, Updates, First, Again, Step
<1>8. \A x, r, c : Later(x, r, c)' <=> Later(x, r, c)
  BY <1>1, <1>2, <1>4 DEF Later
<1>9. \A x \in Txn : Drift(x)'
  BY <1>1, <1>2, <1>8 DEF IInv, Drift, Updates, AsKnown, Answered
<1>10. QED
  BY <1>5, <1>6, <1>7, <1>9 DEF IInv

LEMMA Invariance == Spec => []IInv
<1>1. IInv /\ [Next]_vars => IInv'
  BY StepInv, StutterInv DEF Next
<1>2. QED
  BY InitInv, <1>1, PTL DEF Spec

(* Whatever runs beside whatever, a row has the columns of its table and   *)
(* belongs to a tenant or to nobody, and a transaction is at one of the    *)
(* steps of its job (models.py, db.py).                                    *)
THEOREM TypeCorrect == Spec => []TypeOK
<1>1. IInv => TypeOK
  <2> SUFFICES ASSUME IInv PROVE TypeOK
    OBVIOUS
  <2>1. Base /\ Table
    BY DEF IInv
  <2>2. ASSUME NEW r \in rows
        PROVE  /\ r.by \in Txn /\ r.tenant \in Tenant \cup {Global}
               /\ DOMAIN r.columns = IF r.in = "policies" THEN DOMAIN FirstColumns ELSE {}
    <3>1. Whole(r) /\ r.by \in Txn /\ Planned(Steps(r.by), Len(Steps(r.by)), r)
      BY <2>1 DEF Table, Committed
    <3>2. \A i \in 1..Len(Steps(r.by)) :
            Makes(Steps(r.by)[i]) => Steps(r.by)[i].row.tenant \in Tenant \cup {Global}
      BY <2>1, <3>1, JobOf DEF Sound, Regular, Steps
    <3>3. DOMAIN FirstColumns = {"condition", "effect", "enabled", "version"}
      BY DEF FirstColumns
    <3>4. QED
      BY <3>1, <3>2, <3>3 DEF Planned, SameKey, Whole, Columns
  <2>3. ASSUME NEW x \in Txn
        PROVE  /\ DOMAIN txn[x] = DOMAIN Fresh
               /\ txn[x].state \in {"idle", "open", "missing", "committed", "failed"}
               /\ txn[x].at \in 1..(Len(Steps(x)) + 1)
               /\ txn[x].before \subseteq Txn
    BY <2>1 DEF Base, Own, Progress, Committed
  <2>4. QED
    BY <2>2, <2>3 DEF TypeOK
<1>2. QED
  BY Invariance, <1>1, PTL

(* seed.py may run however often, beside itself and beside the endpoints:  *)
(* nothing that seedings insert is there twice, but for a policy that      *)
(* somebody deleted.  The UNIQUE key of the first row it looks up makes    *)
(* the seedings wait for the first of them, and the others find its rows.  *)
THEOREM SeededOnceAlways == Spec => []SeededOnce
<1>1. IInv => SeededOnce
  BY DEF IInv
<1>2. QED
  BY Invariance, <1>1, PTL

(* A grant that _seed_tenant_rbac makes is never there before the policy   *)
(* that narrows it, although the two are inserted one after the other.     *)
THEOREM GrantsAlwaysComeWithPolicies == Spec => []GrantsComeWithPolicies
<1>1. IInv => GrantsComeWithPolicies
  <2> SUFFICES ASSUME IInv, NEW t \in Tenant, NEW r \in rows, SameKey(r, GrantRow(t))
               PROVE  Present(PolicyRow(t)) \/ Removed(PolicyRow(t))
    BY DEF GrantsComeWithPolicies, Present
  <2>1. /\ Base /\ r.by \in Committed /\ r.by \in Txn
        /\ Planned(Steps(r.by), Len(Steps(r.by)), r)
    BY DEF IInv, Table, Committed
  <2>2. PICK i \in 1..Len(Steps(r.by)) :
          Makes(Steps(r.by)[i]) /\ SameKey(Steps(r.by)[i].row, r)
    BY <2>1 DEF Planned
  <2>3. Regular(Steps(r.by)[i])
    BY <2>1, JobOf DEF Sound, Steps
  <2>4. PICK u \in {Acme, Globex} : Steps(r.by)[i].row = GrantRow(u)
    BY <2>2, <2>3 DEF Regular, SameKey, GrantRow, Row
  <2>5. t = u
    BY <2>2, <2>4 DEF SameKey, GrantRow, Row
  <2>6. \E k \in DOMAIN SeedSteps : Makes(SeedSteps[k]) /\ SeedSteps[k].row = PolicyRow(t)
    BY <2>4, <2>5, SeedStepsFacts DEF Makes, Seeded
  <2>7. QED
    BY <2>1, <2>6 DEF IInv, Settled
<1>2. QED
  BY Invariance, <1>1, PTL

(* What update_policy answered is what is stored, until a transaction that *)
(* had not ended when it began was asked to write the column.              *)
THEOREM AnsweredUpdatesAlwaysHold == Spec => []AnsweredUpdatesHold
<1>1. IInv => AnsweredUpdatesHold
  <2> SUFFICES ASSUME IInv, NEW x \in Committed, Steps(x)[1].do = "load",
                      NEW q \in txn[x].found, NEW r \in rows, SameRow(q, r),
                      NEW c \in DOMAIN r.columns
               PROVE  r.columns[c] = Answered(x, q)[c] \/ Later(x, r, c)
    BY DEF AnsweredUpdatesHold, Later
  <2>1. x \in Txn /\ txn[x].state = "committed"
    BY DEF Committed
  <2>2. AsKnown(x, q, r, c) \/ Later(x, r, c)
    BY <2>1 DEF IInv, Drift, Updates
  <2>3. QED
    BY <2>1, <2>2 DEF AsKnown
<1>2. QED
  BY Invariance, <1>1, PTL

(* A policy that delete_policy deleted is never there again, whoever had   *)
(* loaded it before.                                                       *)
THEOREM DeletedStaysDeletedAlways == Spec => []DeletedStaysDeleted
<1>1. IInv => DeletedStaysDeleted
  BY DEF IInv
<1>2. QED
  BY Invariance, <1>1, PTL

(* A commit of the PAP (tenant_session, app_session) changes no row of     *)
(* another tenant.                                                         *)
THEOREM TenantsStayApart == Spec => TenantsApart
<1>1. ASSUME IInv, [Next]_vars
      PROVE  [\A x \in Txn :
                (job[x].scope # Identity /\ Holds(x) /\ txn'[x].state = "committed")
                  => \A r \in (rows' \ rows) \cup (rows \ rows') :
                       r.tenant = job[x].scope]_vars
  <2> SUFFICES ASSUME NEW x \in Txn, job[x].scope # Identity, Holds(x),
                      txn'[x].state = "committed",
                      NEW r \in (rows' \ rows) \cup (rows \ rows'), Next
               PROVE  r.tenant = job[x].scope
    BY <1>1
  <2>1. Base /\ Table /\ Own(x)
    BY <1>1 DEF IInv, Base
  <2>2. PICK y \in Txn : Begin(y) \/ Run(y) \/ Abort(y)
    BY DEF Next
  <2>3. Commits(x)
    <3>1. Moves(y) \/ Commits(y)
      BY <2>1, <2>2, MovesOrCommits
    <3>2. y = x
      BY <3>1 DEF Moves, Commits, Holds
    <3>3. QED
      BY <3>1, <3>2 DEF Moves
  <2>4. /\ \A n \in txn[x].new : n.tenant = job[x].scope
        /\ \A w \in txn[x].changed : w.tenant = job[x].scope
        /\ \A g \in txn[x].gone : g.tenant = job[x].scope
    BY <2>1 DEF Own, Apart
  <2>5. ASSUME NEW q \in Kept(x), Written(x, q) # q
        PROVE  q.tenant = job[x].scope
    BY <2>4, <2>5 DEF Written, Writes, SameRow, SameKey
  <2>6. CASE r \in rows' \ rows
    <3>1. PICK q \in Kept(x) : r = Written(x, q) /\ SameRow(r, q)
      BY <2>1, <2>3, CommittedRow, <2>6
    <3>2. q \in rows => r # q
      BY <2>6
    <3>3. QED
      BY <2>4, <2>5, <3>1, <3>2 DEF Kept, SameRow, SameKey
  <2>7. CASE r \in rows \ rows'
    <3>1. CASE r \in Kept(x)
      BY <2>3, <2>5, <2>7, <3>1 DEF Commits
    <3>2. CASE r \notin Kept(x)
      BY <2>4, <2>7, <3>2 DEF Kept, SameRow, SameKey
    <3>3. QED
      BY <3>1, <3>2
  <2>8. QED
    BY <2>6, <2>7
<1>2. QED
  BY Invariance, <1>1, PTL DEF Spec, TenantsApart
=============================================================================
