# A TLA+ development of the authorization platform

This directory holds a formal model of the services under `src/`: TLA+ modules, the TLC
configurations that check them on small instances, and proofs checked by TLAPS. Every
definition is translated from the Python source; `PROJECT.json` maps each one to the lines
it stands for.

1. [The system](#1-the-system): components, state, operations, interactions, hard behaviours
2. [Modules and plan](#2-modules-and-plan)
3. [How each module corresponds to the code](#3-how-each-module-corresponds-to-the-code)
4. [Runs](#4-runs): what each checks and shows, its bounds
5. [Fairness](#5-fairness)
6. [Proofs](#6-proofs)
7. [Where the code and its documentation disagree](#7-where-the-code-and-its-documentation-disagree)
8. [What is not modelled](#8-what-is-not-modelled)

## 1. The system

A multi-tenant platform of six FastAPI services that share one Postgres database (row-level
security by tenant) and one Redis. A service runs its handlers in a thread pool and may run
in several replicas, so any two requests interleave; there is no lock anywhere in the code,
no retry and no background job. Postgres runs at READ COMMITTED, so each statement sees what
is committed when it runs.

| Component | State | Operations | Correct when |
|---|---|---|---|
| **Authz: PDP** (`services/authz/main.py`, `POST /check`) | decision entries in Redis under a TTL of 15 s, audit rows | look up, decide, audit, store | no decision is served that contradicts the tables, unless an edit is under way; every decision served is in the audit trail; every request is answered |
| **Authz: engine** (`services/authz/engine.py`) | none | role closure, direct grants, the loops over deny and allow policies, the condition language | the closure ends on cyclic hierarchies and is exact; deny by default, deny overrides; an attribute that is left out gains nothing |
| **Authz: administration (PAP)** (`services/authz/main.py`) | roles, hierarchy, grants, direct grants, policies of a tenant; the global catalog | create, grant, revoke, inherit, policy CRUD; each followed by an INCR of the tenant's epoch and an audit row | an edit leaves no cached decision behind; restricting edits never allow, widening ones never deny; overlapping updates of a policy lose nothing they were asked to write |
| **Redis cache** (`services/common/cache.py`) | decision entries, `authzver:{tenant}` counters, refresh sessions | get, setex, incr, delete, expiry, loss | an epoch is never used again for other tables |
| **PEP** (`libs/pep`) | none | `decide`, `enforce`: one HTTP call with a timeout of 3 s | fails closed |
| **Expense, Invoice, Payroll** (`services/{expense,invoice,payroll}`) | documents of a tenant | create, read, list, approve / issue; load, ask, act in three steps | what is changed or shown is what the PDP allowed, of the caller's tenant |
| **Auth: sessions** (`services/auth/main.py`) | refresh sessions (Redis, 7 days), stateless access tokens (15 min) and identity tokens (10 min) | login, select and switch tenant, refresh, logout | tokens carry only the roles of their tenant; logout is final; revocation takes effect |
| **Auth: management** (`services/auth/main.py`) | users, memberships, role assignments, tenants, org units | create, add member, assign, unassign | an administrator reaches only the own tenant, and the power of one who was demoted ends for good |
| **Tenancy** (`services/common/{db,bootstrap,models}.py`) | Postgres RLS policies, unique constraints, roles | `tenant_session`, `app_session`, `identity_session`, each one transaction | a session sees and changes rows of one tenant; a transaction happens as a whole or not at all |
| **Seed** (`services/common/seed.py`) | demo tenants with three policies each | one transaction of lookups and inserts | it can be run again and beside itself; grants are never visible without the policies that narrow them; the policies mean what they say |
| UI, health probes, JWT and password primitives, scripts | - | - | - |

**Interactions.** A user logs in at Auth, gets an access token with user, tenant, roles and
org unit, and calls a business service with it. The service's PEP asks the PDP with the
claims of the token and, for some handlers, attributes of a document it loaded before. The
PDP reads the tenant's epoch and the cached decision from Redis, or computes one from
Postgres, writes its audit row, and caches it under the epoch it read. Administrators edit
the tables through the PAP, which bumps the epoch so that old entries are never looked up
again. Role assignments are edited at Auth, which bumps no epoch: their effect is through the
roles in the next token.

**What is hard here.** `PROJECT.json` lists the hazards line by line with the properties
that address each. In short:

- *interleaving of a check with edits*: the check reads an epoch, then five tables one by
  one, then commits, then stores; edits commit and INCR in two steps, in any order among
  themselves;
- *partial failure*: the process dies or Redis fails between the commit and the INCR, or
  between the audit row and the store;
- *Redis loses its data*, so that the counters start from 0 again;
- *load, ask, act* in the business services with no lock in between, two requests at a time;
- *tokens outlive what they say*: roles taken away, memberships suspended, sessions deleted
  while a refresh that read them is running;
- *graphs with cycles*, as the administration endpoint rejects only self-loops;
- *conditions that raise* although they were validated, and comparisons with what is missing;
- *transactions beside one another*: lookups before inserts without a UNIQUE constraint, two
  seedings at once, an update of a policy that another request deletes or updates meanwhile,
  inserts that wait for one another;
- *a demoted administrator* who appoints others with a token from before.

## 2. Modules and plan

```
decisions     DecisionService  <-- implemented by --  PdpHistory -> Pdp -> AuthzEngine
              Decide -> RoleClosure, AbacDsl          Decide instantiates AuthzEngine
services      SeedBusiness -> Business -> AuthzEngine
identities    AuthSession
transactions  Provisioning
proofs        RoleClosureProofs -> RoleClosure        PdpProofs -> Pdp
              PdpServiceProofs -> PdpHistory, PdpProofs
              BusinessProofs -> Business              SeedBusinessProofs -> SeedBusiness, BusinessProofs
              AuthSessionProofs -> AuthSession        ProvisioningProofs -> Provisioning
              DecideProofs -> Decide, RoleClosureProofs
instances     MCDecide, MCPdp, MCPdpHistory, MCBusiness, MCAuthSession, MCProvisioning
```
(`A -> B`: A extends B.)

| Module | Models | Checked, proved |
|---|---|---|
| `RoleClosure` | the breadth-first walk over the role hierarchy, step by step | TLC, TLAPS |
| `AuthzEngine` | `decide` as an operator: from the rows read to the set of possible outcomes | through its users |
| `AbacDsl` | the condition language: `evaluate`, `_resolve`, the comparisons | TLC, TLAPS |
| `Decide` | `decide` as a program: the walk, the permission test, the two loops over policies | TLC, TLAPS, against `AuthzEngine` |
| `DecisionService` | abstract: what the PDP promises to its callers | implemented by `PdpHistory` |
| `Pdp` | `/check`, the PAP, the decision cache, failures | TLC, TLAPS |
| `PdpHistory` | `Pdp` with the tables of the past: what a decision may rest on; the refinement mapping | TLC, TLAPS |
| `Business` | PEP, expense, invoice and payroll services over a PDP | TLC, TLAPS |
| `SeedBusiness` | `Business` with the seeded policies | TLC, TLAPS |
| `AuthSession` | sessions, tokens, memberships and role assignments | TLC, TLAPS |
| `Provisioning` | seeding, user, tenant, org unit, member, catalog and policy endpoints as transactions | TLC, TLAPS |

The order was: the decision path first (`RoleClosure`, `AuthzEngine`, `Pdp`), then what relies
on it (`Business`, `SeedBusiness`), then where tokens come from (`AuthSession`), then the
abstract `DecisionService`, the language (`AbacDsl`, `Decide`) and how rows come to be
(`Provisioning`), and the proofs in the same order. All of the plan is done: every invariant and
every action property of the passing runs is a theorem as well.

**Composition.** `Business` does not contain `Pdp`: a composed state space of two services
and a cache would hide both. It contains what `Pdp` promises to its callers. An answer is
either computed from the tenant's tables by the same operator `Outcomes` that `Pdp` uses, or
it repeats a decision that is in the audit trail for the same user, tenant, action and
resource, or there is none. These are the actions `Decide`, `Repeat` and `Fail` of
`DecisionService`, which `Pdp` is proved to implement (`PdpServiceProofs`). Two differences:
`Business` lets a repeated decision be of any age, which is wider than `Repeat`; and it computes
from the tables of one moment where `DecisionService` allows each table to be of its own
(`RestsOn`, the run `pdp_torn`). The theorems about `Business` do not depend on the second:
they speak of what is in the audit trail, and those about the seeded policies hold for any
roles and grants a tenant may have, mixed states of the tables included.

`Decide` in turn is the program behind `Outcomes`; that what the loops come to is among the
outcomes is checked by the run `role_closure` and proved in `DecideProofs`.

## 3. How each module corresponds to the code

### RoleClosure - `engine.py`, `effective_permission_keys`

`closure`, `frontier`, `nxt` are the Python variables of these names; `Visit(r)` is the body
of the loops for one role, `NextLevel` the reassignment `frontier = nxt`, `Return` the final
query. The order in which a Python set is iterated is unspecified: `Next` picks any role of
the frontier. The two early returns (no role names, none of the names exists) are the case of
an empty `names`.

### AuthzEngine - `engine.py`, `decide`

`Outcomes(catalog, rows, call)` is the *set* of results that `decide` can have on given rows.
There is more than one because the SELECT on policies has no ORDER BY and both loops stop at
the first match or exception: with one policy that matches and one that raises, the scan
order decides. `"raise"` stands for an exception of the evaluator, which is answered with a
500. `Evaluate` is a constant operator, so that what is proved holds for every condition
language. `Closure` is the result of the walk, which `RoleClosureProofs` justifies.

### AbacDsl, Decide - `engine.py`, `evaluate` and `decide`

`AbacDsl` is the condition language. A value is None, a number, a string or a list; strings
stand for prefixes of one another, so that the order of strings and "is a substring of" are
both the order of their lengths. Lists are ordered as Python
orders them, by the first elements that differ or else by length (`Decisive`); lists inside
lists no deeper. A context says which attribute paths are there. What the
code leaves to Python is in `Compare`: `<` with None or between different types is false (the
`TypeError` is caught), `in` with a right-hand side that is no container is an exception (it is
not caught), None equals None. `FirstOther` is the short-circuit of `all` and `any`, which
hides an exception behind an earlier result.

`EvaluateNode` is one call of `evaluate`, given what the calls for the conditions inside the
node return. The constant operator `Evaluate` is any one that satisfies this equation
(`Unfolded`) on all of `Cond`, which is part of `DslAssumption`; the recursive one is in
`MCDecide`, so that the modules that are proved about declare nothing RECURSIVE. `Cond` is any set
of trees of finite height, `Context` any set of contexts that has with each one those with
attributes left out. In the same way `Asking` is the set of conditions that only ask for
attributes: `Asks` says it of a node whose arguments are in it.

| Action of `Decide` | Code |
|---|---|
| `WalkStep` | `effective_permission_keys`, a step of `RoleClosure` |
| `Refuse` | "no permission": neither a role nor a direct grant gives it, or the catalog lacks it |
| `Admit`, `Judge` | the first loop begins; one round of either loop, in any order of the policies |
| `NoDeny` | no deny matched: without allow policies that is an allow, else the second loop |
| `NoAllow` | no allow policy matched: a deny |

### Pdp - `services/authz/main.py`, `services/common/cache.py`

| Action | Code |
|---|---|
| `ReadEpoch` | `authz_version`, first thing in the handler |
| `Hit`, `Miss` | `get_decision` |
| `Select(r, f)` | one SELECT of `decide`, for `f` the roles, hierarchy, grants, direct grants, policies |
| `Decide` | the decision, the INSERT into `audit_logs` and the COMMIT |
| `Raise` | an exception from `evaluate`; the transaction is rolled back |
| `Store` | `set_decision` under the epoch read at the start |
| `CheckFails`, `EditFails` | a call to Postgres or Redis fails, or the process dies |
| `CreateRole` ... `DeletePolicy` | the endpoint up to its COMMIT, with its 4xx guards |
| `Bump`, `AuditAdmin` | `bump_authz_version`, `_audit_admin` |
| `Expire`, `Flush` | Redis: the TTL of an entry; the loss of all data |

`Bind` is the trust boundary at the top of `check`: which caller may ask for which subject.
`dirty[t]` is a history variable: an edit of tenant `t` changed its tables and no INCR of
the tenant came after it. The ids in `Req` and `Op` are requests, each used once, so that
they bound the run; `Req` doubles as the `decision_id` that a check draws. `catalog` and
`rows` of all tenants live in one database; a check reads its own tenant's only.

### DecisionService, PdpHistory - what `/check` promises

`DecisionService` has no cache, no epochs and no SELECTs. Per tenant it keeps `recent`, the
tables the tenant has had since an edit was last acknowledged to its administrator, and per
question `past`, the tables its answer may rest on: the recent ones when it was asked and all
later ones. `Decide` may take each table from another of these; `Repeat` gives an earlier
decision again, for a question that may differ in roles, org unit and environment only, and
only if it rests on tables in the *new* question's past. So an answer never rests on tables
that an acknowledged edit had replaced before the question came.

`PdpHistory` adds `recent` and `past` to `Pdp` as history variables (they are read by no guard
of `Pdp`) and maps the rest:

| `DecisionService` | `Pdp` |
|---|---|
| `state` idle, asked, decided, answered, failed | `pc` idle; lookup to commit; store; done; failed |
| `decisions` | the rows of `audit` that `check` writes |
| `Ask`, `Repeat`, `Decide`, `Answer` | `ReadEpoch`, `Hit`, `Decide`, `Store` |
| `Fail` | `Raise`, `CheckFails` |
| `Edit`, `Extend`, `Acknowledge` | the endpoints' commits, `CreatePermission`, `Bump` |
| a stutter | `Miss`, `Select`, `AuditAdmin`, `EditFails`, `Expire` |

An edit whose INCR is lost is never acknowledged, so it stays among the edits that a question
may not have seen; this is what the code can promise, and `pdp_lost_bump` shows that the
documentation promises more. With a loss of Redis' data even this promise breaks, which is
why `Flush` is left out of the refinement (`pdp_flush`).

### Business, SeedBusiness - `libs/pep`, `services/{expense,invoice,payroll}`, `seed.py`

A document is an expense, an invoice or a payslip; `owner` is `submitted_by`, `created_by` or
`employee_user_id`, `value` the amount or the period. The handlers of the three services
differ in four points only, which the model keeps: whether they load before they ask
(`LoadsFirst`), which attributes they send (`ResourceOf`), what a create copies from the
token and what from the body (`Insert`), and the row filter of the payslip list (`Keep`,
`Skip`, `Filtered`). `approve` and `issue` are both `Settle`: the row is loaded a second time
after the answer and two of its columns are set whatever its status. `Unavailable` is the PEP's `PDPError`:
the PDP may nevertheless have decided, and have written its decision down. `Administer`
replaces the tables of a tenant at any moment.

`SeedBusiness` adds the two conditions of the three seeded policies as the evaluator takes
them: `SeedEvaluate`, on what a request sends. A missing attribute is None, which is never less
than the limit, and differs from any user. Without any context both sides of a comparison are
None, so that `self_or_admin` is true and `settle_limit` false.

### AuthSession - `services/auth/main.py`

| Action | Code |
|---|---|
| `Login` | `login`: password and status checked, the earliest active membership looked up |
| `SelectTenant` | `select_tenant`, `switch_tenant` |
| `ReadMembership`, `NoMembership`, `ReadRoles`, `StoreRefresh` | the statements of `_issue_session` |
| `GetRefresh`, `RefreshRoles`, `Mint`, `RefuseRefresh` | `refresh` |
| `Logout` | `logout` |
| `RequireTenantAdmin` | the dependency `require_tenant_admin`: a call of an endpoint below is accepted |
| `AddMember`, `AssignRole`, `UnassignRole` | the handlers of the same names up to their COMMIT; `AssertTenant` is `_assert_tenant` |
| `RefuseManage` | their 403, 404, 409 and 400 |
| `Suspend`, `Disable` | no endpoint does this: an operator in the database |
| `ExpireToken`, `ExpireIdentity`, `ExpireSession` | the TTLs |

A thread of `Req` serves one request after the other. `tokens` holds the
claims of live tokens, so a claim lasts until the last token with it has expired. A management
call is two steps, as in the code: the token is looked at before the handler opens its
transaction, and may expire, and its user be demoted, before that commits. `refresh` reads
the roles before it looks at the membership, in the order of the code.

### Provisioning - `seed.py`, `auth/main.py`, `authz/main.py`, `common/{db,models,bootstrap}.py`

A job is a session (what row-level security shows it), the tenant whose administrator calls,
and the statements it executes, in order and with the flushes that SQLAlchemy makes of them. The
jobs are one operator per handler (`Seeding`, `CreateUser`, `CreateTenant`, `CreateOrgUnit`,
`AddMember`, `AssignRole`, `CreatePermission`, `CreatePolicy`, `UpdatePolicy`, `DeletePolicy`);
`Job` is the set of all of them, and a transaction `x` of `Txn` runs `job[x]`.

| Action | Code |
|---|---|
| `Begin` | the session; an endpoint needs an administrator of the tenant, the seeding nobody |
| `Lookup` | the SELECT of `_get_or_create` and of `_policy`: none, one, or `MultipleResultsFound` |
| `LookupAny` | the SELECT that asks whether a tenant has any expense |
| `Check` | the SELECTs that answer 404 and 409 |
| `Create` | `session.add` with its flush; a unique key that is there fails, one that another open transaction has inserted waits |
| `LoadPolicy`, `LoadToDelete` | `session.get` in `update_policy` and `delete_policy` |
| `FlushPolicy` | the UPDATE of the columns that changed; waits for another's write, then one that finds no row is an error |
| `RemovePolicy` | the DELETE; waits in the same way, and one that finds no row is not an error |
| `Commit`, `Abort` | the end of the session in `db.py`; an error anywhere, a lost connection or a crash |

`Visible` is the policy `tenant_isolation` and the BYPASSRLS of the identity session. `rows`
holds what is committed; a transaction sees it and its own `new`. A row's `by` is a history of
who inserted it. A row has the natural key of its table and, for policies, the columns
`condition`, `effect`, `enabled` and `version`.

## 4. Runs

Passing runs:

| Run | Module / cfg | Shows | Bounds |
|---|---|---|---|
| `role_closure` | `MCDecide` / `RoleClosure.cfg` | the walk ends, visits no role twice and returns exactly the permissions of the reachable roles; `decide` comes to an outcome of `AuthzEngine`; attributes left out gain nothing | all graphs on 3 roles, all grants of 1 permission, all subjects; on one of them a policy with any condition of depth 2 over 12 atoms, 3 attributes present or not with 3 to 5 values (numbers, strings, lists), or two policies with atoms and 2 values |
| `pdp_core` | `MCPdp` / `MCPdp.cfg` | `EditsInvalidate`, `ServedIsAudited`, `AnswersAreCurrent` | 2 checks, 2 edits, 2 users, 2 roles and one yet to be created |
| `pdp_edits` | `MCPdp` / `MCPdpEdits.cfg` | types; the effect of each endpoint on decisions | 1 check, 2 edits of every kind, 2 permissions, 2 policies, conditions that hold or raise; calls that fail, loss of Redis' data |
| `pdp_faults` | `MCPdpHistory` / `MCPdpFaults.cfg` | coherence, end of staleness and of requests, `DecisionService` implemented, with failures | 2 checks, 1 edit, a failure at every step |
| `business` | `MCBusiness` / `MCBusiness.cfg` | what is settled and shown was allowed; the seeded rules hold | 2 requests of 15 kinds, 2 tenants, 3 seeded documents, amounts at the limit and below |
| `auth_sessions` | `MCAuthSession` / `MCAuthSession.cfg` | tokens stay in their tenant, logout is final, a tenant without members stays so, an administrator's power that has ended does not come back | 2 threads, 2 users, 2 tenants, 2 roles, 1 session |
| `auth_revocation` | `MCAuthSession` / `MCAuthRevocation.cfg` | revocation and suspension take effect for good | 2 threads, 1 session, 1 user, 2 roles |
| `provisioning` | `MCProvisioning` / `MCProvisioning.cfg` | the seeding is safe beside itself and the endpoints, updates and deletions of policies hold, tenants stay apart, transactions end | a seeding and any two of 13 jobs, the same twice included; or the deletion of a seeded policy and three seedings; 2 tenants; each may be lost at any statement |

Why these bounds are enough to be of use:

- `role_closure`: three roles have every shape that matters to the walk: chains of two
  edges, diamonds without a fourth node, cycles of two and three, unreachable parts. The
  theorems cover every size. Policies are looked at after the walk and independently of it, so
  one graph is enough for them. Depth 2 nests every connective in `all`, `any` and `not` once,
  and the atoms are one for each way a comparison can come out: by type, by a missing side,
  by an exception, by an operator that does not exist. The amounts lie at the limit and below.
- `pdp_*`: the properties of the cache relate *one* entry to the edits around the check that
  made it. Two edits are needed for an INCR that opens an epoch while another edit is between
  its commit and its own INCR; two checks are needed for one to be served what the other
  stored. One tenant is enough as every step touches the state of one tenant; the proofs are
  for any number. Ids are symmetric where no liveness is checked.
- `business`: two requests are needed for one to act between another's question and its
  effect; requests are chosen so that each pair of hazards occurs (approve against approve,
  create then approve under the same id, list against a change of grants, another tenant's
  user). `Id` has one spare id for a create of each of the two requests.
- `auth_sessions`, `auth_revocation`: with two threads a management call that was accepted
  waits while the other thread logs in, refreshes or manages, and one refresh can hand out a
  role while the other is about to. A session is drawn once: what the properties say of one
  session does not depend on others, and the tokens it gives outlive it. The threads are
  symmetric where no liveness is checked.
- `provisioning`: the seeding that comes first gives the others a tenant to act in, and is
  itself one of those that overlap. The waits, the constraints and the writes relate two
  transactions; with three, one may wait while the other two go on, or come after both. The
  fourth transaction is needed once: two seedings that both miss a policy come after the
  seeding that made it and the deletion (elsewhere it is `Nothing`, a call that is never
  authorised, as Globex has no administrator then). The theorems are for any number.

Runs that find a violation, each with one property that a document or comment of the
repository states (section 7): `pdp_demoted`, `pdp_lost_bump`, `pdp_flush`, `pdp_torn`.

What some properties mean:

- `EditsInvalidate`: when no edit of a tenant is between its commit and its INCR, every
  entry of the current epoch agrees with the tables. It is stated without failures, and it
  breaks with them (`pdp_lost_bump`); `CacheCoherent` is what remains with failures: an entry
  of the current epoch agrees with the tables unless an edit was committed since the last
  INCR. `StalenessEnds` bounds the damage by the TTL.
- `AnswersAreCurrent`: an answer whose epoch is still current is one the tables give *for
  this very call*. It holds only while a user asks with the same roles, org unit and
  environment, since these are not part of the key: `pdp_core` has one subject per user,
  `pdp_demoted` has two.
- `SettledByAllowed`: the status of the document and its approver may be other than those the
  PDP saw, as another request may have settled it meanwhile; nothing else may.
- `PromiseKept`: every step of the PDP is one of `DecisionService` or none, see section 3.
- `DecidesAsEngine`: what the loops of `decide` end in is an outcome of the operator that
  `Pdp` and `Business` use, so that what these modules say carries over to the code's loops.
- `SilenceGainsNothing`: where each policy is an allow whose condition only asks for
  attributes, a caller who is denied is not allowed after leaving some of them out. It does
  not hold with a `not`, a `neq`, an `eq` of two attributes (two missing ones are equal),
  nor with a list that has None in it, in which a missing attribute is found; the last was met
  when the proof failed. `Asks` is the class of conditions for which it does. Of the seeded
  approval condition only the limit is in it; that its other two parts, same unit and not the
  author, are not satisfied by silence is up to what the services send, which is what
  `SettlementsKeepTheRule` looks at.
- `PowerEndsForGood`: the endpoints trust the token, so a demoted administrator may appoint
  the next one, and a call that was accepted does so even after the token has expired. Once no
  assignment, token or refresh that is under way carries the role, and no accepted call of the
  tenant is still running, nobody of the tenant comes by it again.
- `OnlyAllowedChange`: a step that changes documents or what a response shows is the create,
  the settlement or the showing of one request that is past its check, changes the document that
  this request names and nothing else, and the audit trail has the allow it rests on. As a
  request that was refused is not at that point of its handler, it leaves no trace.
- `SeededOnce`: the tables without a UNIQUE constraint are filled after rows of tables that
  have one, so that the second of two seedings waits there and fails, or finds everything. The
  order of the inserts carries the property. It has an exception, met when the proof failed: when
  everything is there but a policy that somebody deleted, two seedings that begin then have no
  unique row to wait at, and both insert the policy (section 7).
- `AnsweredUpdatesHold`: a stored column is what `update_policy` answered, unless a transaction
  that overlapped or came later was *asked* to write that column. The version is the exception:
  each writes it, and of two that overlap both may answer the same number.
- `LogoutIsFinal`: a session id that is gone neither comes back nor starts a refresh. A
  refresh that had read it before may still mint one token, which the code does too.

`CHECK_DEADLOCK FALSE` is set where the system stops: requests have ids that are used once,
and sessions cannot be drawn for ever.

Each passing property has a mutant in `PROJECT.json`: a variant of one mapped definition that
a plausible bug would produce (a dropped guard, a key without the epoch, a store under the
epoch of now, enforcement that fails open, a commit in place of a flush), under which TLC finds the property violated.

## 5. Fairness

Only what the scheduling of the code justifies is assumed:

- `Decide` (`DecideSpec`, the walk included) and `RoleClosure`: weak fairness of the loops; the
  request's thread runs on.
- `Pdp`: weak fairness of a check that has begun and of the two steps that follow an edit's
  commit, and of expiry, as every entry is written with SETEX. No request is ever assumed to be
  *sent*. Failures are never fair. `HistoryFairSpec` is the same with the history variables.
- `Business`: weak fairness of a request that has begun; and of `Unavailable` only where the
  PDP has no answer to give because `decide` raises. The timeout of the PEP guarantees that a
  question ends.
- `AuthSession`: weak fairness of the handler steps; and for each user, tenant and role the
  claims end or are issued anew (`EndOf`): tokens of a role do expire even when others keep
  coming, and a claim that is not renewed ends. Nobody is assumed to log out, and a session may
  be refreshed for ever.
- `Provisioning`: weak fairness of each transaction's next statement, once begun; a statement
  that waits in Postgres goes on when what it waits for has ended. `Begin` and `Abort` are not
  fair.

## 6. Proofs

`RoleClosureProofs` (for all finite or infinite sets `Role` and `Perm`, no assumption):

- `TypeCorrect`: `Spec => []TypeOK`.
- `WalkIsCorrect`: `Spec => []ReturnsReachable`. `ReturnsReachable` says something only at the
  end of the walk. The inductive invariant says what holds in between: the closure lies
  between the subject's roles and the reachable roles, and the children of a role that has
  left the queue are in the closure. When the queue is empty the closure is then closed under
  inheritance, hence equal to the least such set.
- `NoRoleTwice`: `Spec => VisitedOnce`, from the part of the same invariant that says that
  what is queued is in the closure.

`PdpProofs` (for all values of the constants that satisfy `EngineAssumption` and
`PdpAssumption`; these say that `Evaluate` returns true, false or an exception, that bound
calls are calls, and that the initial tables are tables that satisfy their foreign keys):

- `TypeCorrect`: `Spec => []TypeOK`, with failures and loss of Redis' data. It needs
  `ForeignKeys` (what is granted is in the catalog) and `Holding` (a check that is about to
  store holds its own decision).
- `CacheIsCoherent`: `"flush" \notin Faults /\ Spec => []CacheCoherent`. The property speaks
  of the cache only, but what is in it was put together over many steps in which edits were
  committed. The inductive invariant `IInv` follows a decision on its way:
  - `NotAhead`: no check and no entry has an epoch later than the current one. This is the
    part that a loss of the counters breaks, and the reason for the hypothesis.
  - `EntryTenant`: an entry belongs to the tenant of the check that made it.
  - `ReadsFresh`: as long as the epoch a check has read is current and no edit was committed
    since, the rows it has read so far are those of the tables now.
  - `DecisionFresh`: under the same condition, the decision it holds is one the tables
    give now.
  - `CacheCoherent` itself.
- `EditsDoInvalidate`: `Faults = {} /\ Spec => []EditsInvalidate`, from `IInv` and the fact that
  without failures a tenant is dirty only while one of its edits is on its way to its INCR.
- `ServedDecisionsAreAudited`: `Spec => []ServedIsAudited`, from `OnRecord`: each entry
  of the cache and each decision held has its audit row. It holds under every failure, as the
  row is committed before the entry is stored.

- `CurrentAnswers`: `"flush" \notin Faults /\ OneCallPerKey /\ Spec => []AnswersAreCurrent`.
  `OneCallPerKey` says that no two requests differ only in what the cache key leaves out, the
  roles, org unit and environment; `pdp_demoted` shows that it cannot be dropped. `AInv` adds to
  `IInv` that calls come from requests and that an entry has the key of its own call, so that a
  hit is a decision for the same call.
- `CatalogNeedsNone`: `Spec => CatalogNeedsNoBump`. What is granted is in the catalog already
  (`ForeignKeys`), so a new permission is one that no role or member has.
- `EditsDoStayMonotone`: `Spec => EditsAreMonotone`. `ClosureGrows` and `GrantsGrow` say that a
  larger hierarchy reaches more roles and more grants; `AllowedWhen` reduces an allow to a
  condition on grants and policies that is monotone in the first, and `PolicyRestricts` treats
  a new policy.

Every step lemma has one step for each action of `Next`. The lemma `EditShape` reduces
the eleven administration endpoints to two shapes, "adds to the catalog" and "commits tables
of the right type", so that they are treated once.

`PdpServiceProofs` (under the assumptions of `PdpProofs`):

- `PdpKeepsItsPromise`: `"flush" \notin Faults /\ HistorySpec => PromiseKept`. The difficult step
  is `Hit`: an entry was made by another check from tables that were in *that* check's past, and
  it has to be shown that they are in the past of the one that is answered. Both have read the
  same epoch. `HInv` therefore compares checks of one epoch:
  - `NowCounts`: the tables of now are recent, and in the past of whoever runs.
  - `PastIsRecent`, `RecentIsPast`: while the epoch a check read is current, its past is within
    the recent tables, and as long as it runs the recent tables are within its past.
  - `SharedPast`: what is in the past of one check is in that of every other check of the same
    tenant and epoch that still runs. This outlasts the epoch, which the first two do not.
  - `ReadsCount`, `HeldCounts`, `EntriesCount`: the rows a check has read, the decision it holds
    and the entries of the cache come from tables in the past of the check that made them.
  - `Unanswered`, `SeenKeyed`, types, and `IInv` and `OnRecord` of `PdpProofs`.
  Each action is then shown to be the action of `DecisionService` in the table of section 3.

`BusinessProofs` (for all values of the constants that satisfy `EngineAssumption` and
`BusinessAssumption`: requests and documents have their types, payslips are not settled, the
documents at the start have different ids):

- `TypeCorrect`: `Spec => []TypeOK`.
- `SettledOnlyByAllowed`: `Spec => []SettledByAllowed`, and `ShownOnlyIfAllowed`:
  `Spec => []ShownByAllowed`. `Settle` marks the row that has the id *now*, whereas the PDP was
  asked about the row that was loaded then. That they are the same document but for status and
  approver is what the inductive invariant carries from one to the other:
  - `IdsUnique`: one document for each id.
  - `HeldVisible`: what a request holds has its kind and tenant, and is still there with
    the same attributes.
  - `Stages`: at each point of a handler, whether it holds a document and which, and whether
    the PDP has allowed its call.
  - `ShownAllowed`: what a payslip list has gathered so far was allowed one by one.
- `ChangesOnlyIfAllowed`: `Spec => OnlyAllowedChange`, from the same invariant: `InsertCreates`,
  `SettleSettles` and `ShowShows` say of the three actions that change anything which of the
  three changes of the property they are.

`SeedBusinessProofs` (in addition `SeedAssumption`: every table a tenant may have holds the
seeded policies, with any roles and grants, and the two conditions are evaluated as the
evaluator does):

- `OneCondition`, `SeedApplicable` and `SeedDecision` lift the rule through the engine: an
  allow for approve, issue or the reading of a payslip implies its condition, since no seeded
  policy denies and all that apply have the same condition.
- `DutiesAreSeparate`: `Spec => []SettlementsKeepTheRule`, and `PayslipsStayPrivate`:
  `Spec => []PayslipsArePrivate`. The invariant of `BusinessProofs` leads from a document to an
  audited allow; `RuleKept` from the audited allow to a request whose token satisfies the
  condition, `PayslipsOpen` (no handler settles a payslip) and `ShownKind` to the right policy.
  The cache does not know the roles and org unit of a token, so the request that satisfied the
  condition may be an earlier one of the same user: this is why the two properties say
  "asks, or has asked".

`AuthSessionProofs` (for all values of the constants that satisfy `AuthAssumption`):

- `TypeCorrect`: `Spec => []TypeOK`.
- `TokensDoStayInTenant`: `Spec => []TokensStayInTenant`. Roles travel from the assignments
  through a request into a session and a token, so the inductive invariant has one part for
  each place: `AssignedWithin`, `SessionsWithin`, `RequestsWithin`, and the property.
- `EmptyTenantsDoStayEmpty`: `Spec => []EmptyTenantsStayEmpty`, from `StillEmpty`: a tenant
  that begins without members has none, so by `TokensStayInTenant` nobody has a token for it,
  and nobody can add the first one.
- `LogoutStaysFinal`: `Spec => LogoutIsFinal`. Session ids are random, in the model fresh;
  `GoneStep` shows that a session that is gone stays so and that the set of refreshes that had
  read it only shrinks.
- `PowerDoesEndForGood`: `Spec => PowerEndsForGood`. `NoneAssigned`, `NoneIssued` and
  `NonePending` are the places a role can be, the last with the calls that were accepted;
  `PowerStep` shows that each action takes roles only from one of them, that a call is accepted
  only with a token that has the role, and that an assignment needs a call that was accepted.

`DecideProofs` (for all values of the constants that satisfy `DslAssumption` and
`InputsAssumption`: trees have finite height, contexts are closed under leaving out, `Evaluate` and
`Asking` satisfy their equations, inputs have their types):

- `DecideRefinesOutcomes`: `DecideSpec => []DecidesAsEngine`. `WalkIsCorrect` is what makes the
  closure of `AuthzEngine` the one that the walk finds (`SamePermissions`). The inductive
  invariant `DInv` adds to the one of `RoleClosureProofs` that a policy which a loop has left
  behind was false, that the second loop runs only where no deny policy fires, and that a
  decision has its `Reason`; `AllowStageHas` and `PolicyOutcomesHas` lead from the reason to
  `Outcomes`.
- `SilenceNeverGains`: `DecideSpec => []SilenceGainsNothing`. What a comparison makes of fewer
  attributes (`SilentComparison`) is lifted to all trees by induction on their height
  (`Silence`): a condition of `Asking` that is false is not true with fewer attributes. The
  induction takes the set of counterexamples and a member of it with nothing of it inside
  (`Shallowest`, from the well-foundedness of the natural numbers), so that no theorem
  with an operator parameter is needed. That the statement is about false, not about "not true",
  matters: an exception in one part may hide a match in another.

`ProvisioningProofs` (for all values of the constants that satisfy `ProvisioningAssumption`: any
transactions with any jobs of `Job`, and the names of sessions are not tenants):

- `TypeCorrect`: `Spec => []TypeOK`.
- `SeededOnceAlways`: `Spec => []SeededOnce`. Nothing is committed before the first seeding
  commits: every endpoint needs an administrator, whom the seeding makes. Until then
  `First` says that a seeding has inserted a row for each statement it has passed, the first of
  which has a unique key, and `Exclusive` that only one transaction can hold that row: so only
  one seeding is past its first statement. Its commit makes all the rows at once (`Settled`), and
  from then on `Again` says that a seeding inserts only what was deleted.
- `GrantsAlwaysComeWithPolicies`: `Spec => []GrantsComeWithPolicies`, from `Settled`.
- `DeletedStaysDeletedAlways`: `Spec => []DeletedStaysDeleted`. What a commit stores is what is
  there at that moment (`Kept`) or its own new rows, and a deleted row was made by another
  transaction, which had committed before it was loaded (`Loaded`).
- `AnsweredUpdatesAlwaysHold`: `Spec => []AnsweredUpdatesHold`. The property looks at an update
  that has committed; `Drift` says what holds while it runs: a column is as the update found it,
  or was written by a transaction that committed since and was asked to write it. `Updated`
  says that its UPDATE writes the columns it answers with.
- `TenantsStayApart`: `Spec => TenantsApart`, from `Apart`: what a transaction holds is
  in its own scope.

Only model-checked: liveness (`Terminates`, `StalenessEnds`, `RequestsEnd`,
`RevocationTakesEffect`, `SuspensionTakesEffect`, `TransactionsEnd`), which is out of reach of
the prover, as is everything about `ENABLED`; and that the recursive `MCEvaluate` satisfies the
equation of `DslAssumption`, which TLC evaluates on its trees and contexts: that recursion over
data defines something cannot be proved here.

## 7. Where the code and its documentation disagree

With a run:

| Run | Documentation | Code |
|---|---|---|
| `pdp_demoted` | a demotion takes effect at the next token refresh (`docs/DESIGN.md:639`) | roles are not in the cache key and a role assignment bumps no epoch: the old allow is served for up to 15 s after the refresh |
| `pdp_lost_bump` | "a single change invalidates ALL cached decisions for that tenant instantly" (`cache.py:45`) | the INCR follows the commit and may be lost; nothing retries it |
| `pdp_flush` | "Redis is a cache/session store (loss-tolerant)" (`docs/DESIGN.md:63`) | a lost counter starts from 0, old epochs come back, with a check that was running meanwhile stale decisions too |
| `pdp_torn` | "Deny by default; explicit deny wins" (`engine.py:181`) | the SELECTs of one decision fall around two edits, and it allows what neither state of the tables allows |

Met while modelling, without a run because they are visible in one place:

- `docs/DESIGN.md:585` describes what happens when Redis is down as a fallback to the
  database; in the code the exception of the Redis call is a 500 (`CheckFails`).
- `docs/DESIGN.md:632` has every mutation audited; `create_permission` of Authz and
  `create_tenant`, `create_user` and `create_org_unit` of Auth write no audit row.
- `models.py:131` calls the role hierarchy a DAG; the endpoint rejects self-loops only.
- `approve_expense` of an expense that is approved already overwrites its approver.
- `docs/CODE-WALKTHROUGH.md:834` lists `env.` as a prefix of attribute paths; `decide` names that
  part of the context `environment`, so an `env.` path is always None.
- `services/common/seed.py:18` says "Safe to run repeatedly". That holds while nobody else makes
  rows of the same name: after a second tenant, org unit or policy of a seeded name (the
  endpoints allow it), the lookup raises `MultipleResultsFound` and the seeding fails. It also
  sets the condition of a seeded policy back that an administrator has changed. And when a
  seeded policy was deleted, two seedings beside one another both insert it, after which the
  lookup of every later one raises: `policies` has no UNIQUE constraint.
- `db.py:79` says that a tenant table read in an `app_session` gives zero rows. On a connection
  that has served a `tenant_session`, the setting is the empty string, and the cast to uuid
  in the policy fails instead. No code reads a tenant table that way.
- A policy's version counts its updates, but two that overlap may both answer the same number.
- Two missing attributes are equal: `eq` of two paths is true for a caller who sends neither.
- `create_org_unit` and `add_member` take the id of an org unit without looking at its tenant.

## 8. What is not modelled

- **The SQL of `bootstrap.py`**, which runs once before any service and creates database roles,
  tables, grants and the RLS policies: what a session shows is modelled as a filter on the
  tenant (`Visible`); that the SQL says this is not. The unique constraints are in `Unique`.
- **The INCR that follows the seeding** (`seed.py:306-311`): after the commit the seeding bumps the
  epoch of both tenants and swallows a failure. `Provisioning` has no cache, and no edit of `Pdp`
  is a seeding, so nothing here is said of decisions cached before a seeding that changes
  tables, a second one that resets a policy for instance.
- **Policies that raise in `Business`**: the seeded conditions never do, so the run `business` does
  not reach `Unavailable` for that reason; `RequestsEnd` of `pdp_faults` covers it at the PDP. Two
  users without an org unit are not in the run either; the theorems cover them.
- **Deadlock detection of Postgres**: a transaction that it aborts is one that takes `Abort`.
- **Details of the language**: operands that are objects or booleans, floating-point numbers,
  and strings that are not prefixes of one another.
- **Cryptography** of tokens and passwords: a token that was issued and has not expired is
  accepted, no other is.
- **Reads of the PAP and of Auth** (lists of roles, permissions, policies, members, audit rows),
  which change nothing.
- **Real time**: a TTL is an event that happens at some point; that an entry lives for 15 s or
  a token for 15 min is not said, only that each ends.
- **UI, health probes, configuration, scripts, Docker files**: no state the services depend on.
