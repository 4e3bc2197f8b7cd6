------------------------- MODULE AuthSessionProofs -------------------------
(***************************************************************************)
(* What AuthSession promises about tokens and sessions, for any users,     *)
(* tenants and roles and any number of concurrent requests.                *)
(***************************************************************************)
EXTENDS AuthSession, SequenceTheorems, TLAPS

Belongs(u, t) == t \in ToSet(joined[u])

OwnRoles(t, roles) == \A r \in roles : RoleTenant[r] = t

(* What a request holds between two of its statements. *)
Scoped(q) ==
  /\ q.pc \in {"roles", "store"} => Belongs(q.user, q.tenant)
  /\ q.pc = "store" => OwnRoles(q.tenant, q.roles)
  /\ q.pc \in {"refresh", "mint"} => Belongs(q.session.user, q.session.tenant)
  /\ q.pc = "mint" => OwnRoles(q.session.tenant, q.roles)
  /\ q.pc = "manage" => \E u \in User : Belongs(u, q.tenant)

AssignedWithin == \A a \in assigned : RoleTenant[a[3]] = a[2]

SessionsWithin == \A s \in sessions : Belongs(s.user, s.tenant)

RequestsWithin == \A i \in Req : Scoped(req[i])

IInv == TypeOK /\ AssignedWithin /\ SessionsWithin /\ RequestsWithin /\ TokensStayInTenant

----------------------------------------------------------------------------

LEMMA AppendKeeps ==
  ASSUME NEW S, NEW s \in Seq(S), NEW x \in S
  PROVE  /\ Append(s, x) \in Seq(S)
         /\ ToSet(Append(s, x)) = ToSet(s) \cup {x}
<1>1. Append(s, x) \in Seq(S) /\ Len(Append(s, x)) = Len(s) + 1
  BY AppendProperties
<1>2. /\ \A k \in 1 .. Len(s) : Append(s, x)[k] = s[k]
      /\ Append(s, x)[Len(s) + 1] = x
  BY AppendProperties
<1>3. DOMAIN s = 1 .. Len(s) /\ DOMAIN Append(s, x) = 1 .. (Len(s) + 1) /\ Len(s) \in Nat
  BY <1>1, LenProperties
<1>4. ToSet(Append(s, x)) \subseteq ToSet(s) \cup {x}
  BY <1>2, <1>3 DEF ToSet
<1>5. ToSet(s) \cup {x} \subseteq ToSet(Append(s, x))
  BY <1>2, <1>3 DEF ToSet
<1>6. QED
  BY <1>1, <1>4, <1>5

LEMMA RolesOfOwn ==
  ASSUME TypeOK, AssignedWithin, NEW u, NEW t
  PROVE  RolesOf(u, t) \in SUBSET Role /\ OwnRoles(t, RolesOf(u, t))
BY DEF RolesOf, OwnRoles, AssignedWithin, TypeOK

LEMMA InitInv == Init => IInv
<1> SUFFICES ASSUME Init PROVE IInv
  OBVIOUS
<1>1. InitAssigned \subseteq User \X Tenant \X Role /\ AssignedWithin
  BY AuthAssumption DEF Init, AssignedWithin
<1>2. TypeOK
  BY <1>1, AuthAssumption DEF Init, TypeOK, Request, Idle
<1>3. RequestsWithin
  BY DEF Init, RequestsWithin, Scoped, Idle
<1>4. QED
  BY <1>1, <1>2, <1>3 DEF IInv, Init, SessionsWithin, TokensStayInTenant

----------------------------------------------------------------------------

(* Memberships are added and none is removed. *)
LEMMA JoinedGrows ==
  ASSUME TypeOK, Next
  PROVE  \A u \in User : ToSet(joined[u]) \subseteq ToSet(joined'[u])
<1>1. ASSUME NEW i \in Req, NEW u \in User, NEW t \in Tenant, AddMember(i, u, t)
      PROVE  \A v \in User : ToSet(joined[v]) \subseteq ToSet(joined'[v])
  BY <1>1, AppendKeeps DEF AddMember, TypeOK
<1>2. ASSUME UNCHANGED joined PROVE \A u \in User : ToSet(joined[u]) \subseteq ToSet(joined'[u])
  BY <1>2
<1>3. QED
  BY <1>1, <1>2 DEF Next, Serve, Manage, accounts, ReadMembership, NoMembership, ReadRoles,
     StoreRefresh, RefreshRoles, Mint, RefuseRefresh, Login, SelectTenant, GetRefresh, Logout,
     ExpireSession, RequireTenantAdmin, AssignRole, UnassignRole, RefuseManage, Disable,
     ExpireIdentity, Suspend, ExpireToken

----------------------------------------------------------------------------
(* Types *)

LEMMA TypeStep == TypeOK /\ [Next]_vars => TypeOK'
<1> SUFFICES ASSUME TypeOK, [Next]_vars PROVE TypeOK'
  OBVIOUS
<1>1. ASSUME NEW i \in Req, NEW u \in User, Login(i, u) PROVE TypeOK'
  <2>1. joined[u] \in Seq(Tenant)
    BY DEF TypeOK
  <2>2. \A k \in DOMAIN joined[u] : joined[u][k] \in Tenant
    BY <2>1, LenProperties
  <2>3. ASSUME NEW k \in DOMAIN joined[u],
               req' = [req EXCEPT ![i] = [pc |-> "member", user |-> u,
                                          tenant |-> joined[u][k], login |-> TRUE]]
        PROVE  req' \in [Req -> Request]
    <3>1. [pc |-> "member", user |-> u, tenant |-> joined[u][k], login |-> TRUE] \in Request
      BY <2>2 DEF Request
    <3>2. QED
      BY <2>3, <3>1 DEF TypeOK
  <2>4. \/ req' = req
        \/ \E k \in DOMAIN joined[u] :
             req' = [req EXCEPT ![i] = [pc |-> "member", user |-> u,
                                        tenant |-> joined[u][k], login |-> TRUE]]
    BY <1>1 DEF Login
  <2>5. req' \in [Req -> Request]
    BY <2>3, <2>4 DEF TypeOK
  <2>6. QED
    BY <1>1, <2>5 DEF Login, TypeOK, accounts
<1>2. ASSUME NEW i \in Req, NEW u \in User, NEW t \in Tenant, SelectTenant(i, u, t)
      PROVE  TypeOK'
  BY <1>2 DEF SelectTenant, TypeOK, Request, accounts
<1>3. ASSUME NEW i \in Req, ReadMembership(i) PROVE TypeOK'
  BY <1>3 DEF ReadMembership, TypeOK, Request, Idle, accounts
<1>4. ASSUME NEW i \in Req, NoMembership(i) PROVE TypeOK'
  BY <1>4 DEF NoMembership, TypeOK, Request, accounts
<1>5. ASSUME NEW i \in Req, ReadRoles(i) PROVE TypeOK'
  BY <1>5 DEF ReadRoles, RolesOf, TypeOK, Request, Idle, accounts
<1>6. ASSUME NEW i \in Req, StoreRefresh(i) PROVE TypeOK'
  <2>1. req[i].user \in User /\ req[i].tenant \in Tenant /\ req[i].roles \in SUBSET Role
    BY <1>6 DEF StoreRefresh, TypeOK, Request, Idle
  <2>2. sessions' \subseteq Session /\ tokens' \subseteq AccessToken
    BY <1>6, <2>1 DEF StoreRefresh, TypeOK, Session, AccessToken
  <2>3. issued' \subseteq SessionId /\ identity' \subseteq User
    BY <1>6, <2>1 DEF StoreRefresh, TypeOK
  <2>4. req' \in [Req -> Request]
    BY <1>6 DEF StoreRefresh, TypeOK, Request
  <2>5. QED
    BY <1>6, <2>2, <2>3, <2>4 DEF StoreRefresh, TypeOK, accounts
<1>7. ASSUME NEW i \in Req, NEW s \in sessions, GetRefresh(i, s) PROVE TypeOK'
  BY <1>7 DEF GetRefresh, TypeOK, Request, accounts
<1>8. ASSUME NEW i \in Req, RefreshRoles(i) PROVE TypeOK'
  BY <1>8 DEF RefreshRoles, RolesOf, TypeOK, Request, Idle, accounts
<1>9. ASSUME NEW i \in Req, Mint(i) PROVE TypeOK'
  <2>1. req[i].session \in Session /\ req[i].roles \in SUBSET Role
    BY <1>9 DEF Mint, TypeOK, Request, Idle
  <2>2. tokens' \subseteq AccessToken
    BY <1>9, <2>1 DEF Mint, TypeOK, Session, AccessToken
  <2>3. QED
    BY <1>9, <2>2 DEF Mint, TypeOK, Request, accounts
<1>10. ASSUME NEW i \in Req, RefuseRefresh(i) PROVE TypeOK'
  BY <1>10 DEF RefuseRefresh, TypeOK, Request, accounts
<1>11. ASSUME NEW i \in Req, NEW u \in User, NEW t \in Tenant, AddMember(i, u, t) PROVE TypeOK'
  BY <1>11, AppendKeeps DEF AddMember, TypeOK, Request
<1>12. ASSUME NEW i \in Req, NEW u \in User, NEW t \in Tenant, NEW r \in Role,
              AssignRole(i, u, t, r) \/ UnassignRole(i, u, t, r)
       PROVE  TypeOK'
  BY <1>12 DEF AssignRole, UnassignRole, TypeOK, Request
<1>13. ASSUME NEW s \in sessions, Logout(s) \/ ExpireSession(s) PROVE TypeOK'
  BY <1>13 DEF Logout, ExpireSession, TypeOK, accounts
<1>14. ASSUME NEW u \in User, NEW t \in Tenant, Suspend(u, t) PROVE TypeOK'
  BY <1>14 DEF Suspend, TypeOK
<1>15. ASSUME NEW u \in User, Disable(u) \/ ExpireIdentity(u) PROVE TypeOK'
  BY <1>15 DEF Disable, ExpireIdentity, TypeOK, accounts
<1>16. ASSUME NEW tok \in tokens, ExpireToken(tok) PROVE TypeOK'
  BY <1>16 DEF ExpireToken, TypeOK, accounts
<1>17. ASSUME NEW i \in Req, NEW t \in Tenant, RequireTenantAdmin(i, t) PROVE TypeOK'
  BY <1>17 DEF RequireTenantAdmin, TypeOK, Request, accounts
<1>18. ASSUME NEW i \in Req, RefuseManage(i) PROVE TypeOK'
  BY <1>18 DEF RefuseManage, TypeOK, Request, accounts
<1>19. CASE UNCHANGED vars
  BY <1>19 DEF vars, accounts, TypeOK
<1>20. QED
  BY <1>1, <1>2, <1>3, <1>4, <1>5, <1>6, <1>7, <1>8, <1>9, <1>10, <1>11, <1>12, <1>13, <1>14,
     <1>15, <1>16, <1>17, <1>18, <1>19 DEF Next, Serve, Manage

(* Types, for every value of the constants. *)
THEOREM TypeCorrect == Spec => []TypeOK
<1>1. Init => TypeOK
  BY InitInv DEF IInv
<1>2. QED
  BY <1>1, TypeStep, PTL DEF Spec

----------------------------------------------------------------------------
(* Tenants *)

(* What was in scope stays in scope, as memberships are never removed. *)
LEMMA ScopeKept ==
  ASSUME TypeOK, Next
  PROVE  /\ \A u \in User : \A t : Belongs(u, t) => Belongs(u, t)'
         /\ \A q \in Request : Scoped(q) => Scoped(q)'
BY JoinedGrows DEF Belongs, Scoped, OwnRoles, Request, Session, Idle

(* What an action does not add to is still in scope. *)
LEMMA Kept ==
  ASSUME IInv, Next
  PROVE  /\ assigned' \subseteq assigned => AssignedWithin'
         /\ sessions' \subseteq sessions => SessionsWithin'
         /\ tokens' \subseteq tokens => TokensStayInTenant'
         /\ req' = req => RequestsWithin'
<1>1. \A u \in User : \A t : Belongs(u, t) => Belongs(u, t)'
  BY ScopeKept DEF IInv
<1>2. \A s \in sessions : s.user \in User
  BY DEF IInv, TypeOK, Session
<1>3. \A tok \in tokens : tok.user \in User
  BY DEF IInv, TypeOK, AccessToken
<1>4. assigned' \subseteq assigned => AssignedWithin'
  BY DEF IInv, AssignedWithin
<1>5. sessions' \subseteq sessions => SessionsWithin'
  BY <1>1, <1>2 DEF IInv, SessionsWithin
<1>6. tokens' \subseteq tokens => TokensStayInTenant'
  BY <1>1, <1>3 DEF IInv, TokensStayInTenant, Belongs
<1>7. req' = req => RequestsWithin'
  BY ScopeKept DEF IInv, TypeOK, RequestsWithin
<1>8. QED
  BY <1>4, <1>5, <1>6, <1>7

(* A step of one request. *)
LEMMA OneRequest ==
  ASSUME IInv, Next, NEW i \in Req, NEW q \in Request, req' = [req EXCEPT ![i] = q], Scoped(q)
  PROVE  RequestsWithin'
<1>1. ASSUME NEW j \in Req PROVE Scoped(req[j])'
  <2>1. CASE j = i
    <3>1. req'[j] = q
      BY <2>1 DEF IInv, TypeOK
    <3>2. QED
      BY <3>1, ScopeKept DEF IInv
  <2>2. CASE j # i
    <3>1. req'[j] = req[j] /\ req[j] \in Request /\ Scoped(req[j])
      BY <2>2 DEF IInv, TypeOK, RequestsWithin
    <3>2. QED
      BY <3>1, ScopeKept DEF IInv
  <2>3. QED
    BY <2>1, <2>2
<1>2. QED
  BY <1>1 DEF RequestsWithin

(* A new token that is in scope. *)
LEMMA OneToken ==
  ASSUME IInv, Next, NEW tok \in AccessToken, tokens' = tokens \cup {tok},
         Belongs(tok.user, tok.tenant), OwnRoles(tok.tenant, tok.roles)
  PROVE  TokensStayInTenant'
<1>1. \A u \in User : \A t : Belongs(u, t) => Belongs(u, t)'
  BY ScopeKept DEF IInv
<1>2. tok.user \in User /\ \A x \in tokens : x.user \in User
  BY DEF IInv, TypeOK, AccessToken
<1>3. QED
  BY <1>1, <1>2 DEF IInv, TokensStayInTenant, Belongs, OwnRoles

LEMMA IdleScoped == Idle \in Request /\ Scoped(Idle)
BY DEF Idle, Request, Scoped

LEMMA ScopeStep ==
  ASSUME IInv, Next
  PROVE  AssignedWithin' /\ SessionsWithin' /\ RequestsWithin' /\ TokensStayInTenant'
<1> DEFINE Goal == AssignedWithin' /\ SessionsWithin' /\ RequestsWithin' /\ TokensStayInTenant'
<1>0. TypeOK
  BY DEF IInv
<1>1. ASSUME NEW i \in Req, NEW u \in User, Login(i, u) PROVE Goal
  <2>1. CASE req' = req
    BY <1>1, <2>1, Kept DEF Login, accounts
  <2>2. CASE \E k \in DOMAIN joined[u] :
               req' = [req EXCEPT ![i] = [pc |-> "member", user |-> u,
                                          tenant |-> joined[u][k], login |-> TRUE]]
    <3>1. PICK k \in DOMAIN joined[u] :
            req' = [req EXCEPT ![i] = [pc |-> "member", user |-> u,
                                       tenant |-> joined[u][k], login |-> TRUE]]
      BY <2>2
    <3>2. joined[u][k] \in Tenant
      BY <1>0, LenProperties DEF TypeOK
    <3>3. [pc |-> "member", user |-> u, tenant |-> joined[u][k], login |-> TRUE] \in Request
      BY <3>2 DEF Request
    <3>4. Scoped([pc |-> "member", user |-> u, tenant |-> joined[u][k], login |-> TRUE])
      BY DEF Scoped
    <3>5. RequestsWithin'
      BY <3>1, <3>3, <3>4, OneRequest
    <3>6. QED
      BY <1>1, <3>5, Kept DEF Login, accounts
  <2>3. QED
    BY <1>1, <2>1, <2>2 DEF Login
<1>2. ASSUME NEW i \in Req, NEW u \in User, NEW t \in Tenant, SelectTenant(i, u, t)
      PROVE  Goal
  <2> DEFINE q == [pc |-> "member", user |-> u, tenant |-> t, login |-> FALSE]
  <2>1. q \in Request /\ Scoped(q)
    BY DEF Request, Scoped
  <2>2. RequestsWithin'
    BY <1>2, <2>1, OneRequest DEF SelectTenant
  <2>3. QED
    BY <1>2, <2>2, Kept DEF SelectTenant, accounts
<1>3. ASSUME NEW i \in Req, ReadMembership(i) PROVE Goal
  <2> DEFINE q == [pc |-> "roles", user |-> req[i].user, tenant |-> req[i].tenant,
                   login |-> req[i].login]
  <2>1. q \in Request
    BY <1>0, <1>3 DEF ReadMembership, TypeOK, Request, Idle
  <2>2. Scoped(q)
    BY <1>3 DEF ReadMembership, Scoped, Active, Belongs
  <2>3. req' = [req EXCEPT ![i] = q]
    BY <1>3 DEF ReadMembership
  <2>4. RequestsWithin'
    BY <2>1, <2>2, <2>3, OneRequest
  <2>5. QED
    BY <1>3, <2>4, Kept DEF ReadMembership, accounts
<1>4. ASSUME NEW i \in Req, NoMembership(i) \/ RefuseRefresh(i) \/ RefuseManage(i) PROVE Goal
  <2>1. RequestsWithin'
    BY <1>4, IdleScoped, OneRequest DEF NoMembership, RefuseRefresh, RefuseManage
  <2>2. QED
    BY <1>4, <2>1, Kept DEF NoMembership, RefuseRefresh, RefuseManage, accounts
<1>5. ASSUME NEW i \in Req, ReadRoles(i) PROVE Goal
  <2> DEFINE q == [pc |-> "store", user |-> req[i].user, tenant |-> req[i].tenant,
                   roles |-> RolesOf(req[i].user, req[i].tenant), login |-> req[i].login]
  <2>1. /\ RolesOf(req[i].user, req[i].tenant) \in SUBSET Role
        /\ OwnRoles(req[i].tenant, RolesOf(req[i].user, req[i].tenant))
    BY RolesOfOwn DEF IInv
  <2>2. q \in Request
    BY <1>0, <1>5, <2>1 DEF ReadRoles, TypeOK, Request, Idle
  <2>3. Scoped(q)
    BY <1>5, <2>1 DEF ReadRoles, Scoped, IInv, RequestsWithin
  <2>4. req' = [req EXCEPT ![i] = q]
    BY <1>5 DEF ReadRoles
  <2>5. RequestsWithin'
    BY <2>2, <2>3, <2>4, OneRequest
  <2>6. QED
    BY <1>5, <2>5, Kept DEF ReadRoles, accounts
<1>6. ASSUME NEW i \in Req, StoreRefresh(i) PROVE Goal
  <2> DEFINE q == req[i]
  <2>1. q.user \in User /\ q.tenant \in Tenant /\ q.roles \in SUBSET Role
    BY <1>0, <1>6 DEF StoreRefresh, TypeOK, Request, Idle
  <2>2. Belongs(q.user, q.tenant) /\ OwnRoles(q.tenant, q.roles)
    BY <1>6 DEF StoreRefresh, IInv, RequestsWithin, Scoped
  <2>3. PICK s \in SessionId :
          /\ sessions' = sessions \cup {[id |-> s, user |-> q.user, tenant |-> q.tenant]}
          /\ tokens' = tokens \cup
               {[user |-> q.user, tenant |-> q.tenant, roles |-> q.roles]}
    BY <1>6 DEF StoreRefresh
  <2>4. SessionsWithin'
    <3>1. joined' = joined
      BY <1>6 DEF StoreRefresh, accounts
    <3>2. QED
      BY <2>2, <2>3, <3>1 DEF IInv, SessionsWithin, Belongs
  <2>5. [user |-> q.user, tenant |-> q.tenant, roles |-> q.roles] \in AccessToken
    BY <2>1 DEF AccessToken
  <2>6. TokensStayInTenant'
    BY <2>2, <2>3, <2>5, OneToken
  <2>7. RequestsWithin'
    BY <1>6, IdleScoped, OneRequest DEF StoreRefresh
  <2>8. QED
    BY <1>6, <2>4, <2>6, <2>7, Kept DEF StoreRefresh, accounts
<1>7. ASSUME NEW i \in Req, NEW s \in sessions, GetRefresh(i, s) PROVE Goal
  <2> DEFINE q == [pc |-> "refresh", session |-> s]
  <2>1. q \in Request
    BY <1>0 DEF TypeOK, Request
  <2>2. Scoped(q)
    BY DEF Scoped, IInv, SessionsWithin
  <2>3. RequestsWithin'
    BY <1>7, <2>1, <2>2, OneRequest DEF GetRefresh
  <2>4. QED
    BY <1>7, <2>3, Kept DEF GetRefresh, accounts
<1>8. ASSUME NEW i \in Req, RefreshRoles(i) PROVE Goal
  <2> DEFINE s == req[i].session
             q == [pc |-> "mint", session |-> s, roles |-> RolesOf(s.user, s.tenant)]
  <2>1. /\ RolesOf(s.user, s.tenant) \in SUBSET Role
        /\ OwnRoles(s.tenant, RolesOf(s.user, s.tenant))
    BY RolesOfOwn DEF IInv
  <2>2. q \in Request
    BY <1>0, <1>8, <2>1 DEF RefreshRoles, TypeOK, Request, Idle
  <2>3. Scoped(q)
    BY <1>8, <2>1 DEF RefreshRoles, Scoped, IInv, RequestsWithin
  <2>4. req' = [req EXCEPT ![i] = q]
    BY <1>8 DEF RefreshRoles
  <2>5. RequestsWithin'
    BY <2>2, <2>3, <2>4, OneRequest
  <2>6. QED
    BY <1>8, <2>5, Kept DEF RefreshRoles, accounts
<1>9. ASSUME NEW i \in Req, Mint(i) PROVE Goal
  <2> DEFINE s == req[i].session
             tok == [user |-> s.user, tenant |-> s.tenant, roles |-> req[i].roles]
  <2>1. tok \in AccessToken
    BY <1>0, <1>9 DEF Mint, TypeOK, Request, Idle, Session, AccessToken
  <2>2. Belongs(s.user, s.tenant) /\ OwnRoles(s.tenant, req[i].roles)
    BY <1>9 DEF Mint, IInv, RequestsWithin, Scoped
  <2>3. TokensStayInTenant'
    BY <1>9, <2>1, <2>2, OneToken DEF Mint
  <2>4. RequestsWithin'
    BY <1>9, IdleScoped, OneRequest DEF Mint
  <2>5. QED
    BY <1>9, <2>3, <2>4, Kept DEF Mint, accounts
<1>10. ASSUME NEW i \in Req, NEW u \in User, NEW t \in Tenant, NEW r \in Role,
              AssignRole(i, u, t, r)
       PROVE  Goal
  <2>1. AssignedWithin'
    BY <1>10 DEF AssignRole, IInv, AssignedWithin
  <2>2. RequestsWithin'
    BY <1>10, IdleScoped, OneRequest DEF AssignRole
  <2>3. QED
    BY <1>10, <2>1, <2>2, Kept DEF AssignRole
<1>11. ASSUME NEW i \in Req, NEW u \in User, NEW t \in Tenant, NEW r \in Role,
              UnassignRole(i, u, t, r)
       PROVE  Goal
  <2>1. RequestsWithin'
    BY <1>11, IdleScoped, OneRequest DEF UnassignRole
  <2>2. QED
    BY <1>11, <2>1, Kept DEF UnassignRole
<1>12. ASSUME NEW i \in Req, NEW u \in User, NEW t \in Tenant, AddMember(i, u, t) PROVE Goal
  <2>1. RequestsWithin'
    BY <1>12, IdleScoped, OneRequest DEF AddMember
  <2>2. QED
    BY <1>12, <2>1, Kept DEF AddMember
<1>13. ASSUME NEW i \in Req, NEW t \in Tenant, RequireTenantAdmin(i, t) PROVE Goal
  <2> DEFINE q == [pc |-> "manage", tenant |-> t]
  <2>1. PICK tok \in tokens : tok.tenant = t
    BY <1>13 DEF RequireTenantAdmin, AdminOf
  <2>2. tok.user \in User /\ Belongs(tok.user, t)
    BY <1>0, <2>1 DEF IInv, TypeOK, AccessToken, TokensStayInTenant, Belongs
  <2>3. q \in Request /\ Scoped(q)
    BY <2>2 DEF Request, Scoped
  <2>4. RequestsWithin'
    BY <1>13, <2>3, OneRequest DEF RequireTenantAdmin
  <2>5. QED
    BY <1>13, <2>4, Kept DEF RequireTenantAdmin, accounts
<1>14. ASSUME NEW s \in sessions, Logout(s) \/ ExpireSession(s) PROVE Goal
  BY <1>14, Kept DEF Logout, ExpireSession, accounts
<1>15. ASSUME NEW u \in User, Disable(u) \/ ExpireIdentity(u) PROVE Goal
  BY <1>15, Kept DEF Disable, ExpireIdentity, accounts
<1>16. ASSUME NEW tok \in tokens, ExpireToken(tok) PROVE Goal
  BY <1>16, Kept DEF ExpireToken, accounts
<1>17. ASSUME NEW u \in User, NEW t \in Tenant, Suspend(u, t) PROVE Goal
  BY <1>17, Kept DEF Suspend
<1>18. QED
  BY <1>1, <1>2, <1>3, <1>4, <1>5, <1>6, <1>7, <1>8, <1>9, <1>10, <1>11, <1>12, <1>13, <1>14,
     <1>15, <1>16, <1>17 DEF Next, Serve, Manage

LEMMA InvStep == IInv /\ [Next]_vars => IInv'
<1> SUFFICES ASSUME IInv, [Next]_vars PROVE IInv'
  OBVIOUS
<1>1. TypeOK'
  BY TypeStep DEF IInv
<1>2. CASE Next
  BY <1>1, <1>2, ScopeStep DEF IInv
<1>3. CASE UNCHANGED vars
  BY <1>3, <1>1 DEF vars, accounts, IInv, AssignedWithin, SessionsWithin, RequestsWithin, Scoped,
     TokensStayInTenant, Belongs, OwnRoles
<1>4. QED
  BY <1>2, <1>3

(* A token names a tenant its user is a member of, and only roles of that  *)
(* tenant (auth/main.py, _issue_session, refresh and assign_role).         *)
THEOREM TokensDoStayInTenant == Spec => []TokensStayInTenant
<1>1. IInv => TokensStayInTenant
  BY DEF IInv
<1>2. QED
  BY <1>1, InitInv, InvStep, PTL DEF Spec

Memberless(t) == \A u \in User : t \notin ToSet(InitJoined[u])

StillEmpty == \A t \in Tenant : Memberless(t) => \A u \in User : t \notin ToSet(joined[u])

(* Nobody has a token for an empty tenant, so no call to administer it was *)
(* accepted.                                                               *)
LEMMA NoAdministrator ==
  ASSUME IInv, StillEmpty, NEW t \in Tenant, Memberless(t), NEW i \in Req
  PROVE  ~AssertTenant(i, t)
BY DEF IInv, RequestsWithin, Scoped, Belongs, StillEmpty, AssertTenant

LEMMA EmptyStep == IInv /\ StillEmpty /\ [Next]_vars => StillEmpty'
<1> SUFFICES ASSUME IInv, StillEmpty, [Next]_vars PROVE StillEmpty'
  OBVIOUS
<1>1. ASSUME NEW i \in Req, NEW u \in User, NEW t \in Tenant, AddMember(i, u, t)
      PROVE  StillEmpty'
  <2>1. ~Memberless(t)
    BY <1>1, NoAdministrator DEF AddMember
  <2>2. \A v \in User : ToSet(joined'[v]) \subseteq ToSet(joined[v]) \cup {t}
    BY <1>1, AppendKeeps DEF AddMember, IInv, TypeOK
  <2>3. QED
    BY <2>1, <2>2 DEF StillEmpty, Memberless
<1>2. ASSUME UNCHANGED joined PROVE StillEmpty'
  BY <1>2 DEF StillEmpty, Memberless
<1>3. QED
  BY <1>1, <1>2 DEF Next, Serve, Manage, vars, accounts, ReadMembership, NoMembership, ReadRoles,
     StoreRefresh, RefreshRoles, Mint, RefuseRefresh, Login, SelectTenant, GetRefresh, Logout,
     ExpireSession, RequireTenantAdmin, AssignRole, UnassignRole, RefuseManage, Disable,
     ExpireIdentity, Suspend, ExpireToken

(* A tenant that has no members, such as one made by POST /tenants, never  *)
(* gets one through the endpoints.                                         *)
THEOREM EmptyTenantsDoStayEmpty == Spec => []EmptyTenantsStayEmpty
<1>1. Init => StillEmpty
  BY DEF Init, StillEmpty, Memberless
<1>2. StillEmpty => EmptyTenantsStayEmpty
  BY DEF StillEmpty, Memberless, EmptyTenantsStayEmpty
<1>3. QED
  BY <1>1, <1>2, InitInv, InvStep, EmptyStep, PTL DEF Spec

----------------------------------------------------------------------------
(* Sessions *)

Gone(s) == \A x \in sessions : x.id # s

LEMMA GoneStep ==
  ASSUME TypeOK, [Next]_vars, NEW s \in issued, Gone(s)
  PROVE  Gone(s)' /\ Refreshing(s)' \subseteq Refreshing(s)
<1> USE DEF Gone, Refreshing
<1>1. ASSUME NEW i \in Req, NEW u \in User, Login(i, u)
      PROVE  Gone(s)' /\ Refreshing(s)' \subseteq Refreshing(s)
  <2>1. \/ req' = req
        \/ \E k \in DOMAIN joined[u] :
             req' = [req EXCEPT ![i] = [pc |-> "member", user |-> u,
                                        tenant |-> joined[u][k], login |-> TRUE]]
    BY <1>1 DEF Login
  <2>2. Refreshing(s)' \subseteq Refreshing(s)
    BY <2>1 DEF TypeOK
  <2>3. QED
    BY <1>1, <2>2 DEF Login
<1>2. ASSUME NEW i \in Req, NEW u \in User, NEW t \in Tenant, SelectTenant(i, u, t)
      PROVE  Gone(s)' /\ Refreshing(s)' \subseteq Refreshing(s)
  BY <1>2 DEF SelectTenant, TypeOK
<1>3. ASSUME NEW i \in Req, ReadMembership(i) \/ NoMembership(i) \/ ReadRoles(i)
      PROVE  Gone(s)' /\ Refreshing(s)' \subseteq Refreshing(s)
  BY <1>3 DEF ReadMembership, NoMembership, ReadRoles, Idle, TypeOK
<1>4. ASSUME NEW i \in Req, StoreRefresh(i)
      PROVE  Gone(s)' /\ Refreshing(s)' \subseteq Refreshing(s)
  BY <1>4 DEF StoreRefresh, Idle, TypeOK
<1>5. ASSUME NEW i \in Req, NEW x \in sessions, GetRefresh(i, x)
      PROVE  Gone(s)' /\ Refreshing(s)' \subseteq Refreshing(s)
  BY <1>5 DEF GetRefresh, TypeOK
<1>6. ASSUME NEW i \in Req, RefreshRoles(i) \/ Mint(i) \/ RefuseRefresh(i)
      PROVE  Gone(s)' /\ Refreshing(s)' \subseteq Refreshing(s)
  BY <1>6 DEF RefreshRoles, Mint, RefuseRefresh, Idle, TypeOK
<1>7. ASSUME NEW x \in sessions, Logout(x) \/ ExpireSession(x)
      PROVE  Gone(s)' /\ Refreshing(s)' \subseteq Refreshing(s)
  BY <1>7 DEF Logout, ExpireSession
<1>8. ASSUME NEW i \in Req, NEW t \in Tenant, RequireTenantAdmin(i, t)
      PROVE  Gone(s)' /\ Refreshing(s)' \subseteq Refreshing(s)
  BY <1>8 DEF RequireTenantAdmin, TypeOK
<1>9. ASSUME NEW i \in Req, Manage(i)
      PROVE  Gone(s)' /\ Refreshing(s)' \subseteq Refreshing(s)
  <2>1. sessions' = sessions /\ req' = [req EXCEPT ![i] = Idle]
    BY <1>9 DEF Manage, RefuseManage, AddMember, AssignRole, UnassignRole
  <2>2. QED
    BY <2>1 DEF Idle, TypeOK
<1>10. ASSUME UNCHANGED <<sessions, req>>
      PROVE  Gone(s)' /\ Refreshing(s)' \subseteq Refreshing(s)
  BY <1>10
<1>11. QED
  BY <1>1, <1>2, <1>3, <1>4, <1>5, <1>6, <1>7, <1>8, <1>9, <1>10
     DEF Next, Serve, vars, Disable, ExpireIdentity, Suspend, ExpireToken

(* A session that was deleted neither comes back nor begins a refresh. *)
THEOREM LogoutStaysFinal == Spec => LogoutIsFinal
<1>1. TypeOK /\ [Next]_vars =>
        [\A s \in issued :
           (\A x \in sessions : x.id # s) =>
             /\ \A x \in sessions' : x.id # s
             /\ Refreshing(s)' \subseteq Refreshing(s)]_vars
  BY GoneStep DEF Gone
<1>2. QED
  BY <1>1, TypeCorrect, PTL DEF Spec, LogoutIsFinal

----------------------------------------------------------------------------
(* Administrators *)

NoneAssigned(t) == \A a \in assigned : a[2] = t => a[3] \notin AdminRoles

NoneIssued(t) == \A tok \in tokens : tok.tenant = t => tok.roles \cap AdminRoles = {}

(* A request that will not issue a token of an administrator of t, nor     *)
(* edit with the power of one.                                             *)
Harmless(q, t) ==
  /\ \/ q.pc = "store" /\ q.tenant = t
     \/ q.pc = "mint" /\ q.session.tenant = t
     => q.roles \cap AdminRoles = {}
  /\ ~(q.pc = "manage" /\ q.tenant = t)

NonePending(t) == \A i \in Req : Harmless(req[i], t)

LEMMA NoRoleNoPower ==
  ASSUME NEW t, NoneAssigned(t), NEW u PROVE RolesOf(u, t) \cap AdminRoles = {}
BY DEF NoneAssigned, RolesOf

LEMMA OneHarmless ==
  ASSUME TypeOK, NEW t, NonePending(t), NEW i \in Req, NEW q, req' = [req EXCEPT ![i] = q],
         Harmless(q, t)
  PROVE  NonePending(t)'
BY DEF NonePending, Harmless, TypeOK

LEMMA PowerStep ==
  ASSUME TypeOK, [Next]_vars, NEW t \in Tenant,
         NoneAssigned(t), NoneIssued(t), NonePending(t)
  PROVE  NoneAssigned(t)' /\ NoneIssued(t)' /\ NonePending(t)'
<1> DEFINE Goal == NoneAssigned(t)' /\ NoneIssued(t)' /\ NonePending(t)'
<1>0. ~AdminOf(t)
  BY DEF AdminOf, NoneIssued
<1>1. /\ assigned' \subseteq assigned => NoneAssigned(t)'
      /\ tokens' \subseteq tokens => NoneIssued(t)'
      /\ req' = req => NonePending(t)'
  BY DEF NoneAssigned, NoneIssued, NonePending, Harmless
<1>2. Harmless(Idle, t)
  BY DEF Idle, Harmless
<1>3. ASSUME NEW i \in Req, NEW u \in User, Login(i, u) PROVE Goal
  <2>1. CASE req' = req
    BY <1>1, <1>3, <2>1 DEF Login, accounts
  <2>2. ASSUME NEW k,
               req' = [req EXCEPT ![i] = [pc |-> "member", user |-> u,
                                          tenant |-> joined[u][k], login |-> TRUE]]
        PROVE  NonePending(t)'
    <3>1. Harmless([pc |-> "member", user |-> u, tenant |-> joined[u][k], login |-> TRUE], t)
      BY DEF Harmless
    <3>2. QED
      BY <2>2, <3>1, OneHarmless
  <2>3. QED
    BY <1>1, <1>3, <2>1, <2>2 DEF Login, accounts
<1>4. ASSUME NEW i \in Req, NEW u \in User, NEW x \in Tenant, SelectTenant(i, u, x) PROVE Goal
  <2>1. Harmless([pc |-> "member", user |-> u, tenant |-> x, login |-> FALSE], t)
    BY DEF Harmless
  <2>2. QED
    BY <1>1, <1>4, <2>1, OneHarmless DEF SelectTenant, accounts
<1>5. ASSUME NEW i \in Req, ReadMembership(i) PROVE Goal
  <2>1. Harmless([pc |-> "roles", user |-> req[i].user, tenant |-> req[i].tenant,
                  login |-> req[i].login], t)
    BY DEF Harmless
  <2>2. QED
    BY <1>1, <1>5, <2>1, OneHarmless DEF ReadMembership, accounts
<1>6. ASSUME NEW i \in Req, NoMembership(i) \/ RefuseRefresh(i) PROVE Goal
  BY <1>1, <1>2, <1>6, OneHarmless DEF NoMembership, RefuseRefresh, accounts
<1>7. ASSUME NEW i \in Req, ReadRoles(i) PROVE Goal
  <2>1. Harmless([pc |-> "store", user |-> req[i].user, tenant |-> req[i].tenant,
                  roles |-> RolesOf(req[i].user, req[i].tenant), login |-> req[i].login], t)
    BY NoRoleNoPower DEF Harmless
  <2>2. QED
    BY <1>1, <1>7, <2>1, OneHarmless DEF ReadRoles, accounts
<1>8. ASSUME NEW i \in Req, StoreRefresh(i) PROVE Goal
  <2>1. Harmless(req[i], t) /\ req[i].pc = "store"
    BY <1>8 DEF NonePending, StoreRefresh
  <2>2. tokens' = tokens \cup {[user |-> req[i].user, tenant |-> req[i].tenant,
                                roles |-> req[i].roles]}
    BY <1>8 DEF StoreRefresh
  <2>3. NoneIssued(t)'
    BY <2>1, <2>2 DEF NoneIssued, Harmless
  <2>4. NonePending(t)'
    BY <1>2, <1>8, OneHarmless DEF StoreRefresh
  <2>5. QED
    BY <1>1, <1>8, <2>3, <2>4 DEF StoreRefresh, accounts
<1>9. ASSUME NEW i \in Req, NEW s \in sessions, GetRefresh(i, s) PROVE Goal
  <2>1. Harmless([pc |-> "refresh", session |-> s], t)
    BY DEF Harmless
  <2>2. QED
    BY <1>1, <1>9, <2>1, OneHarmless DEF GetRefresh, accounts
<1>10. ASSUME NEW i \in Req, RefreshRoles(i) PROVE Goal
  <2> DEFINE s == req[i].session
  <2>1. Harmless([pc |-> "mint", session |-> s, roles |-> RolesOf(s.user, s.tenant)], t)
    BY NoRoleNoPower DEF Harmless
  <2>2. QED
    BY <1>1, <1>10, <2>1, OneHarmless DEF RefreshRoles, accounts
<1>11. ASSUME NEW i \in Req, Mint(i) PROVE Goal
  <2>1. Harmless(req[i], t) /\ req[i].pc = "mint"
    BY <1>11 DEF NonePending, Mint
  <2>2. tokens' = tokens \cup {[user |-> req[i].session.user, tenant |-> req[i].session.tenant,
                                roles |-> req[i].roles]}
    BY <1>11 DEF Mint
  <2>3. NoneIssued(t)'
    BY <2>1, <2>2 DEF NoneIssued, Harmless
  <2>4. NonePending(t)'
    BY <1>2, <1>11, OneHarmless DEF Mint
  <2>5. QED
    BY <1>1, <1>11, <2>3, <2>4 DEF Mint, accounts
<1>12. ASSUME NEW i \in Req, NEW u \in User, NEW x \in Tenant, NEW r \in Role,
              AssignRole(i, u, x, r)
       PROVE  Goal
  <2>1. x # t /\ assigned' = assigned \cup {<<u, x, r>>}
    BY <1>12 DEF AssignRole, AssertTenant, NonePending, Harmless
  <2>2. NoneAssigned(t)'
    BY <2>1 DEF NoneAssigned
  <2>3. NonePending(t)'
    BY <1>2, <1>12, OneHarmless DEF AssignRole
  <2>4. QED
    BY <1>1, <1>12, <2>2, <2>3 DEF AssignRole
<1>13. ASSUME NEW i \in Req, NEW x \in Tenant, RequireTenantAdmin(i, x) PROVE Goal
  <2>1. x # t
    BY <1>0, <1>13 DEF RequireTenantAdmin
  <2>2. Harmless([pc |-> "manage", tenant |-> x], t)
    BY <2>1 DEF Harmless
  <2>3. QED
    BY <1>1, <1>13, <2>2, OneHarmless DEF RequireTenantAdmin, accounts
<1>14. ASSUME NEW i \in Req, NEW u \in User, NEW x \in Tenant, NEW r \in Role,
              UnassignRole(i, u, x, r)
       PROVE  Goal
  <2>1. NonePending(t)'
    BY <1>2, <1>14, OneHarmless DEF UnassignRole
  <2>2. QED
    BY <1>1, <1>14, <2>1 DEF UnassignRole
<1>15. ASSUME NEW i \in Req, NEW u \in User, NEW x \in Tenant, AddMember(i, u, x) PROVE Goal
  <2>1. NonePending(t)'
    BY <1>2, <1>15, OneHarmless DEF AddMember
  <2>2. QED
    BY <1>1, <1>15, <2>1 DEF AddMember
<1>16. ASSUME NEW i \in Req, RefuseManage(i) PROVE Goal
  BY <1>1, <1>2, <1>16, OneHarmless DEF RefuseManage, accounts
<1>17. ASSUME assigned' \subseteq assigned, tokens' \subseteq tokens, req' = req PROVE Goal
  BY <1>1, <1>17
<1>18. ASSUME NEW s \in sessions, Logout(s) \/ ExpireSession(s) PROVE Goal
  BY <1>17, <1>18 DEF Logout, ExpireSession, accounts
<1>19. ASSUME NEW u \in User, Disable(u) \/ ExpireIdentity(u) PROVE Goal
  BY <1>17, <1>19 DEF Disable, ExpireIdentity, accounts
<1>20. ASSUME NEW tok \in tokens, ExpireToken(tok) PROVE Goal
  BY <1>17, <1>20 DEF ExpireToken, accounts
<1>21. ASSUME NEW u \in User, NEW x \in Tenant, Suspend(u, x) PROVE Goal
  BY <1>17, <1>21 DEF Suspend
<1>22. CASE UNCHANGED vars
  BY <1>17, <1>22 DEF vars, accounts
<1>23. QED
  BY <1>3, <1>4, <1>5, <1>6, <1>7, <1>8, <1>9, <1>10, <1>11, <1>12, <1>13, <1>14, <1>15, <1>16,
     <1>18, <1>19, <1>20, <1>21, <1>22 DEF Next, Serve, Manage

(* Once no role assignment, no token and no request under way makes an     *)
(* administrator of a tenant or acts for one, none ever comes up again:    *)
(* the endpoints that trust the roles in a token (auth/main.py:94-99)      *)
(* cannot be used to get the power back once the last such token has       *)
(* expired and the last call accepted with one has ended.                  *)
THEOREM PowerDoesEndForGood == Spec => PowerEndsForGood
<1>1. \A t \in Tenant : NoAdmin(t) <=> NoneAssigned(t) /\ NoneIssued(t) /\ NonePending(t)
  BY DEF NoAdmin, NoneAssigned, NoneIssued, NonePending, Harmless, AssertTenant
<1>2. \A t \in Tenant : NoAdmin(t)' <=> NoneAssigned(t)' /\ NoneIssued(t)' /\ NonePending(t)'
  BY DEF NoAdmin, NoneAssigned, NoneIssued, NonePending, Harmless, AssertTenant
<1>3. TypeOK /\ [Next]_vars => [\A t \in Tenant : NoAdmin(t) => NoAdmin(t)']_vars
  BY <1>1, <1>2, PowerStep
<1>4. QED
  BY <1>3, TypeCorrect, PTL DEF Spec, PowerEndsForGood
=============================================================================
