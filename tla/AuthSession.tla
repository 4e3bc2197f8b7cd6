---------------------------- MODULE AuthSession ----------------------------
(***************************************************************************)
(* The auth service (services/auth/main.py): login, tenant selection,      *)
(* refresh and logout, over the memberships and role assignments that its  *)
(* management endpoints edit.                                              *)
(*                                                                         *)
(* Access tokens are stateless: one that was issued is good until it       *)
(* expires.  Refresh sessions live in Redis until logout or their TTL.     *)
(* The handlers that issue tokens read membership and roles in statements  *)
(* of their own, under READ COMMITTED, and the management endpoints run    *)
(* beside them.  Each id of Req is a thread that serves requests of these  *)
(* handlers one after the other.                                           *)
(***************************************************************************)
EXTENDS Sequences, SequencesExt

CONSTANTS
  User, Tenant,
  Role,         \* rows of roles; the id is global, the role is a tenant's
  RoleTenant,   \* RoleTenant[role], its tenant_id
  AdminRoles,   \* those with the name tenant_admin, one per tenant
  Req, SessionId,
  InitJoined, InitAssigned

VARIABLES
  joined,     \* user -> the tenants of its memberships, in order of joined_at
  suspended,  \* memberships with a status other than active: <<user, tenant>>
  disabled,   \* users with a status other than active
  assigned,   \* membership_roles: <<user, tenant, role>>
  sessions,   \* refresh sessions in Redis: [id, user, tenant]
  issued,     \* history: the session ids drawn so far
  identity,   \* users with a live identity token
  tokens,     \* the claims of the live access tokens
  req         \* thread -> the request it serves

accounts == <<joined, suspended, disabled, assigned>>
vars == <<accounts, sessions, issued, identity, tokens, req>>

Session == [id : SessionId, user : User, tenant : Tenant]

AccessToken == [user : User, tenant : Tenant, roles : SUBSET Role]

Idle == [pc |-> "idle"]

Request ==
  {Idle}
    \cup [pc : {"member"}, user : User, tenant : Tenant, login : BOOLEAN]
    \cup [pc : {"roles"}, user : User, tenant : Tenant, login : BOOLEAN]
    \cup [pc : {"store"}, user : User, tenant : Tenant, roles : SUBSET Role, login : BOOLEAN]
    \cup [pc : {"refresh"}, session : Session]
    \cup [pc : {"mint"}, session : Session, roles : SUBSET Role]
    \cup [pc : {"manage"}, tenant : Tenant]

ASSUME AuthAssumption ==
  /\ RoleTenant \in [Role -> Tenant]
  /\ AdminRoles \subseteq Role
  /\ InitJoined \in [User -> Seq(Tenant)]
  /\ InitAssigned \subseteq {a \in User \X Tenant \X Role :
                               a[2] \in ToSet(InitJoined[a[1]]) /\ RoleTenant[a[3]] = a[2]}

Init ==
  /\ joined = InitJoined
  /\ suspended = {}
  /\ disabled = {}
  /\ assigned = InitAssigned
  /\ sessions = {}
  /\ issued = {}
  /\ identity = {}
  /\ tokens = {}
  /\ req = [i \in Req |-> Idle]

----------------------------------------------------------------------------

Active(u, t) == t \in ToSet(joined[u]) /\ <<u, t>> \notin suspended

RolesOf(u, t) == {r \in Role : <<u, t, r>> \in assigned}

(* POST /auth/login, with the right password.  It issues an identity token *)
(* and, where there is an active membership, goes on to _issue_session     *)
(* for the earliest of them.                                               *)
Login(i, u) ==
  LET active == {k \in DOMAIN joined[u] : <<u, joined[u][k]>> \notin suspended}
  IN  /\ req[i] = Idle
      /\ u \notin disabled
      /\ \/ /\ active = {}
            /\ identity' = identity \cup {u}
            /\ UNCHANGED req
         \/ /\ \E k \in active :
                 /\ \A j \in active : k <= j
                 /\ req' = [req EXCEPT ![i] = [pc |-> "member", user |-> u,
                                              tenant |-> joined[u][k], login |-> TRUE]]
            /\ UNCHANGED identity
      /\ UNCHANGED <<accounts, sessions, issued, tokens>>

(* POST /auth/select-tenant and /auth/switch-tenant, with any token of u. *)
SelectTenant(i, u, t) ==
  /\ req[i] = Idle
  /\ u \in identity \/ \E tok \in tokens : tok.user = u
  /\ req' = [req EXCEPT ![i] = [pc |-> "member", user |-> u, tenant |-> t, login |-> FALSE]]
  /\ UNCHANGED <<accounts, sessions, issued, identity, tokens>>

(* _issue_session: the membership, *)
ReadMembership(i) ==
  /\ req[i].pc = "member"
  /\ Active(req[i].user, req[i].tenant)
  /\ req' = [req EXCEPT ![i] = [pc |-> "roles", user |-> @.user, tenant |-> @.tenant,
                                login |-> @.login]]
  /\ UNCHANGED <<accounts, sessions, issued, identity, tokens>>

(* without which the answer is a 403, for a login too; *)
NoMembership(i) ==
  /\ req[i].pc = "member"
  /\ ~Active(req[i].user, req[i].tenant)
  /\ req' = [req EXCEPT ![i] = Idle]
  /\ UNCHANGED <<accounts, sessions, issued, identity, tokens>>

(* its roles; *)
ReadRoles(i) ==
  /\ req[i].pc = "roles"
  /\ req' = [req EXCEPT ![i] = [pc |-> "store", user |-> @.user, tenant |-> @.tenant,
                                roles |-> RolesOf(@.user, @.tenant), login |-> @.login]]
  /\ UNCHANGED <<accounts, sessions, issued, identity, tokens>>

(* Mutant of StoreRefresh: the session does not say which tenant it is for. *)
StoreRefreshUnscoped(i) ==
  /\ req[i].pc = "store"
  /\ LET q == req[i]
     IN  \E s \in SessionId \ issued :
           /\ sessions' = sessions \cup {[id |-> s, user |-> q.user]}
           /\ issued' = issued \cup {s}
           /\ tokens' = tokens \cup {[user |-> q.user, tenant |-> q.tenant, roles |-> q.roles]}
           /\ identity' = IF q.login THEN identity \cup {q.user} ELSE identity
  /\ req' = [req EXCEPT ![i] = Idle]
  /\ UNCHANGED accounts

(* a refresh session under a new random id, and the answer. *)
StoreRefresh(i) ==
  /\ req[i].pc = "store"
  /\ LET q == req[i]
     IN  \E s \in SessionId \ issued :
           /\ sessions' = sessions \cup {[id |-> s, user |-> q.user, tenant |-> q.tenant]}
           /\ issued' = issued \cup {s}
           /\ tokens' = tokens \cup {[user |-> q.user, tenant |-> q.tenant, roles |-> q.roles]}
           /\ identity' = IF q.login THEN identity \cup {q.user} ELSE identity
  /\ req' = [req EXCEPT ![i] = Idle]
  /\ UNCHANGED accounts

----------------------------------------------------------------------------
(* POST /auth/refresh *)

GetRefresh(i, s) ==
  /\ req[i] = Idle
  /\ s \in sessions
  /\ req' = [req EXCEPT ![i] = [pc |-> "refresh", session |-> s]]
  /\ UNCHANGED <<accounts, sessions, issued, identity, tokens>>

(* Mutant of RefreshRoles: the roles of a token issued before are kept. *)
RefreshKeepsRoles(i) ==
  /\ req[i].pc = "refresh"
  /\ LET s == req[i].session
         old == {tok \in tokens : tok.user = s.user /\ tok.tenant = s.tenant}
     IN  \E roles \in IF old = {} THEN {RolesOf(s.user, s.tenant)} ELSE {tok.roles : tok \in old} :
           req' = [req EXCEPT ![i] = [pc |-> "mint", session |-> s, roles |-> roles]]
  /\ UNCHANGED <<accounts, sessions, issued, identity, tokens>>

(* The roles are read before the membership. *)
RefreshRoles(i) ==
  /\ req[i].pc = "refresh"
  /\ LET s == req[i].session
     IN  req' = [req EXCEPT ![i] = [pc |-> "mint", session |-> s,
                                    roles |-> RolesOf(s.user, s.tenant)]]
  /\ UNCHANGED <<accounts, sessions, issued, identity, tokens>>

(* Mutant of Mint: a sliding session, stored again at each refresh. *)
MintSlides(i) ==
  /\ req[i].pc = "mint"
  /\ LET s == req[i].session
     IN  /\ Active(s.user, s.tenant)
         /\ sessions' = sessions \cup {s}
         /\ tokens' = tokens \cup {[user |-> s.user, tenant |-> s.tenant,
                                    roles |-> req[i].roles]}
  /\ req' = [req EXCEPT ![i] = Idle]
  /\ UNCHANGED <<accounts, issued, identity>>

(* Mutant of Mint: the status of the membership is not looked at. *)
MintUnchecked(i) ==
  /\ req[i].pc = "mint"
  /\ LET s == req[i].session
     IN  tokens' = tokens \cup {[user |-> s.user, tenant |-> s.tenant,
                                 roles |-> req[i].roles]}
  /\ req' = [req EXCEPT ![i] = Idle]
  /\ UNCHANGED <<accounts, sessions, issued, identity>>

Mint(i) ==
  /\ req[i].pc = "mint"
  /\ LET s == req[i].session
     IN  /\ Active(s.user, s.tenant)
         /\ tokens' = tokens \cup {[user |-> s.user, tenant |-> s.tenant,
                                    roles |-> req[i].roles]}
  /\ req' = [req EXCEPT ![i] = Idle]
  /\ UNCHANGED <<accounts, sessions, issued, identity>>

RefuseRefresh(i) ==
  /\ req[i].pc = "mint"
  /\ ~Active(req[i].session.user, req[i].session.tenant)
  /\ req' = [req EXCEPT ![i] = Idle]
  /\ UNCHANGED <<accounts, sessions, issued, identity, tokens>>

(* POST /auth/logout deletes the key: one Redis command. *)
Logout(s) ==
  /\ s \in sessions
  /\ sessions' = sessions \ {s}
  /\ UNCHANGED <<accounts, issued, identity, tokens, req>>

----------------------------------------------------------------------------
(* Management, by the holder of an access token with the role tenant_admin *)
(* for the tenant it names.  The token is looked at before the handler     *)
(* runs; the transaction of the handler does not ask whether it is still   *)
(* good.                                                                   *)

AdminOf(t) == \E tok \in tokens : tok.tenant = t /\ tok.roles \cap AdminRoles # {}

(* Mutant of RequireTenantAdmin: any token for the tenant will do. *)
RequireMember(i, t) ==
  /\ req[i] = Idle
  /\ \E tok \in tokens : tok.tenant = t
  /\ req' = [req EXCEPT ![i] = [pc |-> "manage", tenant |-> t]]
  /\ UNCHANGED <<accounts, sessions, issued, identity, tokens>>

RequireTenantAdmin(i, t) ==
  /\ req[i] = Idle
  /\ AdminOf(t)
  /\ req' = [req EXCEPT ![i] = [pc |-> "manage", tenant |-> t]]
  /\ UNCHANGED <<accounts, sessions, issued, identity, tokens>>

(* The handlers, each one transaction: the membership u has in t, or is to *)
(* have.  _assert_tenant compares t with the tenant of the token.          *)
AssertTenant(i, t) == req[i].pc = "manage" /\ req[i].tenant = t

(* Mutant of AddMember: without _assert_tenant. *)
AddMemberAnywhere(i, u, t) ==
  /\ req[i].pc = "manage"
  /\ t \notin ToSet(joined[u])
  /\ joined' = [joined EXCEPT ![u] = Append(@, t)]
  /\ req' = [req EXCEPT ![i] = Idle]
  /\ UNCHANGED <<suspended, disabled, assigned, sessions, issued, identity, tokens>>

AddMember(i, u, t) ==
  /\ AssertTenant(i, t)
  /\ t \notin ToSet(joined[u])
  /\ joined' = [joined EXCEPT ![u] = Append(@, t)]
  /\ req' = [req EXCEPT ![i] = Idle]
  /\ UNCHANGED <<suspended, disabled, assigned, sessions, issued, identity, tokens>>

(* Mutant of AssignRole: the role's tenant is not compared. *)
AssignAnyRole(i, u, t, r) ==
  /\ AssertTenant(i, t)
  /\ t \in ToSet(joined[u])
  /\ assigned' = assigned \cup {<<u, t, r>>}
  /\ req' = [req EXCEPT ![i] = Idle]
  /\ UNCHANGED <<joined, suspended, disabled, sessions, issued, identity, tokens>>

AssignRole(i, u, t, r) ==
  /\ AssertTenant(i, t)
  /\ t \in ToSet(joined[u])
  /\ RoleTenant[r] = t
  /\ assigned' = assigned \cup {<<u, t, r>>}
  /\ req' = [req EXCEPT ![i] = Idle]
  /\ UNCHANGED <<joined, suspended, disabled, sessions, issued, identity, tokens>>

UnassignRole(i, u, t, r) ==
  /\ AssertTenant(i, t)
  /\ t \in ToSet(joined[u])
  /\ assigned' = assigned \ {<<u, t, r>>}
  /\ req' = [req EXCEPT ![i] = Idle]
  /\ UNCHANGED <<joined, suspended, disabled, sessions, issued, identity, tokens>>

(* A 403, 404, 409 or 400: an id that does not exist, or is another        *)
(* tenant's, a member already, another tenant's role.                      *)
RefuseManage(i) ==
  /\ req[i].pc = "manage"
  /\ req' = [req EXCEPT ![i] = Idle]
  /\ UNCHANGED <<accounts, sessions, issued, identity, tokens>>

(* No endpoint changes a status; the database is edited by hand. *)
Suspend(u, t) ==
  /\ t \in ToSet(joined[u])
  /\ suspended' = suspended \cup {<<u, t>>}
  /\ UNCHANGED <<joined, disabled, assigned, sessions, issued, identity, tokens, req>>

Disable(u) ==
  /\ disabled' = disabled \cup {u}
  /\ UNCHANGED <<joined, suspended, assigned, sessions, issued, identity, tokens, req>>

----------------------------------------------------------------------------
(* Time: 15 minutes for an access token, 10 for an identity token, 7 days  *)
(* for a session, which a refresh does not extend.                         *)

ExpireToken(tok) ==
  /\ tok \in tokens
  /\ tokens' = tokens \ {tok}
  /\ UNCHANGED <<accounts, sessions, issued, identity, req>>

ExpireIdentity(u) ==
  /\ u \in identity
  /\ identity' = identity \ {u}
  /\ UNCHANGED <<accounts, sessions, issued, tokens, req>>

ExpireSession(s) ==
  /\ s \in sessions
  /\ sessions' = sessions \ {s}
  /\ UNCHANGED <<accounts, issued, identity, tokens, req>>

----------------------------------------------------------------------------

Manage(i) ==
  \/ RefuseManage(i)
  \/ \E u \in User, t \in Tenant :
       \/ AddMember(i, u, t)
       \/ \E r \in Role : AssignRole(i, u, t, r) \/ UnassignRole(i, u, t, r)

Serve(i) ==
  \/ ReadMembership(i) \/ NoMembership(i) \/ ReadRoles(i) \/ StoreRefresh(i)
  \/ RefreshRoles(i) \/ Mint(i) \/ RefuseRefresh(i)
  \/ Manage(i)

Next ==
  \/ \E i \in Req :
       \/ Serve(i)
       \/ \E u \in User : Login(i, u)
       \/ \E u \in User, t \in Tenant : SelectTenant(i, u, t)
       \/ \E s \in sessions : GetRefresh(i, s)
       \/ \E t \in Tenant : RequireTenantAdmin(i, t)
  \/ \E s \in sessions : Logout(s) \/ ExpireSession(s)
  \/ \E u \in User : Disable(u) \/ ExpireIdentity(u)
  \/ \E u \in User, t \in Tenant : Suspend(u, t)
  \/ \E tok \in tokens : ExpireToken(tok)

Spec == Init /\ [][Next]_vars

(* A request that was accepted is run to its end, and every token expires. *)
(* As tokens holds claims, which last until the last token with them has   *)
(* expired, those of a membership and those with a given role have an end  *)
(* unless new ones come.  Nobody has to log out or to edit anything, and a *)
(* session may serve refresh after refresh.                                *)
RenewOf(i, u, t, roles) ==
  /\ \/ req[i].pc = "store" /\ req[i].user = u /\ req[i].tenant = t
     \/ req[i].pc = "mint" /\ req[i].session.user = u /\ req[i].session.tenant = t
  /\ roles \subseteq req[i].roles
  /\ StoreRefresh(i) \/ Mint(i)

ExpireOf(u, t, roles) ==
  \E tok \in tokens : tok.user = u /\ tok.tenant = t /\ roles \subseteq tok.roles /\ ExpireToken(tok)

EndOf(u, t, roles) == ExpireOf(u, t, roles) \/ \E i \in Req : RenewOf(i, u, t, roles)

FairSpec ==
  /\ Spec
  /\ \A i \in Req : WF_vars(Serve(i))
  /\ \A u \in User, t \in Tenant :
       /\ WF_vars(EndOf(u, t, {}))
       /\ \A r \in Role : WF_vars(EndOf(u, t, {r}))

----------------------------------------------------------------------------
(* Properties *)

TypeOK ==
  /\ joined \in [User -> Seq(Tenant)]
  /\ suspended \subseteq User \X Tenant
  /\ disabled \subseteq User
  /\ assigned \subseteq User \X Tenant \X Role
  /\ sessions \subseteq Session
  /\ issued \subseteq SessionId
  /\ identity \subseteq User
  /\ tokens \subseteq AccessToken
  /\ req \in [Req -> Request]

(* auth/main.py:227-229, "a token can only ever name a tenant the user     *)
(* actually belongs to", and 436-453: its roles are roles of that tenant,  *)
(* whichever of them the endpoints moved around before it was issued.      *)
TokensStayInTenant ==
  \A tok \in tokens :
    /\ tok.tenant \in ToSet(joined[tok.user])
    /\ \A r \in tok.roles : RoleTenant[r] = tok.tenant

(* auth/main.py:274-282, "this immediately stops any further refreshes": a *)
(* session that is gone does not come back, not even by a refresh that had *)
(* read it before, and no refresh begins on it.                            *)
Refreshing(s) ==
  {i \in Req : req[i].pc \in {"refresh", "mint"} /\ req[i].session.id = s}

LogoutIsFinal ==
  [][ \A s \in issued :
        (\A x \in sessions : x.id # s) =>
          /\ \A x \in sessions' : x.id # s
          /\ Refreshing(s)' \subseteq Refreshing(s) ]_vars

(* auth/main.py:249-256, DESIGN.md:639-640: a role taken away is gone from *)
(* the user's tokens for good once the old ones have expired, however      *)
(* often the session is refreshed and whatever other roles come and go;    *)
(* and so are all tokens of a membership that is suspended.                *)
RevocationTakesEffect ==
  \A u \in User, t \in Tenant, r \in Role :
    <>[](<<u, t, r>> \notin assigned)
      => <>[](\A tok \in tokens : tok.user = u /\ tok.tenant = t => r \notin tok.roles)

SuspensionTakesEffect ==
  \A u \in User, t \in Tenant :
    <>[](<<u, t>> \in suspended) => <>[](\A tok \in tokens : tok.user # u \/ tok.tenant # t)

(* auth/main.py:94-99: the administration endpoints trust the roles in the *)
(* token.  A demoted administrator may thus still appoint one, also        *)
(* themselves, and a call that was accepted does so even after the token   *)
(* has expired.  But once no assignment and no token carries the role, and *)
(* every call has ended that had read the one or was accepted with the     *)
(* other, nobody in the tenant ever comes by the role again.               *)
NoAdmin(t) ==
  /\ \A a \in assigned : a[2] = t => a[3] \notin AdminRoles
  /\ \A tok \in tokens : tok.tenant = t => tok.roles \cap AdminRoles = {}
  /\ \A i \in Req :
       /\ \/ req[i].pc = "store" /\ req[i].tenant = t
          \/ req[i].pc = "mint" /\ req[i].session.tenant = t
          => req[i].roles \cap AdminRoles = {}
       /\ ~AssertTenant(i, t)

PowerEndsForGood == [][\A t \in Tenant : NoAdmin(t) => NoAdmin(t)']_vars

(* auth/main.py:377-386, "an admin of one tenant cannot add members to     *)
(* another": a tenant without members has no administrator and never gets  *)
(* a member, which goes for every tenant made by POST /tenants.            *)
EmptyTenantsStayEmpty ==
  \A t \in Tenant :
    (\A u \in User : t \notin ToSet(InitJoined[u])) => \A u \in User : t \notin ToSet(joined[u])
=============================================================================
