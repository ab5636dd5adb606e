------------------------------- MODULE Access -------------------------------
(***************************************************************************)
(* Who may do what: users with their sessions and password resets          *)
(* (AuthService), members of tenants (UsersService, TenantsService), API   *)
(* keys (ApiKeysService), and the guards in front of every route.          *)
(*                                                                         *)
(* A password is its version number: each change brings a new one.  A      *)
(* request with wrong credentials changes nothing and is left out.         *)
(* Requests overlap: what a client read is used after an await.            *)
(***************************************************************************)
EXTENDS Naturals, FiniteSets

CONSTANTS
    Users,          \* users, by e-mail address
    PlatformAdmins, \* those with is_platform_admin, which no operation sets
    Tenants,        \* tenants, by slug
    Clients,        \* requests of AuthService that may run at the same time
    MaxTokens,      \* bound: refresh tokens issued per behaviour
    MaxResets,      \* bound: password resets asked for
    Keys,           \* API keys
    None,           \* no user, no tenant
    MaxVersion,     \* bound: passwords a user has had
    Deployments     \* the surroundings to consider

Tokens == 1 .. MaxTokens
Resets == 1 .. MaxResets
SessionOps == {"login", "refresh", "logout", "logoutAll", "forgot", "reset", "change"}
TenantOps == {"register", "createTenant", "updateTenant", "removeTenant", "addMember",
              "updateUser", "keys"}

\* ops: what clients call; users: who exists at first.
ASSUME AccessAssumption ==
    /\ PlatformAdmins \subseteq Users
    /\ None \notin Users \union Tenants
    /\ MaxTokens \in Nat /\ MaxResets \in Nat /\ MaxVersion \in Nat \ {0}
    /\ \A d \in Deployments : d.users \subseteq Users

VARIABLES
    user,        \* users: whether a row exists, is_active, the password
    tenant,      \* tenants.status
    role,        \* memberships.role
    token,       \* refresh_tokens
    reset,       \* password_reset_tokens
    key,         \* api_keys
    marking,     \* updates to EXPIRED that authenticate() did not wait for
    req,         \* local state of each request
    deployment,  \* the deployment of this behaviour
    pairs,       \* history: token pairs issued in exchange for a refresh token
    uses,        \* history: passwords set with a reset token
    overlapped,  \* history: tokens that two requests were using at the same time
    late,        \* history: requests under way when their user's password changed
    straddling,  \* history: refresh tokens issued by those
    seenDue      \* history: keys found ACTIVE after their time

sessionVars == <<token, reset, req, pairs, uses, overlapped, late, straddling>>
keyVars == <<key, marking, seenDue>>
accessVars == <<user, tenant, role, deployment, sessionVars, keyVars>>

-----------------------------------------------------------------------------

Roles == {"OWNER", "ADMIN", "DEVELOPER", "BILLING"}
TenantStatus == {"ACTIVE", "SUSPENDED", "CANCELLED"}

NoUser == [exists |-> FALSE, active |-> FALSE, password |-> 0]
NewUser == [exists |-> TRUE, active |-> TRUE, password |-> 1]
NoToken == [owner |-> None, state |-> "none", expired |-> FALSE, version |-> 0]
NoKey == [tenant |-> None, status |-> "none", due |-> FALSE]
Ready == [step |-> "idle", user |-> None, with |-> 0, version |-> 0]

UserRow == [exists : BOOLEAN, active : BOOLEAN, password : 0 .. MaxVersion]
TokenRow == {NoToken} \union
    [owner : Users, state : {"live", "revoked"}, expired : BOOLEAN, version : 0 .. MaxVersion]
ResetRow == {NoToken} \union
    [owner : Users, state : {"open", "used"}, expired : BOOLEAN, version : {0}]
KeyRow == {NoKey} \union
    [tenant : Tenants, status : {"ACTIVE", "REVOKED", "EXPIRED"}, due : BOOLEAN]

\* A request works for a user, with a refresh token, a reset token or nothing.
Working(steps, with) ==
    [step : steps, user : Users, with : with, version : 0 .. MaxVersion]
Request ==
    {Ready} \union Working({"issue"}, {0} \union Tokens)
            \union Working({"rotate", "revokeAll"}, Tokens)
            \union Working({"reset"}, Resets) \union Working({"create", "change"}, {0})

AccessTypeOK ==
    /\ user \in [Users -> UserRow]
    /\ tenant \in [Tenants -> TenantStatus \union {"ABSENT"}]
    /\ role \in [Users \X Tenants -> Roles \union {"NONE"}]
    /\ token \in [Tokens -> TokenRow] /\ reset \in [Resets -> ResetRow]
    /\ key \in [Keys -> KeyRow]
    /\ marking \subseteq Keys /\ seenDue \subseteq Keys
    /\ req \in [Clients -> Request]
    /\ deployment \in Deployments
    /\ pairs \in [Tokens -> Nat] /\ uses \in [Resets -> Nat]
    /\ overlapped \in [tokens : SUBSET Tokens, resets : SUBSET Resets]
    /\ late \subseteq Clients /\ straddling \subseteq Tokens

AccessInit ==
    /\ deployment \in Deployments
    /\ user = [u \in Users |-> IF u \in deployment.users THEN NewUser ELSE NoUser]
    /\ tenant = [t \in Tenants |-> "ABSENT"]
    /\ role = [m \in Users \X Tenants |-> "NONE"]
    /\ token = [n \in Tokens |-> NoToken]
    /\ reset = [n \in Resets |-> NoToken]
    /\ key = [k \in Keys |-> NoKey]
    /\ marking = {}
    /\ req = [c \in Clients |-> Ready]
    /\ pairs = [n \in Tokens |-> 0]
    /\ uses = [n \in Resets |-> 0]
    /\ overlapped = [tokens |-> {}, resets |-> {}]
    /\ late = {}
    /\ straddling = {}
    /\ seenDue = {}

Serves(op) == op \in deployment.ops

-----------------------------------------------------------------------------
(* Guards *)

\* JwtStrategy.validate: the user is read anew on each request.
Authenticated(u) == user[u].exists /\ user[u].active

\* TenantGuard: a membership, whatever the tenant's status.
Member(u, t) == Authenticated(u) /\ role[<<u, t>>] # "NONE"

\* RolesGuard.
HasRole(u, t, roles) == Member(u, t) /\ role[<<u, t>>] \in roles

\* PlatformAdminGuard.
PlatformAdmin(u) == Authenticated(u) /\ u \in PlatformAdmins

Admins == {"OWNER", "ADMIN"}

\* What a route demands: a session, membership of the tenant, one of some roles.
Public == [session |-> FALSE, roles |-> {}]
Session == [session |-> TRUE, roles |-> {}]
OneOf(roles) == [session |-> TRUE, roles |-> roles]

AuthRoutes ==
    [op \in {"register", "login", "refresh", "forgot", "reset"} |-> Public]
AccountRoutes ==
    [op \in {"change", "logout", "logoutAll"} |-> Session]
ApiKeyRoutes ==
    [op \in {"createKey", "revokeKey"} |-> OneOf(Admins)]
UserRoutes ==
    [addMember |-> OneOf(Admins), updateUser |-> Session]
TenantCreation == Session
TenantRoutes ==
    [updateTenant |-> OneOf(Admins), removeTenant |-> OneOf({"OWNER"})]

\* The guards of a route, for a user and a tenant named in x-tenant-id.
Admits(route, u, t) ==
    /\ route.session => Authenticated(u)
    /\ route.roles # {} => HasRole(u, t, route.roles)

-----------------------------------------------------------------------------
(* Sessions *)

Unissued == {n \in Tokens : token[n].state = "none"}
Unopened == {n \in Resets : reset[n].state = "none"}

\* The id of a new row: any that is free.
NextToken == CHOOSE n \in Unissued : TRUE
NextReset == CHOOSE n \in Unopened : TRUE

Start(c, step, u, with, version) ==
    req' = [req EXCEPT ![c] = [step |-> step, user |-> u, with |-> with, version |-> version]]

Finish(c) ==
    /\ req' = [req EXCEPT ![c] = Ready]
    /\ late' = late \ {c}

\* updateMany over the live refresh tokens of a user.
Revoked(u) ==
    [n \in Tokens |-> IF token[n].owner = u /\ token[n].state = "live"
                      THEN [token[n] EXCEPT !.state = "revoked"] ELSE token[n]]

\* login: the account and its password are read, the tokens come later.
LoginRead(c, u) ==
    /\ Serves("login")
    /\ req[c] = Ready
    /\ Admits(AuthRoutes["login"], u, None)
    /\ Authenticated(u)
    /\ Start(c, "issue", u, 0, user[u].password)
    /\ UNCHANGED <<user, tenant, role, deployment, token, reset, pairs, uses, overlapped, late,
                   straddling, keyVars>>

\* generateTokens: the row of a new refresh token.
Issue(c) ==
    LET n == NextToken
        from == req[c].with
    IN  /\ req[c].step = "issue"
        /\ Unissued # {}
        /\ token' = [token EXCEPT ![n] = [NoToken EXCEPT !.owner = req[c].user, !.state = "live",
                                                         !.version = req[c].version]]
        /\ pairs' = IF from \in Tokens THEN [pairs EXCEPT ![from] = @ + 1] ELSE pairs
        /\ straddling' = IF c \in late THEN straddling \union {n} ELSE straddling
        /\ Finish(c)
        /\ UNCHANGED <<user, tenant, role, deployment, reset, uses, overlapped, keyVars>>

\* Mutant: no look at is_revoked.
RefreshStepAlways(n) == "rotate"

\* A revoked token is taken for a stolen one.
RefreshStep(n) == IF token[n].state = "revoked" THEN "revokeAll" ELSE "rotate"

\* refresh: the row is read; is_active is not.
RefreshRead(c, n) ==
    /\ Serves("refresh")
    /\ req[c] = Ready
    /\ Admits(AuthRoutes["refresh"], token[n].owner, None)
    /\ token[n].state # "none"
    /\ ~token[n].expired
    /\ Start(c, RefreshStep(n), token[n].owner, n, token[n].version)
    /\ overlapped' = IF \E d \in Clients : req[d].step = "rotate" /\ req[d].with = n
                     THEN [overlapped EXCEPT !.tokens = @ \union {n}] ELSE overlapped
    /\ late' = IF n \in straddling THEN late \union {c} ELSE late
    /\ UNCHANGED <<user, tenant, role, deployment, token, reset, pairs, uses, straddling,
                   keyVars>>

\* The old token is revoked, whatever it has become.
Rotate(c) ==
    /\ req[c].step = "rotate"
    /\ token' = [token EXCEPT ![req[c].with].state = "revoked"]
    /\ req' = [req EXCEPT ![c].step = "issue"]
    /\ UNCHANGED <<user, tenant, role, deployment, reset, pairs, uses, overlapped, late,
                   straddling, keyVars>>

RevokeAll(c) ==
    /\ req[c].step = "revokeAll"
    /\ token' = Revoked(req[c].user)
    /\ Finish(c)
    /\ UNCHANGED <<user, tenant, role, deployment, reset, pairs, uses, overlapped, straddling,
                   keyVars>>

\* One statement each; whose session asks does not matter to logout.
Logout(u, n) ==
    /\ Serves("logout")
    /\ Admits(AccountRoutes["logout"], u, None)
    /\ token[n].state = "live"
    /\ token' = [token EXCEPT ![n].state = "revoked"]
    /\ UNCHANGED <<user, tenant, role, deployment, reset, req, pairs, uses, overlapped, late,
                   straddling, keyVars>>

LogoutAll(u) ==
    /\ Serves("logoutAll")
    /\ Admits(AccountRoutes["logoutAll"], u, None)
    /\ token' = Revoked(u)
    /\ UNCHANGED <<user, tenant, role, deployment, reset, req, pairs, uses, overlapped, late,
                   straddling, keyVars>>

\* forgotPassword: open resets are used up, and then there is a new one.
ForgotPassword(c, u) ==
    /\ Serves("forgot")
    /\ req[c] = Ready
    /\ Admits(AuthRoutes["forgot"], u, None)
    /\ user[u].exists
    /\ reset' = [n \in Resets |-> IF reset[n].owner = u /\ reset[n].state = "open"
                                  THEN [reset[n] EXCEPT !.state = "used"] ELSE reset[n]]
    /\ Start(c, "create", u, 0, 0)
    /\ UNCHANGED <<user, tenant, role, deployment, token, pairs, uses, overlapped, late,
                   straddling, keyVars>>

CreateReset(c) ==
    /\ req[c].step = "create"
    /\ Unopened # {}
    /\ reset' = [reset EXCEPT ![NextReset] = [NoToken EXCEPT !.owner = req[c].user,
                                                             !.state = "open"]]
    /\ Finish(c)
    /\ UNCHANGED <<user, tenant, role, deployment, token, pairs, uses, overlapped, straddling,
                   keyVars>>

\* resetPassword: the token is read and found good.
ResetRead(c, n) ==
    /\ Serves("reset")
    /\ req[c] = Ready
    /\ Admits(AuthRoutes["reset"], reset[n].owner, None)
    /\ reset[n].state = "open"
    /\ ~reset[n].expired
    /\ Start(c, "reset", reset[n].owner, n, 0)
    /\ overlapped' = IF \E d \in Clients : req[d].step = "reset" /\ req[d].with = n
                     THEN [overlapped EXCEPT !.resets = @ \union {n}] ELSE overlapped
    /\ UNCHANGED <<user, tenant, role, deployment, token, reset, pairs, uses, late, straddling,
                   keyVars>>

\* Mutant: the transaction revokes one session only.
RevokedByChangeOne(u) ==
    [n \in Tokens |-> IF token[n].owner = u /\ n = 1 /\ token[n].state = "live"
                      THEN [token[n] EXCEPT !.state = "revoked"] ELSE token[n]]

RevokedByChange(u) == Revoked(u)

\* The requests that go on after a change of their user's password.
UnderWay(u) == {c \in Clients : req[c].user = u /\ req[c].step \in {"issue", "rotate"}}

NewPassword(u) ==
    /\ user[u].password < MaxVersion
    /\ user' = [user EXCEPT ![u].password = @ + 1]
    /\ token' = RevokedByChange(u)

\* Its transaction: the password, the reset token, the sessions.
ResetCommit(c) ==
    LET u == req[c].user
    IN  /\ req[c].step = "reset"
        /\ NewPassword(u)
        /\ reset' = [reset EXCEPT ![req[c].with].state = "used"]
        /\ uses' = [uses EXCEPT ![req[c].with] = @ + 1]
        /\ req' = [req EXCEPT ![c] = Ready]
        /\ late' = (late \union UnderWay(u)) \ {c}
        /\ UNCHANGED <<tenant, role, deployment, pairs, overlapped, straddling, keyVars>>

\* changePassword: the account is read, the old password compared.
ChangeRead(c, u) ==
    /\ Serves("change")
    /\ req[c] = Ready
    /\ Admits(AccountRoutes["change"], u, None)
    /\ Start(c, "change", u, 0, 0)
    /\ UNCHANGED <<user, tenant, role, deployment, token, reset, pairs, uses, overlapped, late,
                   straddling, keyVars>>

\* Its transaction, after which it goes on to issue tokens.
ChangeCommit(c) ==
    LET u == req[c].user
    IN  /\ req[c].step = "change"
        /\ NewPassword(u)
        /\ Start(c, "issue", u, 0, user[u].password + 1)
        /\ late' = late \union UnderWay(u)
        /\ UNCHANGED <<tenant, role, deployment, reset, pairs, uses, overlapped, straddling,
                       keyVars>>

\* The process dies, or a statement fails, between two steps.
ClientFails(c) ==
    /\ Serves("failure")
    /\ req[c] # Ready
    /\ Finish(c)
    /\ UNCHANGED <<user, tenant, role, deployment, token, reset, pairs, uses, overlapped,
                   straddling, keyVars>>

\* Time passes: a refresh token, a reset token, an API key is past its date.
TokenExpires(n) ==
    /\ Serves("expiry")
    /\ token[n].state # "none" /\ ~token[n].expired
    /\ token' = [token EXCEPT ![n].expired = TRUE]
    /\ UNCHANGED <<user, tenant, role, deployment, reset, req, pairs, uses, overlapped, late,
                   straddling, keyVars>>

ResetExpires(n) ==
    /\ Serves("expiry")
    /\ reset[n].state # "none" /\ ~reset[n].expired
    /\ reset' = [reset EXCEPT ![n].expired = TRUE]
    /\ UNCHANGED <<user, tenant, role, deployment, token, req, pairs, uses, overlapped, late,
                   straddling, keyVars>>

-----------------------------------------------------------------------------
(* Tenants and their members *)

\* register: user, tenant and membership in one transaction, then the tokens.
Register(c, u, t) ==
    /\ Serves("register")
    /\ req[c] = Ready
    /\ Admits(AuthRoutes["register"], u, t)
    /\ ~user[u].exists
    /\ tenant[t] = "ABSENT"
    /\ user' = [user EXCEPT ![u] = NewUser]
    /\ tenant' = [tenant EXCEPT ![t] = "ACTIVE"]
    /\ role' = [role EXCEPT ![<<u, t>>] = "OWNER"]
    /\ Start(c, "issue", u, 0, 1)
    /\ UNCHANGED <<deployment, token, reset, pairs, uses, overlapped, late, straddling, keyVars>>

\* createWithOwner.
CreateTenant(u, t) ==
    /\ Serves("createTenant")
    /\ Admits(TenantCreation, u, t)
    /\ tenant[t] = "ABSENT"
    /\ tenant' = [tenant EXCEPT ![t] = "ACTIVE"]
    /\ role' = [role EXCEPT ![<<u, t>>] = "OWNER"]
    /\ UNCHANGED <<user, deployment, sessionVars, keyVars>>

\* update takes any status; nothing else in the program reads it.
UpdateTenant(u, t, s) ==
    /\ Serves("updateTenant")
    /\ Admits(TenantRoutes.updateTenant, u, t)
    /\ tenant' = [tenant EXCEPT ![t] = s]
    /\ UNCHANGED <<user, role, deployment, sessionVars, keyVars>>

\* Mutant: a status that the column does not have.
RemovedDeleted == "DELETED"

\* remove keeps the row, and does not look at its status.
Removed == "CANCELLED"

RemoveTenant(u, t) ==
    /\ Serves("removeTenant")
    /\ Admits(TenantRoutes.removeTenant, u, t)
    /\ tenant' = [tenant EXCEPT ![t] = Removed]
    /\ UNCHANGED <<user, role, deployment, sessionVars, keyVars>>

\* createWithMembership: a known user becomes a developer, an unknown one is created.
\* The unique constraints decide between requests that overlap.
AddMember(a, u, t) ==
    /\ Serves("addMember")
    /\ Admits(UserRoutes.addMember, a, t)
    /\ role[<<u, t>>] = "NONE"
    /\ role' = [role EXCEPT ![<<u, t>>] = "DEVELOPER"]
    /\ user' = IF user[u].exists THEN user ELSE [user EXCEPT ![u] = NewUser]
    /\ UNCHANGED <<tenant, deployment, sessionVars, keyVars>>

\* Mutant: users may set is_active on themselves.
MaySetActiveSelf(a, u, t) ==
    a = u \/ (HasRole(a, t, {"OWNER"}) /\ role[<<u, t>>] # "NONE")

\* The controller refuses is_active on oneself; assertCallerCanUpdateUser leaves it to
\* the owner of a tenant both are members of.
MaySetActive(a, u, t) ==
    a # u /\ HasRole(a, t, {"OWNER"}) /\ role[<<u, t>>] # "NONE"

\* is_active is the user's, not the membership's.
UpdateUser(a, u, t, active) ==
    /\ Serves("updateUser")
    /\ Admits(UserRoutes.updateUser, a, t)
    /\ MaySetActive(a, u, t)
    /\ user' = [user EXCEPT ![u].active = active]
    /\ UNCHANGED <<tenant, role, deployment, sessionVars, keyVars>>

-----------------------------------------------------------------------------
(* API keys *)

CreateKey(u, t, k) ==
    /\ Serves("keys")
    /\ Admits(ApiKeyRoutes["createKey"], u, t)
    /\ key[k] = NoKey
    /\ key' = [key EXCEPT ![k] = [tenant |-> t, status |-> "ACTIVE", due |-> FALSE]]
    /\ UNCHANGED <<user, tenant, role, deployment, sessionVars, marking, seenDue>>

\* revoke: a look whether it is the tenant's, and the update.
RevokeKey(u, t, k) ==
    /\ Serves("keys")
    /\ Admits(ApiKeyRoutes["revokeKey"], u, t)
    /\ key[k].tenant = t
    /\ key' = [key EXCEPT ![k].status = "REVOKED"]
    /\ UNCHANGED <<user, tenant, role, deployment, sessionVars, marking, seenDue>>

KeyExpires(k) ==
    /\ Serves("keys")
    /\ key[k] # NoKey /\ ~key[k].due
    /\ key' = [key EXCEPT ![k].due = TRUE]
    /\ UNCHANGED <<user, tenant, role, deployment, sessionVars, marking, seenDue>>

\* Mutant: the date is looked at before the status.
MustMarkDue(k) == key[k].due

MustMark(k) == key[k].status = "ACTIVE" /\ key[k].due

\* authenticate of a key past its date starts an update, and does not wait for it.
AuthenticateDue(k) ==
    /\ MustMark(k)
    /\ marking' = marking \union {k}
    /\ seenDue' = IF key[k].status = "ACTIVE" THEN seenDue \union {k} ELSE seenDue
    /\ UNCHANGED <<user, tenant, role, deployment, sessionVars, key>>

\* It lands, whatever has happened to the key, or fails.
MarkExpired(k) ==
    /\ k \in marking
    /\ marking' = marking \ {k}
    /\ \/ key' = [key EXCEPT ![k].status = "EXPIRED"]
       \/ UNCHANGED key
    /\ UNCHANGED <<user, tenant, role, deployment, sessionVars, seenDue>>

-----------------------------------------------------------------------------

SessionNext ==
    \/ \E c \in Clients :
        \/ \E u \in Users : LoginRead(c, u) \/ ForgotPassword(c, u) \/ ChangeRead(c, u)
        \/ \E n \in Tokens : RefreshRead(c, n)
        \/ \E n \in Resets : ResetRead(c, n)
        \/ \E u \in Users, t \in Tenants : Register(c, u, t)
        \/ Issue(c) \/ Rotate(c) \/ RevokeAll(c) \/ CreateReset(c)
        \/ ResetCommit(c) \/ ChangeCommit(c) \/ ClientFails(c)
    \/ \E u \in Users : LogoutAll(u) \/ \E n \in Tokens : Logout(u, n)
    \/ \E n \in Tokens : TokenExpires(n)
    \/ \E n \in Resets : ResetExpires(n)

TenantNext ==
    \/ \E u \in Users, t \in Tenants :
        \/ CreateTenant(u, t) \/ RemoveTenant(u, t)
        \/ \E s \in TenantStatus : UpdateTenant(u, t, s)
        \/ \E v \in Users : AddMember(u, v, t) \/ \E b \in BOOLEAN : UpdateUser(u, v, t, b)
        \/ \E k \in Keys : CreateKey(u, t, k) \/ RevokeKey(u, t, k)
    \/ \E k \in Keys : KeyExpires(k) \/ AuthenticateDue(k) \/ MarkExpired(k)

AccessNext == SessionNext \/ TenantNext

AccessSpec == AccessInit /\ [][AccessNext]_accessVars

-----------------------------------------------------------------------------
(* Properties *)

\* Tokens are for one use: a refresh token buys one new pair and a reset token sets one
\* password, whatever else goes on, unless two requests were using it at the same time.
TokensUsedOnce ==
    /\ \A n \in Tokens \ overlapped.tokens : pairs[n] <= 1
    /\ \A n \in Resets \ overlapped.resets : uses[n] <= 1

\* A change of the password ends the sessions begun with an old one.  Those survive
\* whose tokens were being issued at that moment, and what is refreshed from them.
PasswordEndsSessions ==
    \A n \in Tokens :
        token[n].state = "live" /\ n \notin straddling =>
            token[n].version = user[token[n].owner].password

\* A tenant has one owner for ever, and he is active, unless he is a member of another
\* tenant as well, whose owner may have deactivated him everywhere.
OwnerKept ==
    \A t \in Tenants :
        tenant[t] # "ABSENT" =>
            \E u \in Users :
                /\ {v \in Users : role[<<v, t>>] = "OWNER"} = {u}
                /\ user[u].active \/ \E s \in Tenants \ {t} : role[<<u, s>>] = "DEVELOPER"

\* A key that is not ACTIVE never becomes so again, and one that was revoked stays
\* revoked, unless it had been found past its date before: that update may come late.
KeyStaysDead ==
    [][\A k \in Keys :
         /\ key[k].status \in {"REVOKED", "EXPIRED"} => key'[k].status # "ACTIVE"
         /\ key[k].status = "REVOKED" /\ k \notin seenDue => key'[k].status = "REVOKED"
      ]_accessVars

=============================================================================
