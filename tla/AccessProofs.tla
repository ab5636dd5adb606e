----------------------------- MODULE AccessProofs -----------------------------
(***************************************************************************)
(* Proofs about Access, for every number of users, tenants, requests,      *)
(* tokens and keys, and every deployment.                                  *)
(***************************************************************************)
EXTENDS Access, TLAPS

\* Rows and requests are of users that exist, and of tokens and keys that exist.
References ==
    /\ \A n \in Tokens : token[n] # NoToken => user[token[n].owner].exists
    /\ \A n \in Resets : reset[n] # NoToken => user[reset[n].owner].exists
    /\ \A c \in Clients : req[c] # Ready => user[req[c].user].exists
    /\ \A c \in Clients : req[c].step = "rotate" => token[req[c].with] # NoToken
    /\ \A c \in Clients : req[c].step = "issue" /\ req[c].with \in Tokens =>
         token[req[c].with].state = "revoked"
    /\ \A c \in Clients : req[c].step = "reset" => reset[req[c].with] # NoToken
    /\ \A k \in marking : key[k] # NoKey

AccessInv == AccessTypeOK /\ References

LEMMA AccessInvInit == AccessInit => AccessInv
<1> SUFFICES ASSUME AccessInit PROVE AccessInv
  OBVIOUS
<1>1. NewUser \in UserRow /\ NoUser \in UserRow
  BY AccessAssumption DEF NewUser, NoUser, UserRow
<1>2. user \in [Users -> UserRow]
  BY <1>1 DEF AccessInit
<1>3. /\ tenant \in [Tenants -> TenantStatus \union {"ABSENT"}]
      /\ role \in [Users \X Tenants -> Roles \union {"NONE"}]
      /\ token \in [Tokens -> TokenRow] /\ reset \in [Resets -> ResetRow]
      /\ key \in [Keys -> KeyRow]
      /\ req \in [Clients -> Request]
      /\ pairs \in [Tokens -> Nat] /\ uses \in [Resets -> Nat]
  BY DEF AccessInit, TokenRow, ResetRow, KeyRow, Request
<1>4. /\ marking \subseteq Keys /\ seenDue \subseteq Keys /\ deployment \in Deployments
      /\ overlapped \in [tokens : SUBSET Tokens, resets : SUBSET Resets]
      /\ late \subseteq Clients /\ straddling \subseteq Tokens
  BY DEF AccessInit
<1>5. References
  BY DEF AccessInit, References, Ready
<1> QED
  BY <1>2, <1>3, <1>4, <1>5 DEF AccessInv, AccessTypeOK

-----------------------------------------------------------------------------
(* What each half of the component leaves alone *)

LEMMA TenantStepFrame == TenantNext => UNCHANGED <<deployment, sessionVars>>
<1>1. \A u \in Users, t \in Tenants :
        \/ CreateTenant(u, t) \/ RemoveTenant(u, t)
        \/ \E s \in TenantStatus : UpdateTenant(u, t, s)
        \/ \E v \in Users : AddMember(u, v, t) \/ \E b \in BOOLEAN : UpdateUser(u, v, t, b)
        => UNCHANGED <<deployment, sessionVars>>
  BY DEF CreateTenant, RemoveTenant, UpdateTenant, AddMember, UpdateUser
<1>2. \A u \in Users, t \in Tenants, k \in Keys :
        CreateKey(u, t, k) \/ RevokeKey(u, t, k) => UNCHANGED <<deployment, sessionVars>>
  BY DEF CreateKey, RevokeKey
<1>3. \A k \in Keys :
        KeyExpires(k) \/ AuthenticateDue(k) \/ MarkExpired(k)
        => UNCHANGED <<deployment, sessionVars>>
  BY DEF KeyExpires, AuthenticateDue, MarkExpired
<1> HIDE DEF sessionVars
<1> QED
  BY <1>1, <1>2, <1>3 DEF TenantNext

LEMMA SessionStepFrame == SessionNext => UNCHANGED <<deployment, keyVars>>
<1>1. \A c \in Clients, u \in Users :
        LoginRead(c, u) \/ ForgotPassword(c, u) \/ ChangeRead(c, u)
        => UNCHANGED <<deployment, keyVars>>
  BY DEF LoginRead, ForgotPassword, ChangeRead
<1>2. \A c \in Clients, u \in Users, t \in Tenants :
        Register(c, u, t) => UNCHANGED <<deployment, keyVars>>
  BY DEF Register
<1>3. /\ \A c \in Clients, n \in Tokens : RefreshRead(c, n) => UNCHANGED <<deployment, keyVars>>
      /\ \A c \in Clients, n \in Resets : ResetRead(c, n) => UNCHANGED <<deployment, keyVars>>
  BY DEF RefreshRead, ResetRead
<1>4. \A c \in Clients :
        Issue(c) \/ Rotate(c) \/ RevokeAll(c) \/ CreateReset(c) => UNCHANGED <<deployment, keyVars>>
  BY DEF Issue, Rotate, RevokeAll, CreateReset
<1>5. \A c \in Clients :
        ResetCommit(c) \/ ChangeCommit(c) \/ ClientFails(c) => UNCHANGED <<deployment, keyVars>>
  BY DEF ResetCommit, ChangeCommit, ClientFails
<1>6. /\ \A u \in Users : LogoutAll(u) => UNCHANGED <<deployment, keyVars>>
      /\ \A u \in Users, n \in Tokens : Logout(u, n) => UNCHANGED <<deployment, keyVars>>
  BY DEF LogoutAll, Logout
<1>7. /\ \A n \in Tokens : TokenExpires(n) => UNCHANGED <<deployment, keyVars>>
      /\ \A n \in Resets : ResetExpires(n) => UNCHANGED <<deployment, keyVars>>
  BY DEF TokenExpires, ResetExpires
<1> HIDE DEF keyVars
<1> QED
  BY <1>1, <1>2, <1>3, <1>4, <1>5, <1>6, <1>7 DEF SessionNext

-----------------------------------------------------------------------------
(* What rows and requests hold *)

LEMMA Rows ==
  ASSUME AccessInv
  PROVE  /\ \A n \in Tokens : token[n] # NoToken <=> token[n].state # "none"
         /\ \A n \in Tokens : token[n] # NoToken =>
              token[n].owner \in Users /\ token[n].version \in 0 .. MaxVersion
         /\ \A n \in Resets : reset[n] # NoToken <=> reset[n].state # "none"
         /\ \A n \in Resets : reset[n] # NoToken => reset[n].owner \in Users
<1>1. ASSUME NEW n \in Tokens
      PROVE  /\ token[n] # NoToken <=> token[n].state # "none"
             /\ token[n] # NoToken =>
                  token[n].owner \in Users /\ token[n].version \in 0 .. MaxVersion
  BY DEF AccessInv, AccessTypeOK, TokenRow, NoToken
<1>2. ASSUME NEW n \in Resets
      PROVE  /\ reset[n] # NoToken <=> reset[n].state # "none"
             /\ reset[n] # NoToken => reset[n].owner \in Users
  BY DEF AccessInv, AccessTypeOK, ResetRow, NoToken
<1> QED
  BY <1>1, <1>2

LEMMA Works ==
  ASSUME AccessInv, NEW c \in Clients, req[c] # Ready
  PROVE  /\ req[c].user \in Users /\ req[c].version \in 0 .. MaxVersion
         /\ req[c].step \in {"rotate", "revokeAll"} => req[c].with \in Tokens
         /\ req[c].step = "reset" => req[c].with \in Resets
         /\ req[c].step = "issue" => req[c].with \in {0} \union Tokens
  BY DEF AccessInv, AccessTypeOK, Request, Working

LEMMA IdleStep == Ready.step = "idle" /\ Ready.user = None
  BY DEF Ready

\* Sessions may be revoked at any time, and nothing brings a revoked one back.
TokensKept ==
    /\ token' \in [Tokens -> TokenRow]
    /\ \A n \in Tokens :
        /\ token[n] # NoToken => token'[n] # NoToken /\ token'[n].owner = token[n].owner
        /\ token[n].state = "revoked" => token'[n].state = "revoked"

LEMMA RevokedKept ==
  ASSUME AccessInv, NEW u, token' = Revoked(u)
  PROVE  TokensKept /\ \A n \in Tokens : token[n] = NoToken => token'[n] = NoToken
<1>1. token \in [Tokens -> TokenRow]
  BY DEF AccessInv, AccessTypeOK
<1>2. ASSUME NEW n \in Tokens
      PROVE  /\ token'[n] \in TokenRow
             /\ token[n] # NoToken => token'[n] # NoToken /\ token'[n].owner = token[n].owner
             /\ token[n].state = "revoked" => token'[n].state = "revoked"
             /\ token[n] = NoToken => token'[n] = NoToken
  <2>1. CASE token[n].owner = u /\ token[n].state = "live"
    <3>1. token'[n] = [token[n] EXCEPT !.state = "revoked"]
      BY <2>1 DEF Revoked
    <3>2. token[n] \in TokenRow \ {NoToken}
      BY <1>1, <2>1 DEF NoToken
    <3>3. /\ [token[n] EXCEPT !.state = "revoked"] \in TokenRow \ {NoToken}
          /\ [token[n] EXCEPT !.state = "revoked"].owner = token[n].owner
      BY <3>2 DEF TokenRow, NoToken
    <3> QED
      BY <2>1, <3>1, <3>2, <3>3
  <2>2. CASE ~(token[n].owner = u /\ token[n].state = "live")
    <3>1. token'[n] = token[n]
      BY <2>2 DEF Revoked
    <3> QED
      BY <1>1, <3>1
  <2> QED
    BY <2>1, <2>2
<1>3. token' = [n \in Tokens |-> token'[n]]
  BY DEF Revoked
<1> QED
  BY <1>2, <1>3 DEF TokensKept

LEMMA OneRevokedKept ==
  ASSUME AccessInv, NEW n \in Tokens, token[n] # NoToken,
         token' = [token EXCEPT ![n].state = "revoked"]
  PROVE  TokensKept /\ token'[n].state = "revoked"
<1>1. token \in [Tokens -> TokenRow] /\ token[n] \in TokenRow \ {NoToken}
  BY DEF AccessInv, AccessTypeOK
<1>2. /\ [token[n] EXCEPT !.state = "revoked"] \in TokenRow \ {NoToken}
      /\ [token[n] EXCEPT !.state = "revoked"].owner = token[n].owner
      /\ [token[n] EXCEPT !.state = "revoked"].state = "revoked"
  BY <1>1 DEF TokenRow, NoToken
<1> QED
  BY <1>1, <1>2 DEF TokensKept

\* A new row takes an id that was free.
LEMMA IssueKept ==
  ASSUME AccessInv, NEW c \in Clients, Issue(c)
  PROVE  /\ NextToken \in Tokens /\ token[NextToken] = NoToken
         /\ token'[NextToken] = [NoToken EXCEPT !.owner = req[c].user, !.state = "live",
                                                !.version = req[c].version]
         /\ token'[NextToken].owner = req[c].user
         /\ \A n \in Tokens \ {NextToken} : token'[n] = token[n]
         /\ req[c].user \in Users
         /\ TokensKept
<1>1. NextToken \in Unissued
  BY DEF NextToken, Issue
<1>2. NextToken \in Tokens /\ token[NextToken] = NoToken
  BY <1>1, Rows DEF Unissued
<1>3. req[c].user \in Users /\ req[c].version \in 0 .. MaxVersion
  BY Works, IdleStep DEF Issue
<1>4. [NoToken EXCEPT !.owner = req[c].user, !.state = "live", !.version = req[c].version]
        \in TokenRow \ {NoToken}
  BY <1>3 DEF NoToken, TokenRow
<1>5. token \in [Tokens -> TokenRow]
  BY DEF AccessInv, AccessTypeOK
<1>6. token' = [token EXCEPT ![NextToken] = [NoToken EXCEPT !.owner = req[c].user,
                                              !.state = "live", !.version = req[c].version]]
  BY DEF Issue
<1>7. token[NextToken].state # "revoked"
  BY <1>2 DEF NoToken
<1>8. [NoToken EXCEPT !.owner = req[c].user, !.state = "live", !.version = req[c].version].owner
        = req[c].user
  BY DEF NoToken
<1> QED
  BY <1>2, <1>3, <1>4, <1>5, <1>6, <1>7, <1>8 DEF TokensKept

\* What it takes to keep the references.
LEMMA ReferencesKept ==
  ASSUME AccessInv, TokensKept,
         \A u \in Users : user[u].exists => user'[u].exists,
         \A n \in Tokens : token'[n] = NoToken \/ user'[token'[n].owner].exists,
         \A n \in Resets :
            /\ reset[n] # NoToken => reset'[n] # NoToken
            /\ reset'[n] = NoToken \/ user'[reset'[n].owner].exists,
         \A c \in Clients : req'[c] \in {req[c], Ready} \/
            /\ user'[req'[c].user].exists
            /\ req'[c].step = "rotate" => token'[req'[c].with] # NoToken
            /\ req'[c].step = "issue" /\ req'[c].with \in Tokens =>
                 token'[req'[c].with].state = "revoked"
            /\ req'[c].step = "reset" => reset'[req'[c].with] # NoToken,
         \A k \in marking' : key'[k] # NoKey
  PROVE  References'
<1>1. ASSUME NEW c \in Clients
      PROVE  /\ req'[c] # Ready => user'[req'[c].user].exists
             /\ req'[c].step = "rotate" => token'[req'[c].with] # NoToken
             /\ req'[c].step = "issue" /\ req'[c].with \in Tokens =>
                  token'[req'[c].with].state = "revoked"
             /\ req'[c].step = "reset" => reset'[req'[c].with] # NoToken
  <2>1. CASE req'[c] = Ready
    BY <2>1, IdleStep
  <2>2. CASE req'[c] = req[c] /\ req[c] # Ready
    <3>1. req[c].user \in Users /\ user[req[c].user].exists
      BY <2>2, Works DEF AccessInv, References
    <3>2. /\ req[c].step = "rotate" => req[c].with \in Tokens /\ token[req[c].with] # NoToken
          /\ req[c].step = "issue" /\ req[c].with \in Tokens =>
               token[req[c].with].state = "revoked"
          /\ req[c].step = "reset" => req[c].with \in Resets /\ reset[req[c].with] # NoToken
      BY <2>2, Works DEF AccessInv, References
    <3> QED
      BY <2>2, <3>1, <3>2 DEF TokensKept
  <2> QED
    BY <2>1, <2>2
<1> QED
  BY <1>1 DEF References

\* Steps that change nothing about sessions.
LEMMA SessionsUntouched ==
  ASSUME AccessInv, UNCHANGED <<token, reset, req>>,
         \A u \in Users : user[u].exists => user'[u].exists,
         \A k \in marking' : key'[k] # NoKey
  PROVE  References'
<1>1. TokensKept
  BY DEF AccessInv, AccessTypeOK, TokensKept
<1>2. /\ \A n \in Tokens : token[n] = NoToken \/ user'[token[n].owner].exists
      /\ \A n \in Resets : reset[n] = NoToken \/ user'[reset[n].owner].exists
  BY Rows DEF AccessInv, References
<1> QED
  BY <1>1, <1>2, ReferencesKept

\* Steps that keep users, resets and keys.
LEMMA SessionsMove ==
  ASSUME AccessInv, UNCHANGED <<user, reset, key, marking>>, TokensKept,
         \A n \in Tokens : token[n] = NoToken => token'[n] = NoToken,
         \A c \in Clients : req'[c] \in {req[c], Ready} \/
            /\ user[req'[c].user].exists
            /\ req'[c].step = "rotate" => token'[req'[c].with] # NoToken
            /\ req'[c].step = "issue" /\ req'[c].with \in Tokens =>
                 token'[req'[c].with].state = "revoked"
            /\ req'[c].step = "reset" => reset[req'[c].with] # NoToken
  PROVE  References'
<1>1. /\ \A n \in Tokens : token'[n] = NoToken \/ user[token'[n].owner].exists
      /\ \A n \in Resets : reset[n] = NoToken \/ user[reset[n].owner].exists
      /\ \A k \in marking : key[k] # NoKey
  BY DEF AccessInv, References, TokensKept
<1> QED
  BY <1>1, ReferencesKept

-----------------------------------------------------------------------------
(* The steps *)

LEMMA Started ==
  ASSUME AccessInv, NEW c \in Clients, NEW u \in Users, NEW v \in 0 .. MaxVersion,
         NEW step, NEW with, Start(c, step, u, with, v),
         \/ step = "issue" /\ with = 0
         \/ step \in {"rotate", "revokeAll"} /\ with \in Tokens
         \/ step = "reset" /\ with \in Resets
         \/ step \in {"create", "change"} /\ with = 0
  PROVE  /\ req' \in [Clients -> Request]
         /\ req'[c] = [step |-> step, user |-> u, with |-> with, version |-> v]
         /\ \A d \in Clients \ {c} : req'[d] = req[d]
<1>1. [step |-> step, user |-> u, with |-> with, version |-> v] \in Request
  BY DEF Request, Working
<1> QED
  BY <1>1 DEF Start, AccessInv, AccessTypeOK

LEMMA Finished ==
  ASSUME AccessInv, NEW c \in Clients, req' = [req EXCEPT ![c] = Ready]
  PROVE  /\ req' \in [Clients -> Request]
         /\ req'[c] = Ready /\ \A d \in Clients \ {c} : req'[d] = req[d]
  BY DEF AccessInv, AccessTypeOK, Request

\* A change of the password.
LEMMA PasswordChanged ==
  ASSUME AccessInv, NEW u \in Users, NewPassword(u)
  PROVE  /\ user' \in [Users -> UserRow]
         /\ \A v \in Users : user'[v].exists = user[v].exists
         /\ user'[u].password = user[u].password + 1
         /\ \A v \in Users \ {u} : user'[v] = user[v]
         /\ user[u].password \in Nat /\ user[u].password + 1 \in 0 .. MaxVersion
         /\ TokensKept
         /\ \A n \in Tokens : token[n] = NoToken => token'[n] = NoToken
<1>1. user \in [Users -> UserRow] /\ user[u].password < MaxVersion
  BY DEF NewPassword, AccessInv, AccessTypeOK
<1>2. user' = [user EXCEPT ![u].password = user[u].password + 1]
  BY DEF NewPassword
<1>3. /\ user[u].password \in Nat
      /\ user[u].password + 1 \in 0 .. MaxVersion
  BY <1>1, AccessAssumption DEF UserRow
<1>4. [user[u] EXCEPT !.password = user[u].password + 1] \in UserRow
  BY <1>1, <1>3 DEF UserRow
<1>5. /\ user' \in [Users -> UserRow]
      /\ \A v \in Users : user'[v].exists = user[v].exists
      /\ user'[u].password = user[u].password + 1
      /\ \A v \in Users \ {u} : user'[v] = user[v]
  BY <1>1, <1>2, <1>4 DEF UserRow
<1>6. token' = Revoked(u)
  BY DEF NewPassword, RevokedByChange
<1> QED
  BY <1>3, <1>5, <1>6, RevokedKept

LEMMA AccessInvStep == AccessInv /\ [AccessNext]_accessVars => AccessInv'
<1> SUFFICES ASSUME AccessInv, [AccessNext]_accessVars PROVE AccessTypeOK' /\ References'
  BY DEF AccessInv
<1>0. /\ AccessTypeOK /\ References
      /\ TokensKept \/ token' # token
  BY DEF AccessInv, AccessTypeOK, TokensKept
<1> DEFINE Goal == AccessTypeOK' /\ References'
<1> USE DEF sessionVars, keyVars
<1>1. CASE UNCHANGED accessVars
  BY <1>0, <1>1, SessionsUntouched DEF accessVars, AccessTypeOK, References
\* Sessions.
<1>2. ASSUME NEW c \in Clients, NEW u \in Users, LoginRead(c, u) PROVE Goal
  <2>1. user[u].exists /\ user[u].password \in 0 .. MaxVersion
    BY <1>0, <1>2 DEF LoginRead, Authenticated, AccessTypeOK, UserRow
  <2>2. /\ req' \in [Clients -> Request]
        /\ req'[c] = [step |-> "issue", user |-> u, with |-> 0, version |-> user[u].password]
        /\ \A d \in Clients \ {c} : req'[d] = req[d]
    BY <1>2, <2>1, Started DEF LoginRead
  <2>3. UNCHANGED <<user, token, reset, key, marking>>
    BY <1>2 DEF LoginRead
  <2>4. References'
    BY <1>0, <2>1, <2>2, <2>3, SessionsMove DEF Tokens
  <2> QED
    BY <1>0, <1>2, <2>2, <2>4 DEF LoginRead, AccessTypeOK
<1>3. ASSUME NEW c \in Clients, Issue(c) PROVE Goal
  <2>1. req' = [req EXCEPT ![c] = Ready] /\ late' = late \ {c} /\ req[c] # Ready
    BY <1>3, IdleStep DEF Issue, Finish
  <2>2. /\ req' \in [Clients -> Request]
        /\ req'[c] = Ready /\ \A d \in Clients \ {c} : req'[d] = req[d]
    BY <2>1, Finished
  <2>3. UNCHANGED <<user, reset, key, marking>> /\ user[req[c].user].exists
    BY <1>0, <1>3, <2>1 DEF Issue, References
  <2>4. \A n \in Tokens : token'[n] = NoToken \/ user[token'[n].owner].exists
    <3>1. ASSUME NEW n \in Tokens, token[n] # NoToken, n # NextToken
          PROVE  token'[n] = NoToken \/ user[token'[n].owner].exists
      BY <1>0, <1>3, <3>1, IssueKept DEF References
    <3>2. ASSUME NEW n \in Tokens, token[n] = NoToken, n # NextToken
          PROVE  token'[n] = NoToken
      BY <1>3, <3>2, IssueKept
    <3>3. user[token'[NextToken].owner].exists
      BY <1>3, <2>3, IssueKept
    <3> QED
      BY <3>1, <3>2, <3>3
  <2>5. References'
    BY <1>0, <1>3, <2>2, <2>3, <2>4, IssueKept, ReferencesKept DEF References
  <2>6. straddling' \subseteq Tokens
    BY <1>0, <1>3, IssueKept DEF Issue, AccessTypeOK
  <2>7. pairs' \in [Tokens -> Nat]
    <3>1. CASE req[c].with \in Tokens
      BY <1>0, <1>3, <3>1 DEF Issue, AccessTypeOK
    <3>2. CASE req[c].with \notin Tokens
      BY <1>0, <1>3, <3>2 DEF Issue, AccessTypeOK
    <3> QED
      BY <3>1, <3>2
  <2> QED
    BY <1>0, <1>3, <2>1, <2>2, <2>5, <2>6, <2>7, IssueKept DEF Issue, TokensKept, AccessTypeOK
<1>4. ASSUME NEW c \in Clients, NEW n \in Tokens, RefreshRead(c, n) PROVE Goal
  <2>1. /\ token[n] # NoToken /\ token[n].owner \in Users /\ token[n].version \in 0 .. MaxVersion
        /\ user[token[n].owner].exists
    BY <1>0, <1>4, Rows DEF RefreshRead, References
  <2>2. RefreshStep(n) \in {"rotate", "revokeAll"}
    BY DEF RefreshStep
  <2>3. /\ req' \in [Clients -> Request]
        /\ req'[c] = [step |-> RefreshStep(n), user |-> token[n].owner, with |-> n,
                      version |-> token[n].version]
        /\ \A d \in Clients \ {c} : req'[d] = req[d]
    BY <1>4, <2>1, <2>2, Started DEF RefreshRead
  <2>4. UNCHANGED <<user, token, reset, key, marking>>
    BY <1>4 DEF RefreshRead
  <2>5. References'
    BY <1>0, <2>1, <2>2, <2>3, <2>4, SessionsMove
  <2>6. /\ overlapped' \in [tokens : SUBSET Tokens, resets : SUBSET Resets]
        /\ late' \subseteq Clients
    BY <1>0, <1>4 DEF RefreshRead, AccessTypeOK
  <2> QED
    BY <1>0, <1>4, <2>3, <2>5, <2>6 DEF RefreshRead, AccessTypeOK
<1>5. ASSUME NEW c \in Clients, Rotate(c) PROVE Goal
  <2>1. /\ req[c] # Ready /\ req[c].with \in Tokens /\ token[req[c].with] # NoToken
        /\ req[c].user \in Users /\ user[req[c].user].exists
    BY <1>0, <1>5, IdleStep, Works DEF Rotate, References
  <2>2. TokensKept /\ token'[req[c].with].state = "revoked"
        /\ \A n \in Tokens : token[n] = NoToken => token'[n] = NoToken
    BY <1>0, <1>5, <2>1, OneRevokedKept DEF Rotate, AccessTypeOK
  <2>3. [req[c] EXCEPT !.step = "issue"] \in Working({"issue"}, {0} \union Tokens)
    BY <1>0, <1>5, <2>1 DEF Rotate, AccessTypeOK, Request, Working
  <2>4. /\ req'[c] = [req[c] EXCEPT !.step = "issue"]
        /\ req' \in [Clients -> Request]
        /\ \A d \in Clients \ {c} : req'[d] = req[d]
    BY <1>0, <1>5, <2>3 DEF Rotate, AccessTypeOK, Request
  <2>5. /\ req'[c].step = "issue" /\ req'[c].with = req[c].with /\ req'[c].user = req[c].user
    BY <1>0, <2>1, <2>4 DEF AccessTypeOK, Request, Working
  <2>6. UNCHANGED <<user, reset, key, marking>>
    BY <1>5 DEF Rotate
  <2>7. References'
    BY <1>0, <2>1, <2>2, <2>4, <2>5, <2>6, SessionsMove
  <2> QED
    BY <1>0, <1>5, <2>2, <2>4, <2>7 DEF Rotate, TokensKept, AccessTypeOK
<1>6. ASSUME NEW c \in Clients, RevokeAll(c) PROVE Goal
  <2>1. req' = [req EXCEPT ![c] = Ready] /\ late' = late \ {c}
    BY <1>6 DEF RevokeAll, Finish
  <2>2. /\ req' \in [Clients -> Request]
        /\ req'[c] = Ready /\ \A d \in Clients \ {c} : req'[d] = req[d]
    BY <2>1, Finished
  <2>3. TokensKept /\ \A n \in Tokens : token[n] = NoToken => token'[n] = NoToken
    BY <1>6, RevokedKept DEF RevokeAll
  <2>4. UNCHANGED <<user, reset, key, marking>>
    BY <1>6 DEF RevokeAll
  <2>5. References'
    BY <1>0, <2>2, <2>3, <2>4, SessionsMove
  <2> QED
    BY <1>0, <1>6, <2>1, <2>2, <2>3, <2>5 DEF RevokeAll, TokensKept, AccessTypeOK
<1>7. ASSUME NEW u \in Users, LogoutAll(u) \/ \E n \in Tokens : Logout(u, n) PROVE Goal
  <2>1. TokensKept /\ \A n \in Tokens : token[n] = NoToken => token'[n] = NoToken
    <3>1. CASE LogoutAll(u)
      BY <3>1, RevokedKept DEF LogoutAll
    <3>2. ASSUME NEW n \in Tokens, Logout(u, n)
          PROVE  TokensKept /\ \A m \in Tokens : token[m] = NoToken => token'[m] = NoToken
      <4>1. token[n] # NoToken
        BY <3>2 DEF Logout, NoToken
      <4> QED
        BY <1>0, <3>2, <4>1, OneRevokedKept DEF Logout, AccessTypeOK
    <3> QED
      BY <1>7, <3>1, <3>2
  <2>2. UNCHANGED <<user, reset, key, marking, req>>
    BY <1>7 DEF LogoutAll, Logout
  <2>3. References'
    BY <1>0, <2>1, <2>2, SessionsMove
  <2> QED
    BY <1>0, <1>7, <2>1, <2>3 DEF LogoutAll, Logout, TokensKept, AccessTypeOK
<1>8. ASSUME NEW c \in Clients, NEW u \in Users, ForgotPassword(c, u) PROVE Goal
  <2>1. /\ UNCHANGED <<user, token, key, marking>>
        /\ user[u].exists /\ 0 \in 0 .. MaxVersion
    BY <1>8, AccessAssumption DEF ForgotPassword
  <2>2. /\ req' \in [Clients -> Request]
        /\ req'[c] = [step |-> "create", user |-> u, with |-> 0, version |-> 0]
        /\ \A d \in Clients \ {c} : req'[d] = req[d]
    BY <1>8, <2>1, Started DEF ForgotPassword
  <2>3. ASSUME NEW n \in Resets
        PROVE  /\ reset'[n] \in ResetRow
               /\ reset[n] # NoToken => reset'[n] # NoToken
               /\ reset'[n] = NoToken \/ user[reset'[n].owner].exists
    <3>1. CASE reset[n].owner = u /\ reset[n].state = "open"
      <4>1. reset'[n] = [reset[n] EXCEPT !.state = "used"]
        BY <1>8, <3>1 DEF ForgotPassword
      <4>2. reset[n] \in ResetRow \ {NoToken}
        BY <1>0, <3>1 DEF AccessTypeOK, NoToken
      <4>3. [reset[n] EXCEPT !.state = "used"] \in ResetRow \ {NoToken}
            /\ [reset[n] EXCEPT !.state = "used"].owner = u
        BY <3>1, <4>2 DEF ResetRow, NoToken
      <4> QED
        BY <2>1, <4>1, <4>3
    <3>2. CASE ~(reset[n].owner = u /\ reset[n].state = "open")
      <4>1. reset'[n] = reset[n]
        BY <1>8, <3>2 DEF ForgotPassword
      <4> QED
        BY <1>0, <4>1 DEF AccessTypeOK, References
    <3> QED
      BY <3>1, <3>2
  <2>4. reset' \in [Resets -> ResetRow]
    BY <1>8, <2>3 DEF ForgotPassword
  <2>5. References'
    BY <1>0, <2>1, <2>2, <2>3, ReferencesKept DEF References
  <2> QED
    BY <1>0, <1>8, <2>2, <2>4, <2>5 DEF ForgotPassword, AccessTypeOK
<1>9. ASSUME NEW c \in Clients, CreateReset(c) PROVE Goal
  <2>1. /\ req' = [req EXCEPT ![c] = Ready] /\ late' = late \ {c}
        /\ UNCHANGED <<user, token, key, marking>>
    BY <1>9 DEF CreateReset, Finish
  <2>2. /\ req' \in [Clients -> Request]
        /\ req'[c] = Ready /\ \A d \in Clients \ {c} : req'[d] = req[d]
    BY <2>1, Finished
  <2>3. req[c].user \in Users /\ user[req[c].user].exists
    BY <1>0, <1>9, IdleStep, Works DEF CreateReset, References
  <2>4. [NoToken EXCEPT !.owner = req[c].user, !.state = "open"] \in ResetRow \ {NoToken}
    BY <2>3 DEF NoToken, ResetRow
  <2>5. NextReset \in Resets
    BY <1>9 DEF CreateReset, NextReset, Unopened
  <2>6. /\ reset'[NextReset] = [NoToken EXCEPT !.owner = req[c].user, !.state = "open"]
        /\ \A n \in Resets \ {NextReset} : reset'[n] = reset[n]
        /\ reset' \in [Resets -> ResetRow]
    BY <1>0, <1>9, <2>4, <2>5 DEF CreateReset, AccessTypeOK
  <2>7. reset'[NextReset].owner = req[c].user
    BY <2>6 DEF NoToken
  <2>8. \A n \in Resets : /\ reset[n] # NoToken => reset'[n] # NoToken
                          /\ reset'[n] = NoToken \/ user[reset'[n].owner].exists
    BY <1>0, <2>3, <2>4, <2>6, <2>7 DEF References
  <2>9. References'
    BY <1>0, <2>1, <2>2, <2>8, ReferencesKept DEF References
  <2> QED
    BY <1>0, <1>9, <2>1, <2>2, <2>6, <2>9 DEF CreateReset, AccessTypeOK
<1>10. ASSUME NEW c \in Clients, NEW n \in Resets, ResetRead(c, n) PROVE Goal
  <2>1. reset[n] # NoToken /\ reset[n].owner \in Users /\ user[reset[n].owner].exists
    BY <1>0, <1>10, Rows DEF ResetRead, References
  <2>2. UNCHANGED <<user, token, reset, key, marking>> /\ 0 \in 0 .. MaxVersion
    BY <1>10, AccessAssumption DEF ResetRead
  <2>3. /\ req' \in [Clients -> Request]
        /\ req'[c] = [step |-> "reset", user |-> reset[n].owner, with |-> n, version |-> 0]
        /\ \A d \in Clients \ {c} : req'[d] = req[d]
    BY <1>10, <2>1, <2>2, Started DEF ResetRead
  <2>4. References'
    BY <1>0, <2>1, <2>2, <2>3, SessionsMove
  <2>5. overlapped' \in [tokens : SUBSET Tokens, resets : SUBSET Resets]
    BY <1>0, <1>10 DEF ResetRead, AccessTypeOK
  <2> QED
    BY <1>0, <1>10, <2>3, <2>4, <2>5 DEF ResetRead, AccessTypeOK
<1>11. ASSUME NEW c \in Clients, ResetCommit(c) PROVE Goal
  <2>1. /\ req[c] # Ready /\ req[c].user \in Users
        /\ req[c].with \in Resets /\ reset[req[c].with] # NoToken
        /\ user[reset[req[c].with].owner].exists
    BY <1>0, <1>11, IdleStep, Works DEF ResetCommit, References
  <2>2. /\ NewPassword(req[c].user) /\ UNCHANGED <<key, marking>>
        /\ req' = [req EXCEPT ![c] = Ready]
        /\ late' = (late \union UnderWay(req[c].user)) \ {c}
        /\ reset' = [reset EXCEPT ![req[c].with].state = "used"]
    BY <1>11 DEF ResetCommit
  <2>3. /\ req' \in [Clients -> Request]
        /\ req'[c] = Ready /\ \A d \in Clients \ {c} : req'[d] = req[d]
    BY <2>2, Finished
  <2>4. reset[req[c].with] \in ResetRow \ {NoToken}
    BY <1>0, <2>1 DEF AccessTypeOK
  <2>5. /\ [reset[req[c].with] EXCEPT !.state = "used"] \in ResetRow \ {NoToken}
        /\ [reset[req[c].with] EXCEPT !.state = "used"].owner = reset[req[c].with].owner
    BY <2>4 DEF ResetRow, NoToken
  <2>6. /\ reset'[req[c].with] = [reset[req[c].with] EXCEPT !.state = "used"]
        /\ \A n \in Resets \ {req[c].with} : reset'[n] = reset[n]
        /\ reset' \in [Resets -> ResetRow]
    BY <1>0, <2>1, <2>2, <2>5 DEF AccessTypeOK
  <2>7. /\ user' \in [Users -> UserRow] /\ TokensKept
        /\ \A u \in Users : user'[u].exists = user[u].exists
        /\ \A n \in Tokens : token[n] = NoToken => token'[n] = NoToken
    BY <2>1, <2>2, PasswordChanged
  <2>8. /\ \A n \in Tokens : token'[n] = NoToken \/ user'[token'[n].owner].exists
        /\ \A n \in Resets : reset'[n] = NoToken \/ user'[reset'[n].owner].exists
    <3>1. /\ \A n \in Tokens : token[n] # NoToken => user'[token[n].owner].exists
          /\ \A n \in Resets : reset[n] # NoToken => user'[reset[n].owner].exists
      BY <1>0, <2>7, Rows DEF References
    <3>2. ASSUME NEW n \in Resets PROVE reset'[n] = NoToken \/ user'[reset'[n].owner].exists
      <4>1. reset'[n].owner = reset[n].owner \/ reset'[n] = reset[n]
        BY <2>5, <2>6
      <4> QED
        BY <2>1, <2>6, <3>1, <4>1
    <3> QED
      BY <2>7, <3>1, <3>2 DEF TokensKept
  <2>9. References'
    BY <1>0, <2>2, <2>3, <2>5, <2>6, <2>7, <2>8, ReferencesKept DEF References
  <2>10. uses' \in [Resets -> Nat] /\ late' \subseteq Clients
    BY <1>0, <1>11, <2>1, <2>2 DEF ResetCommit, AccessTypeOK, UnderWay
  <2> QED
    BY <1>0, <1>11, <2>3, <2>6, <2>7, <2>9, <2>10 DEF ResetCommit, TokensKept, AccessTypeOK
<1>12. ASSUME NEW c \in Clients, NEW u \in Users, ChangeRead(c, u) PROVE Goal
  <2>1. user[u].exists
    BY <1>12 DEF ChangeRead, Admits, AccountRoutes, Session, Authenticated
  <2>2. UNCHANGED <<user, token, reset, key, marking>> /\ 0 \in 0 .. MaxVersion
    BY <1>12, AccessAssumption DEF ChangeRead
  <2>3. /\ req' \in [Clients -> Request]
        /\ req'[c] = [step |-> "change", user |-> u, with |-> 0, version |-> 0]
        /\ \A d \in Clients \ {c} : req'[d] = req[d]
    BY <1>12, <2>2, Started DEF ChangeRead
  <2>4. References'
    BY <1>0, <2>1, <2>2, <2>3, SessionsMove
  <2> QED
    BY <1>0, <1>12, <2>3, <2>4 DEF ChangeRead, AccessTypeOK
<1>13. ASSUME NEW c \in Clients, ChangeCommit(c) PROVE Goal
  <2>1. /\ req[c] # Ready /\ req[c].user \in Users /\ user[req[c].user].exists
    BY <1>0, <1>13, IdleStep, Works DEF ChangeCommit, References
  <2>2. /\ NewPassword(req[c].user) /\ UNCHANGED <<reset, key, marking>>
        /\ Start(c, "issue", req[c].user, 0, user[req[c].user].password + 1)
    BY <1>13 DEF ChangeCommit
  <2>3. /\ user' \in [Users -> UserRow] /\ TokensKept
        /\ \A u \in Users : user'[u].exists = user[u].exists
        /\ \A n \in Tokens : token[n] = NoToken => token'[n] = NoToken
        /\ user[req[c].user].password + 1 \in 0 .. MaxVersion
    BY <2>1, <2>2, PasswordChanged
  <2>4. /\ req' \in [Clients -> Request]
        /\ req'[c] = [step |-> "issue", user |-> req[c].user, with |-> 0,
                      version |-> user[req[c].user].password + 1]
        /\ \A d \in Clients \ {c} : req'[d] = req[d]
    BY <2>1, <2>2, <2>3, Started
  <2>5. /\ \A n \in Tokens : token'[n] = NoToken \/ user'[token'[n].owner].exists
        /\ \A n \in Resets : reset'[n] = NoToken \/ user'[reset'[n].owner].exists
    BY <1>0, <2>2, <2>3, Rows DEF TokensKept, References
  <2>6. References'
    BY <1>0, <2>1, <2>2, <2>3, <2>4, <2>5, ReferencesKept DEF References, Tokens
  <2>7. late' \subseteq Clients
    BY <1>0, <1>13 DEF ChangeCommit, AccessTypeOK, UnderWay
  <2> QED
    BY <1>0, <1>13, <2>3, <2>4, <2>6, <2>7 DEF ChangeCommit, TokensKept, AccessTypeOK
<1>14. ASSUME NEW c \in Clients, ClientFails(c) PROVE Goal
  <2>1. /\ req' = [req EXCEPT ![c] = Ready] /\ late' = late \ {c}
        /\ UNCHANGED <<user, token, reset, key, marking>>
    BY <1>14 DEF ClientFails, Finish
  <2>2. /\ req' \in [Clients -> Request]
        /\ req'[c] = Ready /\ \A d \in Clients \ {c} : req'[d] = req[d]
    BY <2>1, Finished
  <2>3. References'
    BY <1>0, <2>1, <2>2, SessionsMove
  <2> QED
    BY <1>0, <1>14, <2>1, <2>2, <2>3 DEF ClientFails, AccessTypeOK
<1>15. ASSUME NEW n \in Tokens, TokenExpires(n) PROVE Goal
  <2>1. token[n] \in TokenRow \ {NoToken} /\ token' = [token EXCEPT ![n].expired = TRUE]
    BY <1>0, <1>15 DEF TokenExpires, AccessTypeOK, NoToken
  <2>2. /\ [token[n] EXCEPT !.expired = TRUE] \in TokenRow \ {NoToken}
        /\ [token[n] EXCEPT !.expired = TRUE].owner = token[n].owner
        /\ [token[n] EXCEPT !.expired = TRUE].state = token[n].state
    BY <2>1 DEF TokenRow, NoToken
  <2>3. TokensKept /\ \A m \in Tokens : token[m] = NoToken => token'[m] = NoToken
    BY <1>0, <2>1, <2>2 DEF TokensKept, AccessTypeOK
  <2>4. UNCHANGED <<user, reset, key, marking, req>>
    BY <1>15 DEF TokenExpires
  <2>5. References'
    BY <1>0, <2>3, <2>4, SessionsMove
  <2> QED
    BY <1>0, <1>15, <2>3, <2>5 DEF TokenExpires, TokensKept, AccessTypeOK
<1>16. ASSUME NEW n \in Resets, ResetExpires(n) PROVE Goal
  <2>1. reset[n] \in ResetRow \ {NoToken} /\ reset' = [reset EXCEPT ![n].expired = TRUE]
    BY <1>0, <1>16 DEF ResetExpires, AccessTypeOK, NoToken
  <2>2. /\ [reset[n] EXCEPT !.expired = TRUE] \in ResetRow \ {NoToken}
        /\ [reset[n] EXCEPT !.expired = TRUE].owner = reset[n].owner
    BY <2>1 DEF ResetRow, NoToken
  <2>3. /\ reset' \in [Resets -> ResetRow]
        /\ reset'[n] # NoToken /\ reset'[n].owner = reset[n].owner
        /\ \A m \in Resets \ {n} : reset'[m] = reset[m]
    BY <1>0, <2>1, <2>2 DEF AccessTypeOK
  <2>4. UNCHANGED <<user, token, key, marking, req>>
    BY <1>16 DEF ResetExpires
  <2>5. References'
    BY <1>0, <2>1, <2>3, <2>4, ReferencesKept DEF References
  <2> QED
    BY <1>0, <1>16, <2>3, <2>5 DEF ResetExpires, AccessTypeOK
\* Tenants and members.
<1>17. ASSUME NEW c \in Clients, NEW u \in Users, NEW t \in Tenants, Register(c, u, t) PROVE Goal
  <2>1. NewUser \in UserRow /\ NewUser.exists /\ 1 \in 0 .. MaxVersion
    BY AccessAssumption DEF NewUser, UserRow
  <2>2. /\ user' \in [Users -> UserRow] /\ user'[u] = NewUser
        /\ \A v \in Users \ {u} : user'[v] = user[v]
    BY <1>0, <1>17, <2>1 DEF Register, AccessTypeOK
  <2>3. tenant' \in [Tenants -> TenantStatus \union {"ABSENT"}]
    BY <1>0, <1>17 DEF Register, AccessTypeOK, TenantStatus
  <2>4. role' \in [Users \X Tenants -> Roles \union {"NONE"}]
    BY <1>0, <1>17 DEF Register, AccessTypeOK, Roles
  <2>5. /\ req' \in [Clients -> Request]
        /\ req'[c] = [step |-> "issue", user |-> u, with |-> 0, version |-> 1]
        /\ \A d \in Clients \ {c} : req'[d] = req[d]
    BY <1>17, <2>1, Started DEF Register
  <2>6. UNCHANGED <<token, reset, key, marking>>
    BY <1>17 DEF Register
  <2>7. /\ \A n \in Tokens : token'[n] = NoToken \/ user'[token'[n].owner].exists
        /\ \A n \in Resets : reset'[n] = NoToken \/ user'[reset'[n].owner].exists
    BY <1>0, <2>1, <2>2, <2>6, Rows DEF References
  <2>8. References'
    BY <1>0, <2>1, <2>2, <2>5, <2>6, <2>7, ReferencesKept DEF References, Tokens
  <2> QED
    BY <1>0, <1>17, <2>2, <2>3, <2>4, <2>5, <2>8 DEF Register, AccessTypeOK
<1>18. ASSUME NEW u \in Users, NEW t \in Tenants,
              \/ CreateTenant(u, t) \/ RemoveTenant(u, t)
              \/ \E s \in TenantStatus : UpdateTenant(u, t, s)
       PROVE  Goal
  <2>1. tenant' \in [Tenants -> TenantStatus \union {"ABSENT"}]
    BY <1>0, <1>18 DEF CreateTenant, RemoveTenant, UpdateTenant, Removed, AccessTypeOK, TenantStatus
  <2>2. role' \in [Users \X Tenants -> Roles \union {"NONE"}]
    BY <1>0, <1>18 DEF CreateTenant, RemoveTenant, UpdateTenant, AccessTypeOK, Roles
  <2>3. UNCHANGED <<user, deployment, sessionVars, keyVars>>
    BY <1>18 DEF CreateTenant, RemoveTenant, UpdateTenant
  <2>4. References'
    BY <1>0, <2>3, SessionsUntouched DEF References
  <2> QED
    BY <1>0, <2>1, <2>2, <2>3, <2>4 DEF AccessTypeOK
<1>19. ASSUME NEW a \in Users, NEW u \in Users, NEW t \in Tenants,
              AddMember(a, u, t) \/ \E b \in BOOLEAN : UpdateUser(a, u, t, b)
       PROVE  Goal
  <2>1. NewUser \in UserRow /\ NewUser.exists
    BY AccessAssumption DEF NewUser, UserRow
  <2>2. user' \in [Users -> UserRow] /\ \A v \in Users : user[v].exists => user'[v].exists
    <3>1. CASE AddMember(a, u, t)
      BY <1>0, <2>1, <3>1 DEF AddMember, AccessTypeOK
    <3>2. ASSUME NEW b \in BOOLEAN, UpdateUser(a, u, t, b) PROVE <2>2
      BY <1>0, <3>2 DEF UpdateUser, AccessTypeOK, UserRow
    <3> QED
      BY <1>19, <3>1, <3>2
  <2>3. role' \in [Users \X Tenants -> Roles \union {"NONE"}]
    BY <1>0, <1>19 DEF AddMember, UpdateUser, AccessTypeOK, Roles
  <2>4. UNCHANGED <<tenant, deployment, sessionVars, keyVars>>
    BY <1>19 DEF AddMember, UpdateUser
  <2>5. References'
    BY <1>0, <2>2, <2>4, SessionsUntouched DEF References
  <2> QED
    BY <1>0, <2>2, <2>3, <2>4, <2>5 DEF AccessTypeOK
\* Keys.
<1>20. ASSUME NEW k \in Keys,
              \/ \E u \in Users, t \in Tenants : CreateKey(u, t, k) \/ RevokeKey(u, t, k)
              \/ KeyExpires(k) \/ AuthenticateDue(k) \/ MarkExpired(k)
       PROVE  Goal
  <2>1. UNCHANGED <<user, tenant, role, deployment, sessionVars>>
    BY <1>20 DEF CreateKey, RevokeKey, KeyExpires, AuthenticateDue, MarkExpired
  <2>2. /\ key' \in [Keys -> KeyRow] /\ \A j \in Keys : key[j] # NoKey => key'[j] # NoKey
    <3>1. ASSUME NEW u \in Users, NEW t \in Tenants, CreateKey(u, t, k) PROVE <2>2
      BY <1>0, <3>1 DEF CreateKey, AccessTypeOK, KeyRow
    <3>2. ASSUME NEW u \in Users, NEW t \in Tenants, RevokeKey(u, t, k) PROVE <2>2
      <4>1. key[k] \in KeyRow \ {NoKey}
        BY <1>0, <3>2, AccessAssumption DEF RevokeKey, AccessTypeOK, NoKey
      <4>2. [key[k] EXCEPT !.status = "REVOKED"] \in KeyRow \ {NoKey}
        BY <4>1 DEF KeyRow, NoKey
      <4> QED
        BY <1>0, <3>2, <4>2 DEF RevokeKey, AccessTypeOK
    <3>3. CASE KeyExpires(k)
      <4>1. key[k] \in KeyRow \ {NoKey}
        BY <1>0, <3>3 DEF KeyExpires, AccessTypeOK
      <4>2. [key[k] EXCEPT !.due = TRUE] \in KeyRow \ {NoKey}
        BY <4>1 DEF KeyRow, NoKey
      <4> QED
        BY <1>0, <3>3, <4>2 DEF KeyExpires, AccessTypeOK
    <3>4. CASE AuthenticateDue(k)
      BY <1>0, <3>4 DEF AuthenticateDue, AccessTypeOK
    <3>5. CASE MarkExpired(k)
      <4>1. key[k] \in KeyRow \ {NoKey}
        BY <1>0, <3>5 DEF MarkExpired, AccessTypeOK, References
      <4>2. [key[k] EXCEPT !.status = "EXPIRED"] \in KeyRow \ {NoKey}
        BY <4>1 DEF KeyRow, NoKey
      <4> QED
        BY <1>0, <3>5, <4>2 DEF MarkExpired, AccessTypeOK
    <3> QED
      BY <1>20, <3>1, <3>2, <3>3, <3>4, <3>5
  <2>3. /\ marking' \subseteq Keys /\ seenDue' \subseteq Keys
        /\ \A j \in marking' : key[j] # NoKey
    <3>1. CASE UNCHANGED seenDue /\ marking' \subseteq marking
      BY <1>0, <3>1 DEF AccessTypeOK, References
    <3>2. CASE AuthenticateDue(k)
      <4>1. key[k] # NoKey
        BY <3>2 DEF AuthenticateDue, MustMark, NoKey
      <4> QED
        BY <1>0, <3>2, <4>1 DEF AuthenticateDue, AccessTypeOK, References
    <3> QED
      BY <1>20, <3>1, <3>2 DEF CreateKey, RevokeKey, KeyExpires, MarkExpired
  <2>4. References'
    BY <1>0, <2>1, <2>2, <2>3, SessionsUntouched DEF AccessTypeOK
  <2> QED
    BY <1>0, <2>1, <2>2, <2>3, <2>4 DEF AccessTypeOK
<1> QED
  BY <1>1, <1>2, <1>3, <1>4, <1>5, <1>6, <1>7, <1>8, <1>9, <1>10, <1>11, <1>12, <1>13, <1>14,
     <1>15, <1>16, <1>17, <1>18, <1>19, <1>20
  DEF AccessNext, SessionNext, TenantNext

\* Users, members, sessions, resets and keys are what their columns allow.
THEOREM AccessTypes == AccessSpec => []AccessTypeOK
<1>1. AccessInv => AccessTypeOK
  BY DEF AccessInv
<1> QED
  BY <1>1, AccessInvInit, AccessInvStep, PTL DEF AccessSpec

-----------------------------------------------------------------------------
(* Owners *)

OnlyOwner(u, t) ==
    role[<<u, t>>] = "OWNER" /\ \A v \in Users : role[<<v, t>>] = "OWNER" => v = u

\* Why its owner can be active or not.
Vouched(u, t) ==
    user[u].active \/ \E s \in Tenants \ {t} : role[<<u, s>>] = "DEVELOPER"

\* Only two roles are ever given, and a tenant that does not exist has no members.
OwnerInv ==
    /\ AccessTypeOK
    /\ \A m \in Users \X Tenants : role[m] \in {"OWNER", "DEVELOPER", "NONE"}
    /\ \A u \in Users, t \in Tenants : tenant[t] = "ABSENT" => role[<<u, t>>] = "NONE"
    /\ \A t \in Tenants :
         tenant[t] # "ABSENT" => \E u \in Users : OnlyOwner(u, t) /\ Vouched(u, t)

LEMMA OwnerInvStep == OwnerInv /\ AccessTypeOK' /\ [AccessNext]_accessVars => OwnerInv'
<1> SUFFICES ASSUME OwnerInv, AccessTypeOK', [AccessNext]_accessVars PROVE OwnerInv'
  OBVIOUS
<1>0. /\ user \in [Users -> UserRow]
      /\ tenant \in [Tenants -> TenantStatus \union {"ABSENT"}]
      /\ role \in [Users \X Tenants -> Roles \union {"NONE"}]
      /\ \A m \in Users \X Tenants : role[m] \in {"OWNER", "DEVELOPER", "NONE"}
      /\ \A u \in Users, t \in Tenants : tenant[t] = "ABSENT" => role[<<u, t>>] = "NONE"
  BY DEF OwnerInv, AccessTypeOK
<1>1. ASSUME UNCHANGED <<tenant, role>>,
             \A u \in Users : user[u].active => user'[u].active
      PROVE  OwnerInv'
  BY <1>1 DEF OwnerInv, OnlyOwner, Vouched
\* A tenant comes into being with its owner, who is active.
<1>2. ASSUME NEW u \in Users, NEW t \in Tenants, tenant[t] = "ABSENT",
             tenant' = [tenant EXCEPT ![t] = "ACTIVE"],
             role' = [role EXCEPT ![<<u, t>>] = "OWNER"],
             user'[u].active,
             \A v \in Users : user[v].active => user'[v].active
      PROVE  OwnerInv'
  <2>1. /\ \A m \in Users \X Tenants : m # <<u, t>> => role'[m] = role[m]
        /\ role'[<<u, t>>] = "OWNER" /\ role[<<u, t>>] = "NONE"
        /\ tenant'[t] = "ACTIVE" /\ \A s \in Tenants \ {t} : tenant'[s] = tenant[s]
    BY <1>0, <1>2
  <2>2. OnlyOwner(u, t)' /\ Vouched(u, t)'
    BY <1>0, <1>2, <2>1 DEF OnlyOwner, Vouched
  <2>3. ASSUME NEW s \in Tenants \ {t}, tenant[s] # "ABSENT"
        PROVE  \E v \in Users : (OnlyOwner(v, s) /\ Vouched(v, s))'
    <3>1. PICK v \in Users : OnlyOwner(v, s) /\ Vouched(v, s)
      BY <2>3 DEF OwnerInv
    <3>2. OnlyOwner(v, s)'
      BY <2>1, <2>3, <3>1 DEF OnlyOwner
    <3>3. Vouched(v, s)'
      BY <1>2, <2>1, <2>3, <3>1 DEF Vouched
    <3> QED
      BY <3>2, <3>3
  <2>4. \A m \in Users \X Tenants : role'[m] \in {"OWNER", "DEVELOPER", "NONE"}
    BY <1>0, <2>1
  <2>5. \A v \in Users, s \in Tenants : tenant'[s] = "ABSENT" => role'[<<v, s>>] = "NONE"
    BY <1>0, <2>1
  <2> QED
    BY <2>1, <2>2, <2>3, <2>4, <2>5 DEF OwnerInv
<1>3. ASSUME NEW c \in Clients, NEW u \in Users, NEW t \in Tenants, Register(c, u, t)
      PROVE  OwnerInv'
  <2>1. user'[u].active /\ \A v \in Users : user[v].active => user'[v].active
    BY <1>0, <1>3 DEF Register, NewUser
  <2> QED
    BY <1>2, <1>3, <2>1 DEF Register
<1>4. ASSUME NEW u \in Users, NEW t \in Tenants, CreateTenant(u, t) PROVE OwnerInv'
  <2>1. user[u].active
    BY <1>4 DEF CreateTenant, Admits, TenantCreation, Session, Authenticated
  <2> QED
    BY <1>2, <1>4, <2>1 DEF CreateTenant
\* A tenant that has members exists, and goes on existing.
<1>5. ASSUME NEW t \in Tenants, NEW s \in TenantStatus, NEW u \in Users,
             role[<<u, t>>] # "NONE", tenant' = [tenant EXCEPT ![t] = s],
             UNCHANGED <<user, role>>
      PROVE  OwnerInv'
  <2>1. \A r \in Tenants : tenant'[r] = "ABSENT" <=> tenant[r] = "ABSENT"
    BY <1>0, <1>5 DEF TenantStatus
  <2>2. \A r \in Tenants, v \in Users :
          (OnlyOwner(v, r) <=> OnlyOwner(v, r)') /\ (Vouched(v, r) <=> Vouched(v, r)')
    BY <1>5 DEF OnlyOwner, Vouched
  <2> QED
    BY <1>0, <1>5, <2>1, <2>2 DEF OwnerInv
<1>6. ASSUME NEW u \in Users, NEW t \in Tenants,
             RemoveTenant(u, t) \/ \E s \in TenantStatus : UpdateTenant(u, t, s)
      PROVE  OwnerInv'
  <2>1. role[<<u, t>>] # "NONE" /\ UNCHANGED <<user, role>>
    BY <1>6 DEF RemoveTenant, UpdateTenant, Admits, HasRole, Member, TenantRoutes, OneOf, Admins
  <2>2. PICK s \in TenantStatus : tenant' = [tenant EXCEPT ![t] = s]
    BY <1>6 DEF RemoveTenant, UpdateTenant, Removed, TenantStatus
  <2> QED
    BY <1>5, <2>1, <2>2
<1>7. ASSUME NEW a \in Users, NEW u \in Users, NEW t \in Tenants, AddMember(a, u, t)
      PROVE  OwnerInv'
  <2>1. /\ role[<<u, t>>] = "NONE" /\ tenant[t] # "ABSENT"
        /\ role' = [role EXCEPT ![<<u, t>>] = "DEVELOPER"] /\ tenant' = tenant
    BY <1>0, <1>7 DEF AddMember, Admits, HasRole, Member, UserRoutes, OneOf, Admins
  <2>2. /\ \A m \in Users \X Tenants : m # <<u, t>> => role'[m] = role[m]
        /\ role'[<<u, t>>] = "DEVELOPER"
    BY <1>0, <2>1
  <2>3. \A v \in Users : user[v].active => user'[v].active
    BY <1>0, <1>7 DEF AddMember, NewUser
  <2>4. ASSUME NEW s \in Tenants, tenant[s] # "ABSENT"
        PROVE  \E v \in Users : (OnlyOwner(v, s) /\ Vouched(v, s))'
    <3>1. PICK v \in Users : OnlyOwner(v, s) /\ Vouched(v, s)
      BY <2>4 DEF OwnerInv
    <3>2. OnlyOwner(v, s)'
      BY <2>1, <2>2, <3>1 DEF OnlyOwner
    <3>3. Vouched(v, s)'
      BY <2>1, <2>2, <2>3, <3>1 DEF Vouched
    <3> QED
      BY <3>2, <3>3
  <2>5. \A m \in Users \X Tenants : role'[m] \in {"OWNER", "DEVELOPER", "NONE"}
    BY <1>0, <2>2
  <2>6. \A v \in Users, s \in Tenants : tenant'[s] = "ABSENT" => role'[<<v, s>>] = "NONE"
    BY <1>0, <2>1, <2>2
  <2> QED
    BY <2>1, <2>4, <2>5, <2>6 DEF OwnerInv
\* Whoever is deactivated is a developer of the tenant it happens in.
<1>8. ASSUME NEW a \in Users, NEW u \in Users, NEW t \in Tenants, NEW b \in BOOLEAN,
             UpdateUser(a, u, t, b)
      PROVE  OwnerInv'
  <2>1. /\ a # u /\ role[<<a, t>>] = "OWNER" /\ role[<<u, t>>] # "NONE"
        /\ UNCHANGED <<tenant, role>>
    BY <1>8 DEF UpdateUser, MaySetActive, HasRole
  <2>2. tenant[t] # "ABSENT"
    BY <1>0, <2>1
  <2>3. role[<<u, t>>] = "DEVELOPER"
    <3>1. PICK v \in Users : OnlyOwner(v, t)
      BY <2>2 DEF OwnerInv
    <3>2. role[<<u, t>>] # "OWNER"
      BY <2>1, <3>1 DEF OnlyOwner
    <3> QED
      BY <1>0, <2>1, <3>2
  <2>4. \A v \in Users \ {u} : user'[v] = user[v]
    BY <1>0, <1>8 DEF UpdateUser
  <2>5. ASSUME NEW s \in Tenants, tenant[s] # "ABSENT"
        PROVE  \E v \in Users : (OnlyOwner(v, s) /\ Vouched(v, s))'
    <3>1. PICK v \in Users : OnlyOwner(v, s) /\ Vouched(v, s)
      BY <2>5 DEF OwnerInv
    <3>2. OnlyOwner(v, s)'
      BY <2>1, <3>1 DEF OnlyOwner
    <3>3. CASE v = u
      <4>1. s # t
        BY <2>3, <3>1, <3>3 DEF OnlyOwner
      <4> QED
        BY <2>1, <2>3, <3>2, <3>3, <4>1 DEF Vouched
    <3>4. CASE v # u
      BY <2>1, <2>4, <3>1, <3>2, <3>4 DEF Vouched
    <3> QED
      BY <3>3, <3>4
  <2> QED
    BY <1>0, <2>1, <2>5 DEF OwnerInv
<1>9. CASE SessionNext \/ UNCHANGED accessVars \/
        \E k \in Keys :
          \/ \E u \in Users, t \in Tenants : CreateKey(u, t, k) \/ RevokeKey(u, t, k)
          \/ KeyExpires(k) \/ AuthenticateDue(k) \/ MarkExpired(k)
  <2>1. ASSUME NEW c \in Clients, ResetCommit(c) \/ ChangeCommit(c) PROVE OwnerInv'
    <3>1. UNCHANGED <<tenant, role>> /\ NewPassword(req[c].user)
      BY <2>1 DEF ResetCommit, ChangeCommit
    <3>2. \A u \in Users : user'[u].active = user[u].active
      BY <1>0, <3>1 DEF NewPassword, UserRow
    <3> QED
      BY <1>1, <3>1, <3>2
  <2>2. ASSUME UNCHANGED <<user, tenant, role>> PROVE OwnerInv'
    BY <1>1, <2>2
  <2>3. CASE SessionNext
    <3>1. \A c \in Clients :
            \/ \E u \in Users : LoginRead(c, u) \/ ForgotPassword(c, u) \/ ChangeRead(c, u)
            \/ \E n \in Tokens : RefreshRead(c, n)
            \/ \E n \in Resets : ResetRead(c, n)
            => UNCHANGED <<user, tenant, role>>
      BY DEF LoginRead, ForgotPassword, ChangeRead, RefreshRead, ResetRead
    <3>2. \A c \in Clients :
            Issue(c) \/ Rotate(c) \/ RevokeAll(c) \/ CreateReset(c) \/ ClientFails(c)
            => UNCHANGED <<user, tenant, role>>
      BY DEF Issue, Rotate, RevokeAll, CreateReset, ClientFails
    <3>3. ASSUME \/ \E u \in Users : LogoutAll(u) \/ \E n \in Tokens : Logout(u, n)
                 \/ \E n \in Tokens : TokenExpires(n)
                 \/ \E n \in Resets : ResetExpires(n)
          PROVE  UNCHANGED <<user, tenant, role>>
      BY <3>3 DEF LogoutAll, Logout, TokenExpires, ResetExpires
    <3> QED
      BY <1>3, <2>1, <2>2, <2>3, <3>1, <3>2, <3>3 DEF SessionNext
  <2>4. CASE ~SessionNext
    BY <1>9, <2>2, <2>4
    DEF accessVars, CreateKey, RevokeKey, KeyExpires, AuthenticateDue, MarkExpired
  <2> QED
    BY <2>3, <2>4
<1> QED
  BY <1>4, <1>6, <1>7, <1>8, <1>9 DEF AccessNext, TenantNext

\* A tenant has one owner for ever, and only another tenant's owner deactivates him.
THEOREM OwnersStay == AccessSpec => []OwnerKept
<1>1. AccessInit => OwnerInv
  BY AccessInvInit DEF AccessInit, AccessInv, OwnerInv
<1>2. OwnerInv => OwnerKept
  <2> SUFFICES ASSUME OwnerInv, NEW t \in Tenants, tenant[t] # "ABSENT"
               PROVE  \E u \in Users :
                        /\ {v \in Users : role[<<v, t>>] = "OWNER"} = {u}
                        /\ \/ user[u].active
                           \/ \E s \in Tenants \ {t} : role[<<u, s>>] = "DEVELOPER"
    BY DEF OwnerKept
  <2>1. PICK u \in Users : OnlyOwner(u, t) /\ Vouched(u, t)
    BY DEF OwnerInv
  <2>2. {v \in Users : role[<<v, t>>] = "OWNER"} = {u}
    BY <2>1 DEF OnlyOwner
  <2> QED
    BY <2>1, <2>2 DEF Vouched
<1> QED
  BY <1>1, <1>2, AccessTypes, OwnerInvStep, PTL DEF AccessSpec

-----------------------------------------------------------------------------
(* API keys *)

\* An update under way is of a key that was found past its date.
MarkInv == AccessTypeOK /\ marking \subseteq seenDue

\* A dead key stays dead.
THEOREM KeysStayDead == AccessSpec => KeyStaysDead
<1>1. AccessInit => MarkInv
  BY AccessInvInit DEF AccessInit, AccessInv, MarkInv
<1> DEFINE Dead ==
      \A k \in Keys :
        /\ key[k].status \in {"REVOKED", "EXPIRED"} => key'[k].status # "ACTIVE"
        /\ key[k].status = "REVOKED" /\ k \notin seenDue => key'[k].status = "REVOKED"
<1>2. MarkInv /\ AccessTypeOK' /\ [AccessNext]_accessVars => MarkInv' /\ [Dead]_accessVars
  <2> SUFFICES ASSUME MarkInv, [AccessNext]_accessVars
               PROVE  marking' \subseteq seenDue' /\ Dead
    BY DEF MarkInv
  <2>0. key \in [Keys -> KeyRow] /\ marking \subseteq seenDue
    BY DEF MarkInv, AccessTypeOK
  <2>1. ASSUME UNCHANGED <<key, marking, seenDue>> PROVE marking' \subseteq seenDue' /\ Dead
    BY <2>0, <2>1
  <2>2. ASSUME NEW k \in Keys, NEW u \in Users, NEW t \in Tenants, CreateKey(u, t, k)
        PROVE  marking' \subseteq seenDue' /\ Dead
    BY <2>0, <2>2 DEF CreateKey, NoKey
  <2>3. ASSUME NEW k \in Keys, NEW u \in Users, NEW t \in Tenants, RevokeKey(u, t, k)
        PROVE  marking' \subseteq seenDue' /\ Dead
    <3>1. key[k] \in KeyRow \ {NoKey}
      BY <2>0, <2>3, AccessAssumption DEF RevokeKey, NoKey
    <3>2. [key[k] EXCEPT !.status = "REVOKED"].status = "REVOKED"
      BY <3>1 DEF KeyRow
    <3>3. /\ key' = [key EXCEPT ![k] = [key[k] EXCEPT !.status = "REVOKED"]]
          /\ UNCHANGED <<marking, seenDue>>
      BY <2>3 DEF RevokeKey
    <3> QED
      BY <2>0, <3>2, <3>3
  <2>4. ASSUME NEW k \in Keys, KeyExpires(k) PROVE marking' \subseteq seenDue' /\ Dead
    <3>1. key[k] \in KeyRow \ {NoKey}
      BY <2>0, <2>4 DEF KeyExpires
    <3>2. [key[k] EXCEPT !.due = TRUE].status = key[k].status
      BY <3>1 DEF KeyRow, NoKey
    <3>3. /\ key' = [key EXCEPT ![k] = [key[k] EXCEPT !.due = TRUE]]
          /\ UNCHANGED <<marking, seenDue>>
      BY <2>4 DEF KeyExpires
    <3> QED
      BY <2>0, <3>2, <3>3
  <2>5. ASSUME NEW k \in Keys, AuthenticateDue(k) PROVE marking' \subseteq seenDue' /\ Dead
    BY <2>0, <2>5 DEF AuthenticateDue, MustMark
  <2>6. ASSUME NEW k \in Keys, MarkExpired(k) PROVE marking' \subseteq seenDue' /\ Dead
    <3>1. CASE UNCHANGED key
      BY <2>0, <2>6, <3>1 DEF MarkExpired
    <3>2. CASE key' = [key EXCEPT ![k].status = "EXPIRED"]
      <4>1. key' = [key EXCEPT ![k] = [key[k] EXCEPT !.status = "EXPIRED"]] /\ k \in seenDue
        BY <2>0, <2>6, <3>2 DEF MarkExpired
      <4>2. [key[k] EXCEPT !.status = "EXPIRED"].status = "EXPIRED"
        BY <2>0, <2>6 DEF KeyRow, NoKey
      <4>3. \A j \in Keys \ {k} : key'[j] = key[j]
        BY <2>0, <4>1
      <4>4. key'[k].status # "ACTIVE"
        BY <2>0, <4>1, <4>2
      <4>5. marking' \subseteq seenDue'
        BY <2>0, <2>6 DEF MarkExpired
      <4> QED
        BY <4>1, <4>3, <4>4, <4>5
    <3> QED
      BY <2>6, <3>1, <3>2 DEF MarkExpired
  <2>7. CASE SessionNext \/ UNCHANGED accessVars
    <3>1. UNCHANGED <<key, marking, seenDue>>
      BY <2>7, SessionStepFrame DEF accessVars, keyVars
    <3> QED
      BY <2>1, <3>1
  <2>8. ASSUME NEW u \in Users, NEW t \in Tenants,
               \/ CreateTenant(u, t) \/ RemoveTenant(u, t)
               \/ \E s \in TenantStatus : UpdateTenant(u, t, s)
               \/ \E v \in Users : AddMember(u, v, t) \/ \E b \in BOOLEAN : UpdateUser(u, v, t, b)
        PROVE  marking' \subseteq seenDue' /\ Dead
    <3>1. UNCHANGED <<key, marking, seenDue>>
      BY <2>8 DEF CreateTenant, RemoveTenant, UpdateTenant, AddMember, UpdateUser, keyVars
    <3> QED
      BY <2>1, <3>1
  <2> QED
    BY <2>2, <2>3, <2>4, <2>5, <2>6, <2>7, <2>8 DEF AccessNext, TenantNext
<1> QED
  BY <1>1, <1>2, AccessTypes, PTL DEF AccessSpec, KeyStaysDead

-----------------------------------------------------------------------------
(* Sessions and passwords *)

\* What a request is about to write is of the present password, unless it is late.
SessionInv ==
    /\ PasswordEndsSessions
    /\ \A c \in Clients \ late :
         req[c].step \in {"issue", "rotate"} => req[c].version = user[req[c].user].password

\* What it takes to keep that, when no password changes.
LEMMA SessionInvKept ==
  ASSUME AccessInv, SessionInv,
         \A u \in Users : user[u].exists => user'[u].password = user[u].password,
         straddling \subseteq straddling',
         \A n \in Tokens : token'[n].state = "live" /\ n \notin straddling' =>
            \/ /\ token[n].state = "live"
               /\ token'[n].owner = token[n].owner /\ token'[n].version = token[n].version
            \/ token'[n].version = user'[token'[n].owner].password,
         \A c \in Clients \ late' : req'[c].step \in {"issue", "rotate"} =>
            \/ req'[c] = req[c] /\ c \notin late
            \/ req'[c].version = user'[req'[c].user].password
  PROVE  SessionInv'
<1>1. ASSUME NEW n \in Tokens, token'[n].state = "live", n \notin straddling'
      PROVE  token'[n].version = user'[token'[n].owner].password
  <2>1. CASE /\ token[n].state = "live"
             /\ token'[n].owner = token[n].owner /\ token'[n].version = token[n].version
    <3>1. token[n].version = user[token[n].owner].password
      BY <1>1, <2>1 DEF SessionInv, PasswordEndsSessions
    <3>2. token[n].owner \in Users /\ user[token[n].owner].exists
      BY <2>1, Rows DEF AccessInv, References
    <3> QED
      BY <2>1, <3>1, <3>2
  <2> QED
    BY <1>1, <2>1
<1>2. ASSUME NEW c \in Clients \ late', req'[c].step \in {"issue", "rotate"}
      PROVE  req'[c].version = user'[req'[c].user].password
  <2>1. CASE req'[c] = req[c] /\ c \notin late
    <3>1. req[c].version = user[req[c].user].password
      BY <1>2, <2>1 DEF SessionInv
    <3>2. req[c].user \in Users /\ user[req[c].user].exists
      BY <1>2, <2>1, Works, IdleStep DEF AccessInv, References
    <3> QED
      BY <2>1, <3>1, <3>2
  <2> QED
    BY <1>2, <2>1
<1> QED
  BY <1>1, <1>2 DEF SessionInv, PasswordEndsSessions

\* A change of the password revokes the sessions, and makes requests late.
LEMMA SessionInvChanged ==
  ASSUME AccessInv, SessionInv, NEW u \in Users, NewPassword(u), NEW c \in Clients,
         UNCHANGED straddling,
         late \union UnderWay(u) \subseteq late' \union {c},
         \A d \in Clients \ {c} : req'[d] = req[d],
         c \in late' \/ (req'[c].step \in {"issue", "rotate"} =>
                           req'[c].version = user'[req'[c].user].password)
  PROVE  SessionInv'
<1>1. /\ \A v \in Users \ {u} : user'[v] = user[v]
      /\ token' = Revoked(u)
  BY PasswordChanged DEF NewPassword, RevokedByChange
<1>2. ASSUME NEW n \in Tokens, token'[n].state = "live", n \notin straddling'
      PROVE  token'[n].version = user'[token'[n].owner].password
  <2>1. token[n] \in TokenRow
    BY DEF AccessInv, AccessTypeOK
  <2>2. CASE token[n].owner = u /\ token[n].state = "live"
    <3>1. token'[n] = [token[n] EXCEPT !.state = "revoked"]
      BY <1>1, <2>2 DEF Revoked
    <3>2. token'[n].state = "revoked"
      BY <2>1, <3>1 DEF TokenRow, NoToken
    <3> QED
      BY <1>2, <3>2
  <2>3. CASE ~(token[n].owner = u /\ token[n].state = "live")
    <3>1. token'[n] = token[n]
      BY <1>1, <2>3 DEF Revoked
    <3>2. token[n].owner \in Users \ {u}
      BY <1>2, <2>3, <3>1, Rows
    <3> QED
      BY <1>1, <1>2, <3>1, <3>2 DEF SessionInv, PasswordEndsSessions
  <2> QED
    BY <2>2, <2>3
<1>3. ASSUME NEW d \in Clients \ late', d # c, req'[d].step \in {"issue", "rotate"}
      PROVE  req'[d].version = user'[req'[d].user].password
  <2>1. req'[d] = req[d] /\ d \notin late /\ req[d].user # u
    BY <1>3 DEF UnderWay
  <2>2. req[d].user \in Users
    BY <1>3, <2>1, Works, IdleStep
  <2> QED
    BY <1>1, <1>3, <2>1, <2>2 DEF SessionInv
<1> QED
  BY <1>2, <1>3 DEF SessionInv, PasswordEndsSessions

LEMMA SessionInvStep == AccessInv /\ SessionInv /\ [AccessNext]_accessVars => SessionInv'
<1> SUFFICES ASSUME AccessInv, SessionInv, [AccessNext]_accessVars PROVE SessionInv'
  OBVIOUS
<1>0. /\ user \in [Users -> UserRow] /\ token \in [Tokens -> TokenRow]
      /\ req \in [Clients -> Request]
  BY DEF AccessInv, AccessTypeOK
\* Steps that leave sessions and passwords alone.
<1>1. ASSUME UNCHANGED <<token, req, late, straddling>>,
             \A u \in Users : user[u].exists => user'[u].password = user[u].password
      PROVE  SessionInv'
  BY <1>1, SessionInvKept
\* Steps that leave users and tokens alone, and move a request.
<1>2. ASSUME NEW c \in Clients, UNCHANGED <<user, token, straddling>>,
             late \subseteq late' \union {c},
             \A d \in Clients \ {c} : req'[d] = req[d],
             c \in late' \/ (req'[c].step \in {"issue", "rotate"} =>
                               req'[c].version = user'[req'[c].user].password)
      PROVE  SessionInv'
  BY <1>2, SessionInvKept
\* Steps that revoke tokens.
<1>3. ASSUME UNCHANGED <<user, straddling>>,
             \A n \in Tokens : token'[n].state = "live" =>
                /\ token[n].state = "live"
                /\ token'[n].owner = token[n].owner /\ token'[n].version = token[n].version,
             NEW c \in Clients, late \subseteq late' \union {c},
             \A d \in Clients \ {c} : req'[d] = req[d],
             (req'[c] = req[c] /\ late' = late) \/ req'[c] = Ready
      PROVE  SessionInv'
  BY <1>3, SessionInvKept, IdleStep
<1>4. ASSUME NEW n \in Tokens, token[n] # NoToken, token' = [token EXCEPT ![n].state = "revoked"]
      PROVE  \A m \in Tokens : token'[m].state = "live" => token'[m] = token[m]
  BY <1>0, <1>4, OneRevokedKept
<1>5. ASSUME NEW u, token' = Revoked(u)
      PROVE  \A m \in Tokens : token'[m].state = "live" => token'[m] = token[m]
  <2> SUFFICES ASSUME NEW m \in Tokens, token[m].owner = u /\ token[m].state = "live"
               PROVE  token'[m].state = "revoked"
    BY <1>5 DEF Revoked
  <2> QED
    BY <1>0, <1>5 DEF Revoked, TokenRow, NoToken
<1>6. ASSUME NEW c \in Clients, req' = [req EXCEPT ![c] = Ready]
      PROVE  req'[c] = Ready /\ \A d \in Clients \ {c} : req'[d] = req[d]
  BY <1>6, Finished
<1>7. ASSUME NEW c \in Clients, NEW step, NEW u, NEW with, NEW v, Start(c, step, u, with, v)
      PROVE  /\ req'[c] = [step |-> step, user |-> u, with |-> with, version |-> v]
             /\ \A d \in Clients \ {c} : req'[d] = req[d]
  BY <1>0, <1>7 DEF Start
<1> USE DEF sessionVars
<1>8. ASSUME NEW c \in Clients, NEW u \in Users,
             LoginRead(c, u) \/ ForgotPassword(c, u) \/ ChangeRead(c, u)
      PROVE  SessionInv'
  <2>1. CASE LoginRead(c, u)
    <3>1. /\ req'[c] = [step |-> "issue", user |-> u, with |-> 0, version |-> user[u].password]
          /\ \A d \in Clients \ {c} : req'[d] = req[d]
          /\ UNCHANGED <<user, token, late, straddling>>
      BY <1>7, <2>1 DEF LoginRead
    <3> QED
      BY <1>2, <3>1
  <2>2. CASE ForgotPassword(c, u)
    <3>1. /\ req'[c] = [step |-> "create", user |-> u, with |-> 0, version |-> 0]
          /\ \A d \in Clients \ {c} : req'[d] = req[d]
          /\ UNCHANGED <<user, token, late, straddling>>
      BY <1>7, <2>2 DEF ForgotPassword
    <3> QED
      BY <1>2, <3>1
  <2>3. CASE ChangeRead(c, u)
    <3>1. /\ req'[c] = [step |-> "change", user |-> u, with |-> 0, version |-> 0]
          /\ \A d \in Clients \ {c} : req'[d] = req[d]
          /\ UNCHANGED <<user, token, late, straddling>>
      BY <1>7, <2>3 DEF ChangeRead
    <3> QED
      BY <1>2, <3>1
  <2> QED
    BY <1>8, <2>1, <2>2, <2>3
<1>9. ASSUME NEW c \in Clients, NEW n \in Tokens, RefreshRead(c, n) PROVE SessionInv'
  <2>1. /\ req'[c] = [step |-> RefreshStep(n), user |-> token[n].owner, with |-> n,
                      version |-> token[n].version]
        /\ \A d \in Clients \ {c} : req'[d] = req[d]
        /\ UNCHANGED <<user, token, straddling>>
    BY <1>7, <1>9 DEF RefreshRead
  <2>2. late' = IF n \in straddling THEN late \union {c} ELSE late
    BY <1>9 DEF RefreshRead
  <2>3. CASE n \in straddling
    BY <1>2, <2>1, <2>2, <2>3
  <2>4. CASE n \notin straddling /\ token[n].state = "revoked"
    BY <1>2, <2>1, <2>2, <2>4 DEF RefreshStep
  <2>5. CASE n \notin straddling /\ token[n].state # "revoked"
    <3>1. token[n].state = "live"
      BY <1>0, <1>9, <2>5 DEF RefreshRead, TokenRow, NoToken
    <3>2. token[n].version = user[token[n].owner].password
      BY <2>5, <3>1 DEF SessionInv, PasswordEndsSessions
    <3> QED
      BY <1>2, <2>1, <2>2, <2>5, <3>2
  <2> QED
    BY <2>3, <2>4, <2>5
<1>10. ASSUME NEW c \in Clients, NEW n \in Resets, ResetRead(c, n) PROVE SessionInv'
  <2>1. /\ req'[c] = [step |-> "reset", user |-> reset[n].owner, with |-> n, version |-> 0]
        /\ \A d \in Clients \ {c} : req'[d] = req[d]
        /\ UNCHANGED <<user, token, late, straddling>>
    BY <1>7, <1>10 DEF ResetRead
  <2> QED
    BY <1>2, <2>1
<1>11. ASSUME NEW c \in Clients, NEW u \in Users, NEW t \in Tenants, Register(c, u, t)
       PROVE  SessionInv'
  <2>1. /\ ~user[u].exists /\ user'[u].password = 1
        /\ \A v \in Users \ {u} : user'[v] = user[v]
    BY <1>0, <1>11 DEF Register, NewUser
  <2>2. /\ req'[c] = [step |-> "issue", user |-> u, with |-> 0, version |-> 1]
        /\ \A d \in Clients \ {c} : req'[d] = req[d]
        /\ UNCHANGED <<token, late, straddling>>
    BY <1>7, <1>11 DEF Register
  <2> QED
    BY <2>1, <2>2, SessionInvKept
<1>12. ASSUME NEW c \in Clients, Issue(c) PROVE SessionInv'
  <2>1. /\ req'[c] = Ready /\ \A d \in Clients \ {c} : req'[d] = req[d]
        /\ late' = late \ {c} /\ user' = user /\ req[c].step = "issue"
    BY <1>6, <1>12 DEF Issue, Finish
  <2>2. /\ \A n \in Tokens \ {NextToken} : token'[n] = token[n]
        /\ token'[NextToken] = [NoToken EXCEPT !.owner = req[c].user, !.state = "live",
                                               !.version = req[c].version]
        /\ NextToken \in Tokens
    BY <1>12, IssueKept
  <2>3. token'[NextToken].owner = req[c].user /\ token'[NextToken].version = req[c].version
    BY <2>2 DEF NoToken
  <2>4. straddling' = IF c \in late THEN straddling \union {NextToken} ELSE straddling
    BY <1>12 DEF Issue
  <2>5. c \in late \/ req[c].version = user[req[c].user].password
    BY <2>1 DEF SessionInv
  <2>6. NextToken \in straddling' \/ token'[NextToken].version = user'[token'[NextToken].owner].password
    BY <2>1, <2>3, <2>4, <2>5
  <2> QED
    BY <2>1, <2>2, <2>4, <2>6, SessionInvKept, IdleStep
<1>13. ASSUME NEW c \in Clients, Rotate(c) PROVE SessionInv'
  <2>1. /\ req[c].step = "rotate" /\ req[c] \in Request \ {Ready} /\ req[c].with \in Tokens
        /\ token[req[c].with] # NoToken
    BY <1>0, <1>13, Works, IdleStep DEF Rotate, AccessInv, References
  <2>2. \A m \in Tokens : token'[m].state = "live" => token'[m] = token[m]
    BY <1>4, <1>13, <2>1 DEF Rotate
  <2>3. /\ [req[c] EXCEPT !.step = "issue"].user = req[c].user
        /\ [req[c] EXCEPT !.step = "issue"].version = req[c].version
    BY <2>1 DEF Request, Working
  <2>4. /\ req'[c] = [req[c] EXCEPT !.step = "issue"]
        /\ \A d \in Clients \ {c} : req'[d] = req[d]
        /\ UNCHANGED <<user, late, straddling>>
    BY <1>0, <1>13 DEF Rotate
  <2>5. c \in late \/ req[c].version = user[req[c].user].password
    BY <2>1 DEF SessionInv
  <2> QED
    BY <2>2, <2>3, <2>4, <2>5, SessionInvKept
<1>14. ASSUME NEW c \in Clients, RevokeAll(c) \/ CreateReset(c) \/ ClientFails(c) PROVE SessionInv'
  <2>1. /\ req'[c] = Ready /\ \A d \in Clients \ {c} : req'[d] = req[d]
        /\ late' = late \ {c} /\ UNCHANGED <<user, straddling>>
    BY <1>6, <1>14 DEF RevokeAll, CreateReset, ClientFails, Finish
  <2>2. \A m \in Tokens : token'[m].state = "live" => token'[m] = token[m]
    BY <1>5, <1>14 DEF RevokeAll, CreateReset, ClientFails
  <2> QED
    BY <1>3, <2>1, <2>2
<1>15. ASSUME NEW c \in Clients, ResetCommit(c) PROVE SessionInv'
  <2>1. /\ req[c].user \in Users /\ NewPassword(req[c].user) /\ straddling' = straddling
        /\ req'[c] = Ready /\ \A d \in Clients \ {c} : req'[d] = req[d]
        /\ late' = (late \union UnderWay(req[c].user)) \ {c}
    BY <1>6, <1>15, Works, IdleStep DEF ResetCommit
  <2> QED
    BY <2>1, SessionInvChanged, IdleStep
<1>16. ASSUME NEW c \in Clients, ChangeCommit(c) PROVE SessionInv'
  <2>1. /\ req[c].user \in Users /\ NewPassword(req[c].user) /\ straddling' = straddling
        /\ req'[c] = [step |-> "issue", user |-> req[c].user, with |-> 0,
                      version |-> user[req[c].user].password + 1]
        /\ \A d \in Clients \ {c} : req'[d] = req[d]
        /\ late' = late \union UnderWay(req[c].user)
    BY <1>7, <1>16, Works, IdleStep DEF ChangeCommit
  <2>2. user'[req[c].user].password = user[req[c].user].password + 1
    BY <2>1, PasswordChanged
  <2>3. req'[c].version = user'[req'[c].user].password
    BY <2>1, <2>2
  <2> QED
    BY <2>1, <2>3, SessionInvChanged
<1>17. ASSUME NEW u \in Users, LogoutAll(u) \/ \E n \in Tokens : Logout(u, n) PROVE SessionInv'
  <2>1. UNCHANGED <<user, req, late, straddling>>
    BY <1>17 DEF LogoutAll, Logout
  <2>2. ASSUME NEW n \in Tokens, Logout(u, n)
        PROVE  \A m \in Tokens : token'[m].state = "live" => token'[m] = token[m]
    BY <1>4, <2>2 DEF Logout, NoToken
  <2>3. \A m \in Tokens : token'[m].state = "live" => token'[m] = token[m]
    BY <1>5, <1>17, <2>2 DEF LogoutAll
  <2> QED
    BY <2>1, <2>3, SessionInvKept
<1>18. ASSUME NEW n \in Tokens, TokenExpires(n) PROVE SessionInv'
  <2>1. token[n] \in TokenRow \ {NoToken} /\ token' = [token EXCEPT ![n].expired = TRUE]
    BY <1>0, <1>18 DEF TokenExpires, NoToken
  <2>2. /\ [token[n] EXCEPT !.expired = TRUE].owner = token[n].owner
        /\ [token[n] EXCEPT !.expired = TRUE].state = token[n].state
        /\ [token[n] EXCEPT !.expired = TRUE].version = token[n].version
    BY <2>1 DEF TokenRow, NoToken
  <2>3. \A m \in Tokens : /\ token'[m].owner = token[m].owner
                          /\ token'[m].state = token[m].state
                          /\ token'[m].version = token[m].version
    BY <1>0, <2>1, <2>2
  <2>4. UNCHANGED <<user, req, late, straddling>>
    BY <1>18 DEF TokenExpires
  <2> QED
    BY <2>3, <2>4, SessionInvKept
<1>19. ASSUME NEW n \in Resets, ResetExpires(n) PROVE SessionInv'
  BY <1>1, <1>19 DEF ResetExpires
<1>20. CASE TenantNext \/ UNCHANGED accessVars
  <2>1. UNCHANGED <<token, req, late, straddling>>
    BY <1>20, TenantStepFrame DEF accessVars, sessionVars
  <2>2. ASSUME NEW a \in Users, NEW v \in Users, NEW t \in Tenants, AddMember(a, v, t)
        PROVE  \A u \in Users : user[u].exists => user'[u].password = user[u].password
    BY <1>0, <2>2 DEF AddMember
  <2>3. ASSUME NEW a \in Users, NEW v \in Users, NEW t \in Tenants, NEW b \in BOOLEAN,
               UpdateUser(a, v, t, b)
        PROVE  \A u \in Users : user[u].exists => user'[u].password = user[u].password
    BY <1>0, <2>3 DEF UpdateUser, UserRow
  <2>4. \A u \in Users : user[u].exists => user'[u].password = user[u].password
    BY <1>20, <2>2, <2>3
    DEF accessVars, TenantNext, CreateTenant, RemoveTenant, UpdateTenant,
        CreateKey, RevokeKey, KeyExpires, AuthenticateDue, MarkExpired
  <2> QED
    BY <1>1, <2>1, <2>4
<1> QED
  BY <1>8, <1>9, <1>10, <1>11, <1>12, <1>13, <1>14, <1>15, <1>16, <1>17, <1>18, <1>19, <1>20
  DEF AccessNext, SessionNext

\* A change of the password ends the sessions begun with an old one.
THEOREM PasswordsEndSessions == AccessSpec => []PasswordEndsSessions
<1>1. AccessInit => SessionInv
  BY DEF AccessInit, SessionInv, PasswordEndsSessions, Ready, NoToken
<1>2. SessionInv => PasswordEndsSessions
  BY DEF SessionInv
<1> QED
  BY <1>1, <1>2, AccessInvInit, AccessInvStep, SessionInvStep, PTL DEF AccessSpec

-----------------------------------------------------------------------------
(* Tokens are for one use *)

\* No step brings a session back.
LEMMA TokensKeptStep == AccessInv /\ [AccessNext]_accessVars => TokensKept
<1> SUFFICES ASSUME AccessInv, [AccessNext]_accessVars PROVE TokensKept
  OBVIOUS
<1>0. token \in [Tokens -> TokenRow] /\ References
  BY DEF AccessInv, AccessTypeOK
<1>1. ASSUME token' = token PROVE TokensKept
  BY <1>0, <1>1 DEF TokensKept
<1>2. ASSUME NEW c \in Clients,
             Issue(c) \/ Rotate(c) \/ RevokeAll(c) \/ ResetCommit(c) \/ ChangeCommit(c)
      PROVE  TokensKept
  <2>1. CASE Issue(c)
    BY <2>1, IssueKept
  <2>2. CASE Rotate(c)
    <3>1. req[c].with \in Tokens /\ token[req[c].with] # NoToken
      BY <1>0, <2>2, Works, IdleStep DEF Rotate, References
    <3> QED
      BY <2>2, <3>1, OneRevokedKept DEF Rotate
  <2>3. CASE RevokeAll(c)
    BY <2>3, RevokedKept DEF RevokeAll
  <2>4. CASE ResetCommit(c) \/ ChangeCommit(c)
    <3>1. req[c].user \in Users /\ NewPassword(req[c].user)
      BY <2>4, Works, IdleStep DEF ResetCommit, ChangeCommit
    <3> QED
      BY <3>1, PasswordChanged
  <2> QED
    BY <1>2, <2>1, <2>2, <2>3, <2>4
<1>3. ASSUME NEW u \in Users, LogoutAll(u) \/ \E n \in Tokens : Logout(u, n) PROVE TokensKept
  <2>1. ASSUME NEW n \in Tokens, Logout(u, n) PROVE TokensKept
    <3>1. token[n] # NoToken
      BY <2>1 DEF Logout, NoToken
    <3> QED
      BY <2>1, <3>1, OneRevokedKept DEF Logout
  <2> QED
    BY <1>3, <2>1, RevokedKept DEF LogoutAll
<1>4. ASSUME NEW n \in Tokens, TokenExpires(n) PROVE TokensKept
  <2>1. token[n] \in TokenRow \ {NoToken} /\ token' = [token EXCEPT ![n].expired = TRUE]
    BY <1>0, <1>4 DEF TokenExpires, NoToken
  <2>2. /\ [token[n] EXCEPT !.expired = TRUE] \in TokenRow \ {NoToken}
        /\ [token[n] EXCEPT !.expired = TRUE].owner = token[n].owner
        /\ [token[n] EXCEPT !.expired = TRUE].state = token[n].state
    BY <2>1 DEF TokenRow, NoToken
  <2> QED
    BY <1>0, <2>1, <2>2 DEF TokensKept
<1>5. CASE TenantNext \/ UNCHANGED accessVars
  <2>1. token' = token
    BY <1>5, TenantStepFrame DEF accessVars, sessionVars
  <2> QED
    BY <1>1, <2>1
<1> QED
  BY <1>1, <1>2, <1>3, <1>4, <1>5
  DEF AccessNext, SessionNext, LoginRead, ForgotPassword, ChangeRead, RefreshRead, ResetRead,
      Register, CreateReset, ClientFails, ResetExpires

\* A request that is exchanging a refresh token, and one that is using a reset token.
Exchanges(c, n) == req[c].step \in {"rotate", "issue"} /\ req[c].with = n
Resetting(c, n) == req[c].step = "reset" /\ req[c].with = n

\* A refresh token is exchanged once, and by one request.
ExchangeInv ==
    \A n \in Tokens \ overlapped.tokens :
        /\ pairs[n] \in {0, 1}
        /\ pairs[n] = 1 => token[n].state = "revoked"
        /\ \A c \in Clients : Exchanges(c, n) =>
             pairs[n] = 0 /\ \A d \in Clients : Exchanges(d, n) => d = c

\* A reset token is used once, and by one request.
ResetInv ==
    \A n \in Resets \ overlapped.resets :
        /\ uses[n] \in {0, 1}
        /\ uses[n] = 1 => reset[n].state = "used"
        /\ \A c \in Clients : Resetting(c, n) =>
             uses[n] = 0 /\ \A d \in Clients : Resetting(d, n) => d = c

\* Requests that begin or give up an exchange of nothing.
LEMMA ExchangesKept ==
  ASSUME ExchangeInv, TokensKept, pairs' = pairs,
         overlapped.tokens \subseteq overlapped'.tokens,
         \A c \in Clients, n \in Tokens : Exchanges(c, n)' => Exchanges(c, n)
  PROVE  ExchangeInv'
<1> SUFFICES ASSUME NEW n \in Tokens \ overlapped'.tokens
             PROVE  /\ pairs[n] \in {0, 1}
                    /\ pairs[n] = 1 => token'[n].state = "revoked"
                    /\ \A c \in Clients : Exchanges(c, n)' =>
                         pairs[n] = 0 /\ \A d \in Clients : Exchanges(d, n)' => d = c
  BY DEF ExchangeInv
<1>1. n \in Tokens \ overlapped.tokens
  OBVIOUS
<1>2. /\ pairs[n] \in {0, 1}
      /\ pairs[n] = 1 => token[n].state = "revoked"
      /\ \A c \in Clients : Exchanges(c, n) =>
           pairs[n] = 0 /\ \A d \in Clients : Exchanges(d, n) => d = c
  BY <1>1 DEF ExchangeInv
<1> QED
  BY <1>2 DEF TokensKept

LEMMA ResettingKept ==
  ASSUME ResetInv, uses' = uses,
         \A n \in Resets : reset[n].state = "used" => reset'[n].state = "used",
         overlapped.resets \subseteq overlapped'.resets,
         \A c \in Clients, n \in Resets : Resetting(c, n)' => Resetting(c, n)
  PROVE  ResetInv'
<1> SUFFICES ASSUME NEW n \in Resets \ overlapped'.resets
             PROVE  /\ uses[n] \in {0, 1}
                    /\ uses[n] = 1 => reset'[n].state = "used"
                    /\ \A c \in Clients : Resetting(c, n)' =>
                         uses[n] = 0 /\ \A d \in Clients : Resetting(d, n)' => d = c
  BY DEF ResetInv
<1>1. n \in Resets \ overlapped.resets
  OBVIOUS
<1>2. /\ uses[n] \in {0, 1}
      /\ uses[n] = 1 => reset[n].state = "used"
      /\ \A c \in Clients : Resetting(c, n) =>
           uses[n] = 0 /\ \A d \in Clients : Resetting(d, n) => d = c
  BY <1>1 DEF ResetInv
<1> QED
  BY <1>2

OnceInv == ExchangeInv /\ ResetInv

LEMMA OnceInvStep == AccessInv /\ OnceInv /\ [AccessNext]_accessVars => OnceInv'
<1> SUFFICES ASSUME AccessInv, OnceInv, [AccessNext]_accessVars PROVE OnceInv'
  OBVIOUS
<1>0. /\ req \in [Clients -> Request] /\ pairs \in [Tokens -> Nat] /\ uses \in [Resets -> Nat]
      /\ reset \in [Resets -> ResetRow] /\ token \in [Tokens -> TokenRow]
      /\ overlapped \in [tokens : SUBSET Tokens, resets : SUBSET Resets]
      /\ TokensKept /\ ExchangeInv /\ ResetInv
  BY TokensKeptStep DEF AccessInv, AccessTypeOK, OnceInv
\* Steps after which no request has more in hand than before.
<1>1. ASSUME UNCHANGED <<pairs, uses, overlapped>>,
             \A n \in Resets : reset[n].state = "used" => reset'[n].state = "used",
             NEW c \in Clients,
             \A d \in Clients \ {c} : req'[d] = req[d],
             \A n \in Tokens : Exchanges(c, n)' => Exchanges(c, n),
             \A n \in Resets : Resetting(c, n)' => Resetting(c, n)
      PROVE  OnceInv'
  <2>1. /\ \A d \in Clients, n \in Tokens : Exchanges(d, n)' => Exchanges(d, n)
        /\ \A d \in Clients, n \in Resets : Resetting(d, n)' => Resetting(d, n)
    BY <1>1 DEF Exchanges, Resetting
  <2> QED
    BY <1>0, <1>1, <2>1, ExchangesKept, ResettingKept DEF OnceInv
<1>2. ASSUME UNCHANGED <<pairs, uses, overlapped, req>>,
             \A n \in Resets : reset[n].state = "used" => reset'[n].state = "used"
      PROVE  OnceInv'
  <2>1. /\ \A d \in Clients, n \in Tokens : Exchanges(d, n)' => Exchanges(d, n)
        /\ \A d \in Clients, n \in Resets : Resetting(d, n)' => Resetting(d, n)
    BY <1>2 DEF Exchanges, Resetting
  <2> QED
    BY <1>0, <1>2, <2>1, ExchangesKept, ResettingKept DEF OnceInv
<1>3. ASSUME NEW c \in Clients, req' = [req EXCEPT ![c] = Ready]
      PROVE  req'[c] = Ready /\ \A d \in Clients \ {c} : req'[d] = req[d]
  BY <1>3, Finished
<1>4. ASSUME NEW c \in Clients, NEW step, NEW u, NEW with, NEW v, Start(c, step, u, with, v)
      PROVE  /\ req'[c].step = step /\ req'[c].with = with
             /\ \A d \in Clients \ {c} : req'[d] = req[d]
  BY <1>0, <1>4 DEF Start
<1>5. ASSUME NEW c \in Clients, req'[c] = Ready
      PROVE  /\ \A n \in Tokens : ~Exchanges(c, n)'
             /\ \A n \in Resets : ~Resetting(c, n)'
  BY <1>5, IdleStep DEF Exchanges, Resetting
<1>6. ASSUME NEW c \in Clients, req'[c].with = 0
      PROVE  /\ \A n \in Tokens : ~Exchanges(c, n)'
             /\ \A n \in Resets : ~Resetting(c, n)'
  BY <1>6 DEF Exchanges, Resetting, Tokens, Resets
<1> USE DEF sessionVars
<1>7. ASSUME NEW c \in Clients, NEW u \in Users,
             LoginRead(c, u) \/ ForgotPassword(c, u) \/ ChangeRead(c, u) \/
             \E t \in Tenants : Register(c, u, t)
      PROVE  OnceInv'
  <2>1. \E step, v : Start(c, step, u, 0, v)
    BY <1>7 DEF LoginRead, ForgotPassword, ChangeRead, Register
  <2>2. req'[c].with = 0 /\ \A d \in Clients \ {c} : req'[d] = req[d]
    BY <1>4, <2>1
  <2>3. UNCHANGED <<pairs, uses, overlapped>>
    BY <1>7 DEF LoginRead, ForgotPassword, ChangeRead, Register
  <2>4. \A n \in Resets : reset[n].state = "used" => reset'[n].state = "used"
    BY <1>7 DEF LoginRead, ForgotPassword, ChangeRead, Register
  <2> QED
    BY <1>1, <1>6, <2>2, <2>3, <2>4
\* A request takes a refresh token in hand.
<1>8. ASSUME NEW c \in Clients, NEW n \in Tokens, RefreshRead(c, n) PROVE OnceInv'
  <2>1. /\ req'[c].step = RefreshStep(n) /\ req'[c].with = n
        /\ \A d \in Clients \ {c} : req'[d] = req[d]
        /\ UNCHANGED <<pairs, uses, reset, token>> /\ req[c] = Ready
    BY <1>4, <1>8 DEF RefreshRead
  <2>2. /\ overlapped.tokens \subseteq overlapped'.tokens
        /\ overlapped.resets \subseteq overlapped'.resets
        /\ (\E d \in Clients : req[d].step = "rotate" /\ req[d].with = n) =>
             n \in overlapped'.tokens
    BY <1>0, <1>8 DEF RefreshRead
  <2>3. \A d \in Clients, m \in Resets : Resetting(d, m)' => Resetting(d, m)
    BY <2>1 DEF Resetting, RefreshStep
  <2>4. ResetInv'
    BY <1>0, <2>1, <2>2, <2>3, ResettingKept
  <2>5. CASE token[n].state = "revoked"
    <3>1. \A d \in Clients, m \in Tokens : Exchanges(d, m)' => Exchanges(d, m)
      BY <2>1, <2>5 DEF Exchanges, RefreshStep
    <3> QED
      BY <1>0, <2>1, <2>2, <2>4, <3>1, ExchangesKept DEF OnceInv
  <2>6. CASE token[n].state # "revoked"
    <3>1. ASSUME n \notin overlapped'.tokens
          PROVE  pairs[n] = 0 /\ \A d \in Clients : ~Exchanges(d, n)
      <4>1. n \in Tokens \ overlapped.tokens
        BY <2>2, <3>1
      <4>2. pairs[n] = 0
        BY <1>0, <2>6, <4>1 DEF ExchangeInv
      <4>3. \A d \in Clients : req[d].step = "issue" => req[d].with # n
        BY <2>6 DEF AccessInv, References
      <4> QED
        BY <2>2, <3>1, <4>2, <4>3 DEF Exchanges
    <3>2. \A d \in Clients, m \in Tokens : Exchanges(d, m)' => Exchanges(d, m) \/ (d = c /\ m = n)
      BY <2>1 DEF Exchanges
    <3>3. ASSUME NEW m \in Tokens \ overlapped'.tokens
          PROVE  /\ pairs[m] \in {0, 1}
                 /\ pairs[m] = 1 => token[m].state = "revoked"
                 /\ \A d \in Clients : Exchanges(d, m)' =>
                      pairs[m] = 0 /\ \A e \in Clients : Exchanges(e, m)' => e = d
      <4>1. m \in Tokens \ overlapped.tokens
        BY <2>2
      <4>2. /\ pairs[m] \in {0, 1}
            /\ pairs[m] = 1 => token[m].state = "revoked"
            /\ \A d \in Clients : Exchanges(d, m) =>
                 pairs[m] = 0 /\ \A e \in Clients : Exchanges(e, m) => e = d
        BY <1>0, <4>1 DEF ExchangeInv
      <4> QED
        BY <3>1, <3>2, <4>2
    <3>4. ExchangeInv'
      BY <2>1, <3>3 DEF ExchangeInv
    <3> QED
      BY <2>4, <3>4 DEF OnceInv
  <2> QED
    BY <2>5, <2>6
\* A request takes a reset token in hand.
<1>9. ASSUME NEW c \in Clients, NEW n \in Resets, ResetRead(c, n) PROVE OnceInv'
  <2>1. /\ req'[c].step = "reset" /\ req'[c].with = n
        /\ \A d \in Clients \ {c} : req'[d] = req[d]
        /\ UNCHANGED <<pairs, uses, reset, token>> /\ reset[n].state = "open"
    BY <1>4, <1>9 DEF ResetRead
  <2>2. /\ overlapped.tokens \subseteq overlapped'.tokens
        /\ overlapped.resets \subseteq overlapped'.resets
        /\ (\E d \in Clients : req[d].step = "reset" /\ req[d].with = n) =>
             n \in overlapped'.resets
    BY <1>0, <1>9 DEF ResetRead
  <2>3. \A d \in Clients, m \in Tokens : Exchanges(d, m)' => Exchanges(d, m)
    BY <2>1 DEF Exchanges
  <2>4. ExchangeInv'
    BY <1>0, <2>1, <2>2, <2>3, ExchangesKept
  <2>5. ASSUME n \notin overlapped'.resets
        PROVE  uses[n] = 0 /\ \A d \in Clients : ~Resetting(d, n)
    <3>1. n \in Resets \ overlapped.resets
      BY <2>2, <2>5
    <3> QED
      BY <1>0, <2>1, <2>2, <2>5, <3>1 DEF ResetInv, Resetting
  <2>6. \A d \in Clients, m \in Resets : Resetting(d, m)' => Resetting(d, m) \/ (d = c /\ m = n)
    BY <2>1 DEF Resetting
  <2>7. ASSUME NEW m \in Resets \ overlapped'.resets
        PROVE  /\ uses[m] \in {0, 1}
               /\ uses[m] = 1 => reset[m].state = "used"
               /\ \A d \in Clients : Resetting(d, m)' =>
                    uses[m] = 0 /\ \A e \in Clients : Resetting(e, m)' => e = d
    <3>1. m \in Resets \ overlapped.resets
      BY <2>2
    <3>2. /\ uses[m] \in {0, 1}
          /\ uses[m] = 1 => reset[m].state = "used"
          /\ \A d \in Clients : Resetting(d, m) =>
               uses[m] = 0 /\ \A e \in Clients : Resetting(e, m) => e = d
      BY <1>0, <3>1 DEF ResetInv
    <3> QED
      BY <2>5, <2>6, <3>2
  <2>8. ResetInv'
    BY <2>1, <2>7 DEF ResetInv
  <2> QED
    BY <2>4, <2>8 DEF OnceInv
\* A refresh token has been exchanged.
<1>10. ASSUME NEW c \in Clients, Issue(c) PROVE OnceInv'
  <2>1. /\ req'[c] = Ready /\ \A d \in Clients \ {c} : req'[d] = req[d]
        /\ UNCHANGED <<reset, uses, overlapped>> /\ req[c].step = "issue"
    BY <1>3, <1>10 DEF Issue, Finish
  <2>2. CASE req[c].with \notin Tokens
    <3>1. pairs' = pairs
      BY <1>10, <2>2 DEF Issue
    <3> QED
      BY <1>1, <1>5, <2>1, <3>1
  <2>3. CASE req[c].with \in Tokens
    <3> DEFINE n == req[c].with
    <3>1. pairs' = [pairs EXCEPT ![n] = pairs[n] + 1]
      BY <1>10, <2>3 DEF Issue
    <3>2. token[n].state = "revoked" /\ token'[n].state = "revoked"
      BY <1>0, <2>1, <2>3 DEF AccessInv, References, TokensKept
    <3>3. /\ \A d \in Clients, m \in Tokens : Exchanges(d, m)' => Exchanges(d, m) /\ d # c
          /\ \A d \in Clients, m \in Resets : Resetting(d, m)' => Resetting(d, m)
          /\ Exchanges(c, n)
      BY <1>5, <2>1 DEF Exchanges, Resetting
    <3>4. ResetInv'
      BY <1>0, <2>1, <3>3, ResettingKept
    <3>5. ASSUME NEW m \in Tokens \ overlapped.tokens
          PROVE  /\ pairs'[m] \in {0, 1}
                 /\ pairs'[m] = 1 => token'[m].state = "revoked"
                 /\ \A d \in Clients : Exchanges(d, m)' =>
                      pairs'[m] = 0 /\ \A e \in Clients : Exchanges(e, m)' => e = d
      <4>1. /\ pairs[m] \in {0, 1}
            /\ pairs[m] = 1 => token[m].state = "revoked"
            /\ \A d \in Clients : Exchanges(d, m) =>
                 pairs[m] = 0 /\ \A e \in Clients : Exchanges(e, m) => e = d
        BY <1>0, <3>5 DEF ExchangeInv
      <4>2. CASE m = n
        <5>1. pairs[m] = 0 /\ \A d \in Clients : ~Exchanges(d, m)'
          BY <3>3, <4>1, <4>2
        <5>2. pairs'[m] = 1
          BY <1>0, <3>1, <4>2, <5>1
        <5> QED
          BY <3>2, <4>2, <5>1, <5>2
      <4>3. CASE m # n
        <5>1. pairs'[m] = pairs[m]
          BY <1>0, <3>1, <4>3
        <5> QED
          BY <1>0, <3>3, <4>1, <5>1 DEF TokensKept
      <4> QED
        BY <4>2, <4>3
    <3>6. ExchangeInv'
      BY <2>1, <3>5 DEF ExchangeInv
    <3> QED
      BY <3>4, <3>6 DEF OnceInv
  <2> QED
    BY <2>2, <2>3
<1>11. ASSUME NEW c \in Clients, Rotate(c) PROVE OnceInv'
  <2>1. req[c].step = "rotate" /\ req[c] \in Request \ {Ready}
    BY <1>0, <1>11, IdleStep DEF Rotate
  <2>2. [req[c] EXCEPT !.step = "issue"].step = "issue"
        /\ [req[c] EXCEPT !.step = "issue"].with = req[c].with
    BY <2>1 DEF Request, Working
  <2>3. /\ req'[c] = [req[c] EXCEPT !.step = "issue"]
        /\ \A d \in Clients \ {c} : req'[d] = req[d]
        /\ UNCHANGED <<pairs, uses, overlapped, reset>>
    BY <1>0, <1>11 DEF Rotate
  <2>4. /\ \A n \in Tokens : Exchanges(c, n)' => Exchanges(c, n)
        /\ \A n \in Resets : Resetting(c, n)' => Resetting(c, n)
    BY <2>1, <2>2, <2>3 DEF Exchanges, Resetting
  <2> QED
    BY <1>1, <2>3, <2>4
<1>12. ASSUME NEW c \in Clients, RevokeAll(c) \/ CreateReset(c) \/ ClientFails(c) PROVE OnceInv'
  <2>1. /\ req'[c] = Ready /\ \A d \in Clients \ {c} : req'[d] = req[d]
        /\ UNCHANGED <<pairs, uses, overlapped>>
    BY <1>3, <1>12 DEF RevokeAll, CreateReset, ClientFails, Finish
  <2>2. ASSUME CreateReset(c)
        PROVE  \A n \in Resets : reset[n].state = "used" => reset'[n].state = "used"
    <3>1. NextReset \in Unopened
      BY <2>2 DEF CreateReset, NextReset
    <3>2. reset[NextReset].state = "none" /\ NextReset \in Resets
      BY <3>1 DEF Unopened
    <3> QED
      BY <1>0, <2>2, <3>2 DEF CreateReset
  <2>3. \A n \in Resets : reset[n].state = "used" => reset'[n].state = "used"
    BY <1>12, <2>2 DEF RevokeAll, ClientFails
  <2> QED
    BY <1>1, <1>5, <2>1, <2>3
\* A reset token has been used.
<1>13. ASSUME NEW c \in Clients, ResetCommit(c) PROVE OnceInv'
  <2>1. /\ req'[c] = Ready /\ \A d \in Clients \ {c} : req'[d] = req[d]
        /\ UNCHANGED <<pairs, overlapped>> /\ req[c].step = "reset"
        /\ req[c].with \in Resets /\ reset[req[c].with] # NoToken
        /\ uses' = [uses EXCEPT ![req[c].with] = uses[req[c].with] + 1]
        /\ reset' = [reset EXCEPT ![req[c].with].state = "used"]
    BY <1>3, <1>13, Works, IdleStep DEF ResetCommit, AccessInv, References
  <2> DEFINE n == req[c].with
  <2>2. [reset[n] EXCEPT !.state = "used"].state = "used"
    BY <1>0, <2>1 DEF ResetRow
  <2>3. reset'[n].state = "used" /\ \A m \in Resets \ {n} : reset'[m] = reset[m]
    BY <1>0, <2>1, <2>2
  <2>4. /\ \A d \in Clients, m \in Resets : Resetting(d, m)' => Resetting(d, m) /\ d # c
        /\ \A d \in Clients, m \in Tokens : Exchanges(d, m)' => Exchanges(d, m)
        /\ Resetting(c, n)
    BY <1>5, <2>1 DEF Exchanges, Resetting
  <2>5. ExchangeInv'
    BY <1>0, <2>1, <2>4, ExchangesKept
  <2>6. ASSUME NEW m \in Resets \ overlapped.resets
        PROVE  /\ uses'[m] \in {0, 1}
               /\ uses'[m] = 1 => reset'[m].state = "used"
               /\ \A d \in Clients : Resetting(d, m)' =>
                    uses'[m] = 0 /\ \A e \in Clients : Resetting(e, m)' => e = d
    <3>1. /\ uses[m] \in {0, 1}
          /\ uses[m] = 1 => reset[m].state = "used"
          /\ \A d \in Clients : Resetting(d, m) =>
               uses[m] = 0 /\ \A e \in Clients : Resetting(e, m) => e = d
      BY <1>0, <2>6 DEF ResetInv
    <3>2. CASE m = n
      <4>1. uses[m] = 0 /\ \A d \in Clients : ~Resetting(d, m)'
        BY <2>4, <3>1, <3>2
      <4>2. uses'[m] = 1
        BY <1>0, <2>1, <3>2, <4>1
      <4> QED
        BY <2>3, <3>2, <4>1, <4>2
    <3>3. CASE m # n
      <4>1. uses'[m] = uses[m] /\ reset'[m] = reset[m]
        BY <1>0, <2>1, <2>3, <3>3
      <4> QED
        BY <2>4, <3>1, <4>1
    <3> QED
      BY <3>2, <3>3
  <2>7. ResetInv'
    BY <2>1, <2>6 DEF ResetInv
  <2> QED
    BY <2>5, <2>7 DEF OnceInv
<1>14. ASSUME NEW c \in Clients, ChangeCommit(c) PROVE OnceInv'
  <2>1. /\ req'[c].with = 0 /\ \A d \in Clients \ {c} : req'[d] = req[d]
        /\ UNCHANGED <<pairs, uses, overlapped, reset>>
    BY <1>4, <1>14 DEF ChangeCommit
  <2> QED
    BY <1>1, <1>6, <2>1
<1>15. ASSUME NEW n \in Resets, ResetExpires(n) PROVE OnceInv'
  <2>1. reset[n] \in ResetRow \ {NoToken} /\ reset' = [reset EXCEPT ![n].expired = TRUE]
    BY <1>0, <1>15 DEF ResetExpires, NoToken
  <2>2. [reset[n] EXCEPT !.expired = TRUE].state = reset[n].state
    BY <2>1 DEF ResetRow
  <2>3. \A m \in Resets : reset'[m].state = reset[m].state
    BY <1>0, <2>1, <2>2
  <2> QED
    BY <1>2, <1>15, <2>3 DEF ResetExpires
<1>16. CASE TenantNext \/ UNCHANGED accessVars \/
         (\E u \in Users : LogoutAll(u) \/ \E n \in Tokens : Logout(u, n)) \/
         (\E n \in Tokens : TokenExpires(n))
  <2>1. UNCHANGED <<pairs, uses, overlapped, req, reset>>
    BY <1>16, TenantStepFrame DEF accessVars, sessionVars, LogoutAll, Logout, TokenExpires
  <2> QED
    BY <1>2, <2>1
<1> QED
  BY <1>7, <1>8, <1>9, <1>10, <1>11, <1>12, <1>13, <1>14, <1>15, <1>16
  DEF AccessNext, SessionNext

\* A refresh token buys one pair and a reset token sets one password.
THEOREM TokensBuyOnce == AccessSpec => []TokensUsedOnce
<1>1. AccessInit => OnceInv
  BY DEF AccessInit, OnceInv, ExchangeInv, ResetInv, Exchanges, Resetting, Ready
<1>2. OnceInv => TokensUsedOnce
  BY DEF OnceInv, ExchangeInv, ResetInv, TokensUsedOnce
<1> QED
  BY <1>1, <1>2, AccessInvInit, AccessInvStep, OnceInvStep, PTL DEF AccessSpec

=============================================================================
