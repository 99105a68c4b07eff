----------------------------- MODULE OAuthGrant -----------------------------
(***************************************************************************)
(* The OAuth grant store of the identity provider: SSO sessions, client    *)
(* registrations, admission (assignments), consents, authorization codes   *)
(* and refresh-token families, with every HTTP handler that reads or       *)
(* writes them.                                                            *)
(*                                                                         *)
(* The handlers run concurrently against PostgreSQL at READ COMMITTED.     *)
(* An action below is one statement or one group of statements between     *)
(* which no other transaction can change the outcome:                      *)
(*   - a check made outside the transaction is a step of its own;          *)
(*   - a transaction that takes SELECT ... FOR UPDATE on the client and    *)
(*     then waits for the user keeps the client row locked between two     *)
(*     steps (ClientLocked);                                               *)
(*   - the last lock of a transaction, the statements after it and the     *)
(*     commit are one step: all they read is protected by the locks held;  *)
(*   - a bulk UPDATE or DELETE that no lock protects is two steps, the     *)
(*     snapshot that selects its rows and the step that re-evaluates them  *)
(*     (rows inserted in between are not seen).                            *)
(* A definition marked "Slip" is a plausible bug; no action uses it.  The  *)
(* mutation runs put it in the place of the definition that follows it.    *)
(*                                                                         *)
(* The scheduler, the row-lock queue and the clock are PostgreSQL's and    *)
(* the host's; a code, session or token lapses when its time has passed,   *)
(* which is an environment step or an input of the handler.                *)
(***************************************************************************)
EXTENDS Naturals, FiniteSets

CONSTANTS
  Users,              \* accounts whose email is verified
  Clients,            \* client ids CreateClient may generate
  Scopes,             \* scopes every client allows (normalizeClientScopes)
  Redirects,          \* callback URIs
  Sessions,           \* session ids Login may generate
  Codes,              \* authorization codes OAuthAuthorize may generate
  Tokens,             \* refresh tokens issueTokenPair may generate
  Provisioned,        \* clients with a provisioning target
  AuthorizeRequests,  \* concurrent POST /oauth/authorize requests
  TokenRequests,      \* concurrent POST /oauth/token requests
  RevokeRequests,     \* concurrent requests that revoke a grant
  AccountRequests,    \* concurrent login and password-change requests
  AdminUsers,         \* accounts the administration endpoints are used on
  AdminClients,       \* clients the management endpoints are used on
  MaxVersion          \* bound on password and client-secret versions

ASSUME ProvisionedAssumption == Provisioned \subseteq Clients
ASSUME AdminAssumption == AdminUsers \subseteq Users /\ AdminClients \subseteq Clients
ASSUME MaxVersionAssumption == MaxVersion \in Nat

VARIABLES
  user,      \* users.is_active, or deleted
  cred,      \* version of users.password
  session,   \* sessions
  client,    \* oauth_clients
  assign,    \* oauth_client_assignments by client and user
  consent,   \* oauth_consents by client and user
  code,      \* oauth_auth_codes
  token,     \* oauth_tokens
  authz,     \* OAuthAuthorize requests in flight
  grant,     \* OAuthToken requests in flight
  cut,       \* grant-revoking requests in flight
  acct,      \* Login and ChangePassword requests in flight
  removal,   \* AdminDeleteUser transactions in flight, by target
  approved,  \* history: scopes the user approved since the last revocation
  closed     \* history: families a completed revocation was about

stores == <<user, cred, session, client, assign, consent, code, token>>
requests == <<authz, grant, cut, acct, removal>>
history == <<approved, closed>>
vars == <<stores, requests, history>>

Versions == 0 .. MaxVersion
Policies == {"assigned_only", "all_active_users"}
Pairs == Clients \X Users

\* A row that was never inserted, a row that is gone for good, and a request
\* slot with no request in it.
Absent == [st |-> "none"]
Gone == [st |-> "gone"]
Idle == [pc |-> "idle"]

-----------------------------------------------------------------------------
(* Row types.  The fields cred and secret of codes and tokens, and code of *)
(* tokens, are history: the password and secret version, and the code, the *)
(* row was issued under.                                                   *)

SessionRow == [st : {"live", "revoked"}, user : Users, cred : Versions]
ClientRow == [st : {"active", "deleted", "purged"}, owner : Users,
              policy : Policies, redirects : SUBSET Redirects,
              secret : Versions]
ConsentRow == [st : {"active", "revoked"}, scope : SUBSET Scopes]
CodeRow == [st : {"issued", "expired"}, client : Clients, user : Users,
            redirect : Redirects, scope : SUBSET Scopes, cred : Versions]
TokenRow == [st : {"live", "revoked"}, family : Tokens, client : Clients,
             user : Users, scope : SUBSET Scopes, code : Codes,
             cred : Versions, secret : Versions]

AuthorizeReq == [pc : {"checked"}, session : Sessions, user : Users,
                 client : Clients, redirect : Redirects,
                 scope : SUBSET Scopes, ok : BOOLEAN]
ExchangeReq == [pc : {"presented", "locked"}, kind : {"code"},
                code : Codes, client : Clients, secret : Versions,
                valid : BOOLEAN]
RefreshReq == [pc : {"presented", "locked"}, kind : {"refresh"},
               token : Tokens, client : Clients, secret : Versions,
               valid : BOOLEAN]
GrantKinds == {"disconnect", "assign", "unassign"}
CutReq == [pc : {"tokens", "codes"}, kind : GrantKinds, client : Clients,
           user : Users, tokens : SUBSET Tokens, codes : SUBSET Codes]
AssignReq == [pc : {"assign"}, kind : {"assign"}, client : Clients, user : Users]
FamilyReq == [pc : {"family"}, kind : {"family"}, family : Tokens,
              tokens : SUBSET Tokens]
BearerReq == [pc : {"bearer", "denyUser", "denyToken"}, kind : {"bearer"},
              token : Tokens, client : Clients, user : Users]
LoginReq == [pc : {"login"}, user : Users, cred : Versions]
PasswordReq == [pc : {"password"}, user : Users, cred : Versions,
                session : Sessions]
RemovalReq == [pc : {"removing"}, clients : SUBSET Clients,
               tokens : SUBSET Tokens, codes : SUBSET Codes]

TypeOK ==
  /\ user \in [Users -> {"active", "inactive", "deleted"}]
  /\ cred \in [Users -> Versions]
  /\ session \in [Sessions -> SessionRow \cup {Absent, Gone}]
  /\ client \in [Clients -> ClientRow \cup {Absent}]
  /\ assign \in [Pairs -> {"none", "active", "deleted"}]
  /\ consent \in [Pairs -> ConsentRow \cup {Absent}]
  /\ code \in [Codes -> CodeRow \cup {Absent, Gone}]
  /\ token \in [Tokens -> TokenRow \cup {Absent, Gone}]
  /\ authz \in [AuthorizeRequests -> AuthorizeReq \cup {Idle}]
  /\ grant \in [TokenRequests -> ExchangeReq \cup RefreshReq \cup {Idle}]
  /\ cut \in [RevokeRequests ->
                CutReq \cup AssignReq \cup FamilyReq \cup BearerReq \cup {Idle}]
  /\ acct \in [AccountRequests -> LoginReq \cup PasswordReq \cup {Idle}]
  /\ removal \in [Users -> RemovalReq \cup {Idle}]
  /\ approved \in [Pairs -> SUBSET Scopes]
  /\ closed \subseteq Tokens

Init ==
  /\ user = [u \in Users |-> "active"]
  /\ cred = [u \in Users |-> 0]
  /\ session = [s \in Sessions |-> Absent]
  /\ client = [c \in Clients |-> Absent]
  /\ assign = [p \in Pairs |-> "none"]
  /\ consent = [p \in Pairs |-> Absent]
  /\ code = [k \in Codes |-> Absent]
  /\ token = [t \in Tokens |-> Absent]
  /\ authz = [r \in AuthorizeRequests |-> Idle]
  /\ grant = [r \in TokenRequests |-> Idle]
  /\ cut = [r \in RevokeRequests |-> Idle]
  /\ acct = [r \in AccountRequests |-> Idle]
  /\ removal = [u \in Users |-> Idle]
  /\ approved = [p \in Pairs |-> {}]
  /\ closed = {}

-----------------------------------------------------------------------------
(* Policy decisions and row selections shared by the handlers.             *)

Usable(u) == user[u] = "active"

Access(c, u) ==
  /\ client[c].st = "active"
  /\ \/ assign[c, u] = "active"
     \/ client[c].policy = "all_active_users"

ConsentCovers(c, u, scope) ==
  consent[c, u].st = "active" /\ scope \subseteq consent[c, u].scope

MissingApproval(c, u, scope, ok) == ~ConsentCovers(c, u, scope) /\ ~ok

\* persistOAuthConsent merges the requested scope into whatever the row
\* holds, a revoked row included.
MergedConsent(c, u, scope) ==
  [st |-> "active",
   scope |-> scope \cup (IF consent[c, u] = Absent THEN {}
                         ELSE consent[c, u].scope)]

LiveTokens == {t \in Tokens : token[t].st = "live"}
StoredCodes == {k \in Codes : code[k].st \in {"issued", "expired"}}

UserTokens(u) == {t \in LiveTokens : token[t].user = u}
ClientTokens(c) == {t \in LiveTokens : token[t].client = c}
GrantTokens(c, u) == UserTokens(u) \cap ClientTokens(c)
FamilyTokens(f) == {t \in LiveTokens : token[t].family = f}
Families(T) == {token[t].family : t \in {i \in T : token[i] # Gone}}
UserCodes(u) == {k \in StoredCodes : code[k].user = u}
ClientCodes(c) == {k \in StoredCodes : code[k].client = c}
UserSessions(u) == {s \in Sessions : session[s].st = "live" /\ session[s].user = u}
OwnedClients(u) == {c \in Clients : client[c] # Absent /\ client[c].owner = u}

\* Slip: the UPDATE brings back rows that were deleted meanwhile.
RevokeEvenDeleted(T) ==
  token' = [t \in Tokens |-> IF t \in T THEN [token[t] EXCEPT !.st = "revoked"]
                             ELSE token[t]]

RevokeTokens(T) ==
  token' = [t \in Tokens |-> IF t \in T \cap LiveTokens
                             THEN [token[t] EXCEPT !.st = "revoked"]
                             ELSE token[t]]
DeleteCodes(K) == code' = [k \in Codes |-> IF k \in K \cap StoredCodes
                                           THEN Gone ELSE code[k]]
EndSessions(S) == session' = [s \in Sessions |-> IF s \in S
                                THEN [session[s] EXCEPT !.st = "revoked"]
                                ELSE session[s]]

\* Rows a revoking transaction has updated and not yet committed: any other
\* UPDATE or FOR UPDATE of them waits.
HeldBy(R) ==
  LiveTokens \cap UNION {cut[r].tokens : r \in {q \in R : cut[q].pc = "codes"}}
HeldTokens == HeldBy(RevokeRequests)

\* Slip: assigning and unassigning do not lock the client.
AssignmentWithoutLock(r) == FALSE

\* The client row is locked by a token request past LockClient, and by the
\* transaction of AssignClientUser or DeleteClientAssignment, which has written
\* the assignment or is about to.
AssignmentWritten(r) == cut[r].pc \in {"tokens", "codes"} /\ cut[r].kind # "disconnect"
LocksClient(r) == AssignmentWritten(r) \/ cut[r].pc = "assign"
ClientLocked(c) ==
  \/ \E r \in TokenRequests : grant[r].pc = "locked" /\ grant[r].client = c
  \/ \E r \in RevokeRequests : LocksClient(r) /\ cut[r].client = c

\* Slip: AdminDeleteUser does not lock the user.
NoUserLock(u) == FALSE

\* AdminDeleteUser keeps the user row locked, and the codes, consents and
\* assignments it has deleted, while it waits for tokens and clients.
UserLocked(u) == removal[u] # Idle
Removing(c) == \E u \in Users : removal[u] # Idle /\ c \in removal[u].clients
PairHeld(c, u) == UserLocked(u) \/ Removing(c)

\* A token request can lock the user row, then the row presented.
RowsFree(r) ==
  IF grant[r].kind = "code"
  THEN LET k == grant[r].code IN
       k \in StoredCodes => ~PairHeld(code[k].client, code[k].user)
  ELSE LET t == grant[r].token IN
       token[t].st \in {"live", "revoked"} =>
         ~UserLocked(token[t].user) /\ t \notin HeldTokens

-----------------------------------------------------------------------------
(* POST /auth/login and POST /auth/logout.  Login compares the password    *)
(* with the row it read, then locks the user and compares again.           *)

LoginStart(r, u) ==
  /\ acct[r] = Idle
  /\ Usable(u)
  /\ acct' = [acct EXCEPT ![r] = [pc |-> "login", user |-> u, cred |-> cred[u]]]
  /\ UNCHANGED <<stores, authz, grant, cut, history, removal>>

\* Slip: the status of the account is not read again.
OnlySamePassword(r) == cred[acct[r].user] = acct[r].cred

SameCredentials(r) ==
  Usable(acct[r].user) /\ cred[acct[r].user] = acct[r].cred

LoginCommit(r) ==
  /\ acct[r].pc = "login"
  /\ ~UserLocked(acct[r].user)
  /\ SameCredentials(r)
  /\ \E s \in Sessions :
       /\ session[s] = Absent
       /\ session' = [session EXCEPT ![s] =
            [st |-> "live", user |-> acct[r].user, cred |-> acct[r].cred]]
  /\ acct' = [acct EXCEPT ![r] = Idle]
  /\ UNCHANGED <<user, cred, client, assign, consent, code, token,
                 authz, grant, cut, history, removal>>

\* Logout, or the session's lifetime has passed.
Logout(s) ==
  /\ session[s].st = "live"
  /\ EndSessions({s})
  /\ UNCHANGED <<user, cred, client, assign, consent, code, token,
                 requests, history>>

-----------------------------------------------------------------------------
(* POST /auth/change-password and POST /auth/password-reset/confirm.       *)

ChangePasswordStart(r, s) ==
  /\ acct[r] = Idle
  /\ session[s].st = "live"
  /\ Usable(session[s].user)
  /\ acct' = [acct EXCEPT ![r] =
       [pc |-> "password", user |-> session[s].user,
        cred |-> cred[session[s].user], session |-> s]]
  /\ UNCHANGED <<stores, authz, grant, cut, history, removal>>

SessionStillLive(s, u) == session[s].st = "live" /\ session[s].user = u

\* The session that changed the password stays, re-authenticated; every
\* other session, token and code of the user goes.
ChangePasswordCommit(r) ==
  LET u == acct[r].user IN
  /\ acct[r].pc = "password"
  /\ ~UserLocked(u)
  /\ SameCredentials(r)
  /\ SessionStillLive(acct[r].session, u)
  /\ cred[u] < MaxVersion
  /\ UserTokens(u) \cap HeldTokens = {}
  /\ cred' = [cred EXCEPT ![u] = @ + 1]
  /\ session' = [s \in Sessions |->
       IF s = acct[r].session THEN [session[s] EXCEPT !.cred = cred[u] + 1]
       ELSE IF s \in UserSessions(u) THEN [session[s] EXCEPT !.st = "revoked"]
       ELSE session[s]]
  /\ RevokeTokens(UserTokens(u))
  /\ DeleteCodes(UserCodes(u))
  /\ acct' = [acct EXCEPT ![r] = Idle]
  /\ UNCHANGED <<user, client, assign, consent, authz, grant, cut, history, removal>>

\* Slip: nothing answers for a session that ended.
RefusedOnlyCredentials(r) ==
  /\ acct[r] # Idle
  /\ ~UserLocked(acct[r].user)
  /\ ~SameCredentials(r)
  /\ acct' = [acct EXCEPT ![r] = Idle]
  /\ UNCHANGED <<stores, authz, grant, cut, history, removal>>

\* errCredentialsChanged, for either request.
AccountRefused(r) ==
  /\ acct[r] # Idle
  /\ ~UserLocked(acct[r].user)
  /\ \/ ~SameCredentials(r)
     \/ acct[r].pc = "password" /\ ~SessionStillLive(acct[r].session, acct[r].user)
  /\ acct' = [acct EXCEPT ![r] = Idle]
  /\ UNCHANGED <<stores, authz, grant, cut, history, removal>>

\* A valid reset link is presented; its own life cycle is not modelled here.
ConfirmPasswordReset(u) ==
  /\ Usable(u) /\ ~UserLocked(u)
  /\ cred[u] < MaxVersion
  /\ UserTokens(u) \cap HeldTokens = {}
  /\ cred' = [cred EXCEPT ![u] = @ + 1]
  /\ EndSessions(UserSessions(u))
  /\ RevokeTokens(UserTokens(u))
  /\ DeleteCodes(UserCodes(u))
  /\ UNCHANGED <<user, client, assign, consent, requests, history>>

-----------------------------------------------------------------------------
(* Administration of accounts.                                             *)

\* Another account does it: an administrator may not deactivate or delete
\* the account in use.
ByAnother(u) == \E a \in Users \ {u} : user[a] # "deleted"

AdminUpdateStatus(u, active) ==
  /\ user[u] # "deleted" /\ ~UserLocked(u)
  /\ active \/ ByAnother(u)
  /\ user' = [user EXCEPT ![u] = IF active THEN "active" ELSE "inactive"]
  /\ \/ /\ active
        /\ UNCHANGED <<session, code, token>>
     \/ /\ ~active
        /\ UserTokens(u) \cap HeldTokens = {}
        /\ EndSessions(UserSessions(u))
        /\ RevokeTokens(UserTokens(u))
        /\ DeleteCodes(UserCodes(u))
  /\ UNCHANGED <<cred, client, assign, consent, requests, history>>

\* The role itself guards only the management endpoints.
AdminUpdateRole(u) ==
  /\ user[u] # "deleted" /\ ~UserLocked(u)
  /\ UserTokens(u) \cap HeldTokens = {}
  /\ RevokeTokens(UserTokens(u))
  /\ DeleteCodes(UserCodes(u))
  /\ UNCHANGED <<user, cred, session, client, assign, consent,
                 requests, history>>

\* The rows of the user and of the clients the user owns are deleted table
\* by table.  The DELETE of the tokens has its rows from here on and waits
\* for those that are locked; the DELETE of the clients waits for theirs.
AdminDeleteUserStart(u) ==
  LET owned == OwnedClients(u) IN
  /\ user[u] # "deleted" /\ removal[u] = Idle
  /\ ByAnother(u)
  /\ \A r \in RevokeRequests : AssignmentWritten(r) =>
       cut[r].user # u /\ cut[r].client \notin owned
  /\ removal' = [removal EXCEPT ![u] =
       [pc |-> "removing", clients |-> owned,
        tokens |-> {t \in Tokens : token[t].st \in {"live", "revoked"} /\
                      (token[t].user = u \/ token[t].client \in owned)},
        codes |-> {k \in StoredCodes : code[k].user = u \/ code[k].client \in owned}]]
  /\ UNCHANGED <<stores, authz, grant, cut, acct, history>>

\* Assignments and consents go with their client or user (ON DELETE CASCADE).
AdminDeleteUserCommit(u) ==
  LET owned == removal[u].clients
      pairs == {p \in Pairs : p[1] \in owned \/ p[2] = u}
  IN
  /\ removal[u] # Idle
  /\ removal[u].tokens \cap HeldTokens = {}
  /\ \A c \in owned : ~ClientLocked(c)
  /\ user' = [user EXCEPT ![u] = "deleted"]
  /\ session' = [s \in Sessions |->
       IF session[s] # Absent /\ session[s] # Gone /\ session[s].user = u
       THEN Gone ELSE session[s]]
  /\ client' = [c \in Clients |-> IF c \in owned
                  THEN [client[c] EXCEPT !.st = "purged"] ELSE client[c]]
  /\ assign' = [p \in Pairs |-> IF p \in pairs THEN "none" ELSE assign[p]]
  /\ consent' = [p \in Pairs |-> IF p \in pairs THEN Absent ELSE consent[p]]
  /\ DeleteCodes(removal[u].codes)
  /\ token' = [t \in Tokens |-> IF t \in removal[u].tokens THEN Gone ELSE token[t]]
  /\ approved' = [p \in Pairs |-> IF p \in pairs THEN {} ELSE approved[p]]
  /\ removal' = [removal EXCEPT ![u] = Idle]
  /\ UNCHANGED <<cred, authz, grant, cut, acct, closed>>

\* The database breaks a deadlock with a request that holds what this
\* transaction waits for.
AdminDeleteUserAborted(u) ==
  /\ removal[u] # Idle
  /\ \/ \E r \in RevokeRequests :
          removal[u].tokens \cap HeldBy({r}) # {} /\ PairHeld(cut[r].client, cut[r].user)
     \/ \E r \in TokenRequests :
          grant[r].pc = "locked" /\ grant[r].client \in removal[u].clients /\ ~RowsFree(r)
     \/ \E r \in RevokeRequests :
          cut[r].pc = "assign" /\ cut[r].client \in removal[u].clients
  /\ removal' = [removal EXCEPT ![u] = Idle]
  /\ UNCHANGED <<stores, authz, grant, cut, acct, history>>

-----------------------------------------------------------------------------
(* Administration of clients: one transaction under the client's row lock. *)

\* Slip: the owner is left out of the assignments.
CreateUnassigned(c, u, policy, uris) ==
  /\ client[c] = Absent
  /\ user[u] # "deleted" /\ ~UserLocked(u)
  /\ client' = [client EXCEPT ![c] =
       [st |-> "active", owner |-> u, policy |-> policy,
        redirects |-> uris, secret |-> 0]]
  /\ UNCHANGED <<user, cred, session, assign, consent, code, token, requests, history>>

\* The session was checked when the request arrived and may be gone since.
CreateClient(c, u, policy, uris) ==
  /\ client[c] = Absent
  /\ user[u] # "deleted" /\ ~UserLocked(u)
  /\ client' = [client EXCEPT ![c] =
       [st |-> "active", owner |-> u, policy |-> policy,
        redirects |-> uris, secret |-> 0]]
  /\ assign' = [assign EXCEPT ![<<c, u>>] = "active"]
  /\ UNCHANGED <<user, cred, session, consent, code, token, requests, history>>

\* The owner's soft-deleted assignment is not seen by the lookup and blocks
\* the INSERT (unique index): the transaction rolls back, hence the guard.
UpdateClient(c, policy, uris) ==
  LET changed == policy # client[c].policy IN
  /\ client[c].st = "active"
  /\ ~ClientLocked(c) /\ ~Removing(c)
  /\ c \in Provisioned => policy = "assigned_only"
  /\ policy = "assigned_only" => assign[c, client[c].owner] # "deleted"
  /\ changed => ClientTokens(c) \cap HeldTokens = {}
  /\ client' = [client EXCEPT ![c].policy = policy, ![c].redirects = uris]
  /\ assign' = IF policy = "assigned_only"
               THEN [assign EXCEPT ![<<c, client[c].owner>>] = "active"] ELSE assign
  /\ DeleteCodes(ClientCodes(c))
  /\ RevokeTokens(IF changed THEN ClientTokens(c) ELSE {})
  /\ UNCHANGED <<user, cred, session, consent, requests, history>>

\* Slip: the grants of the previous secret stay.
RegenerateSecretOnly(c) ==
  /\ client[c].st = "active"
  /\ ~ClientLocked(c) /\ ~Removing(c)
  /\ client[c].secret < MaxVersion
  /\ client' = [client EXCEPT ![c].secret = @ + 1]
  /\ UNCHANGED <<user, cred, session, assign, consent, code, token, requests, history>>

RegenerateClientSecret(c) ==
  /\ client[c].st = "active"
  /\ ~ClientLocked(c) /\ ~Removing(c)
  /\ ClientTokens(c) \cap HeldTokens = {}
  /\ client[c].secret < MaxVersion
  /\ client' = [client EXCEPT ![c].secret = @ + 1]
  /\ RevokeTokens(ClientTokens(c))
  /\ DeleteCodes(ClientCodes(c))
  /\ UNCHANGED <<user, cred, session, assign, consent, requests, history>>

DeleteClient(c) ==
  /\ client[c].st = "active"
  /\ ~ClientLocked(c) /\ ~Removing(c)
  /\ ClientTokens(c) \cap HeldTokens = {}
  /\ client' = [client EXCEPT ![c].st = "deleted"]
  /\ RevokeTokens(ClientTokens(c))
  /\ DeleteCodes(ClientCodes(c))
  /\ consent' = [p \in Pairs |-> IF p[1] = c THEN Absent ELSE consent[p]]
  /\ assign' = [p \in Pairs |-> IF p[1] = c /\ assign[p] = "active"
                                THEN "deleted" ELSE assign[p]]
  /\ approved' = [p \in Pairs |-> IF p[1] = c THEN {} ELSE approved[p]]
  /\ UNCHANGED <<user, cred, session, requests, closed>>

-----------------------------------------------------------------------------
(* POST /oauth/authorize.  Client, callback, admission and consent are     *)
(* checked first; the transaction then locks the user, checks the account  *)
(* and the session again, and stores the code and the consent.             *)

\* The purge of expired codes is the last statement before the transaction.
AuthorizeCheck(r, s, c, uri, scope, ok) ==
  LET u == session[s].user IN
  /\ authz[r] = Idle
  /\ session[s].st = "live"
  /\ Usable(u)
  /\ client[c].st = "active"
  /\ uri \in client[c].redirects
  /\ Access(c, u)
  /\ ~MissingApproval(c, u, scope, ok)
  /\ authz' = [authz EXCEPT ![r] =
       [pc |-> "checked", session |-> s, user |-> u, client |-> c,
        redirect |-> uri, scope |-> scope, ok |-> ok]]
  /\ DeleteCodes({k \in StoredCodes : code[k].st = "expired"})
  /\ UNCHANGED <<user, cred, session, client, assign, consent, token,
                 grant, cut, acct, history, removal>>

\* Slip: the session is not read again.
OnlyAccountRecheck(r) == Usable(authz[r].user)

SessionRecheck(r) ==
  Usable(authz[r].user) /\ SessionStillLive(authz[r].session, authz[r].user)

\* A first consent for the pair is an INSERT: its foreign key waits for a
\* locked client row and fails when the row was removed.  A stored consent is
\* locked first.
ConsentStorable(c, u) ==
  IF consent[c, u] = Absent THEN client[c].st # "purged" /\ ~ClientLocked(c)
  ELSE ~Removing(c)

AuthorizeCommit(r) ==
  LET a == authz[r]
      u == a.user
      c == a.client
  IN
  /\ a.pc = "checked"
  /\ ~UserLocked(u)
  /\ SessionRecheck(r)
  /\ ConsentStorable(c, u)
  /\ \E k \in Codes :
       /\ code[k] = Absent
       /\ code' = [code EXCEPT ![k] =
            [st |-> "issued", client |-> c, user |-> u,
             redirect |-> a.redirect, scope |-> a.scope,
             cred |-> session[a.session].cred]]
  /\ consent' = [consent EXCEPT ![<<c, u>>] = MergedConsent(c, u, a.scope)]
  /\ approved' = [approved EXCEPT ![<<c, u>>] = @ \cup (IF a.ok THEN a.scope ELSE {})]
  /\ authz' = [authz EXCEPT ![r] = Idle]
  /\ UNCHANGED <<user, cred, session, client, assign, token,
                 grant, cut, acct, closed, removal>>

\* A deadlock: the authorization holds the user and inserts a consent, whose
\* foreign key waits for the client; AssignClientUser holds the client and
\* inserts an assignment, whose foreign key waits for the user.
Crossed(r, q) ==
  LET pair == <<authz[r].client, authz[r].user>> IN
  /\ authz[r].pc = "checked" /\ SessionRecheck(r)
  /\ cut[q].pc = "assign" /\ pair = <<cut[q].client, cut[q].user>>
  /\ consent[pair] = Absent /\ assign[pair] = "none"

AuthorizeRefused(r) ==
  /\ authz[r] # Idle
  /\ ~UserLocked(authz[r].user)
  /\ \/ ~SessionRecheck(r)
     \/ \E q \in RevokeRequests : Crossed(r, q)
     \/ /\ consent[authz[r].client, authz[r].user] = Absent
        /\ client[authz[r].client].st = "purged"
  /\ authz' = [authz EXCEPT ![r] = Idle]
  /\ UNCHANGED <<stores, grant, cut, acct, history, removal>>

\* The five minutes of a code have passed.
ExpireCode(k) ==
  /\ code[k].st = "issued"
  /\ code' = [code EXCEPT ![k].st = "expired"]
  /\ UNCHANGED <<user, cred, session, client, assign, consent, token,
                 requests, history>>

-----------------------------------------------------------------------------
(* POST /oauth/token.  authenticateClient checks the client outside the    *)
(* transaction; lockAndVerifyOAuthClient checks it again under the row     *)
(* lock; the user is locked next, and the code or token is read again.     *)

\* valid: the redirect URI and the PKCE verifier match the code, or the
\* thirty days of the refresh token have not passed.
ExchangeStart(r, k, valid) ==
  /\ grant[r] = Idle
  /\ k \in StoredCodes
  /\ client[code[k].client].st = "active"
  /\ grant' = [grant EXCEPT ![r] =
       [pc |-> "presented", kind |-> "code", code |-> k,
        client |-> code[k].client, secret |-> client[code[k].client].secret,
        valid |-> valid]]
  /\ UNCHANGED <<stores, authz, cut, acct, history, removal>>

RotateStart(r, t, valid) ==
  /\ grant[r] = Idle
  /\ token[t].st \in {"live", "revoked"}
  /\ client[token[t].client].st = "active"
  /\ grant' = [grant EXCEPT ![r] =
       [pc |-> "presented", kind |-> "refresh", token |-> t,
        client |-> token[t].client, secret |-> client[token[t].client].secret,
        valid |-> valid]]
  /\ UNCHANGED <<stores, authz, cut, acct, history, removal>>

ClientAuthentic(r) ==
  /\ client[grant[r].client].st = "active"
  /\ client[grant[r].client].secret = grant[r].secret

\* The row presented is still stored.
Presented(r) ==
  IF grant[r].kind = "code" THEN grant[r].code \in StoredCodes
  ELSE token[grant[r].token].st \in {"live", "revoked"}

LockClient(r) ==
  /\ grant[r].pc = "presented"
  /\ ~ClientLocked(grant[r].client)
  /\ ClientAuthentic(r)
  /\ Presented(r)
  /\ grant' = [grant EXCEPT ![r].pc = "locked"]
  /\ UNCHANGED <<stores, authz, cut, acct, history, removal>>

\* Slip: nothing answers for a row that is gone.
RefusedOnlyUnauthentic(r) ==
  /\ grant[r].pc = "presented"
  /\ ~ClientLocked(grant[r].client)
  /\ ~ClientAuthentic(r)
  /\ grant' = [grant EXCEPT ![r] = Idle]
  /\ UNCHANGED <<stores, authz, cut, acct, history, removal>>

LockClientRefused(r) ==
  /\ grant[r].pc = "presented"
  /\ ~ClientLocked(grant[r].client)
  /\ ~ClientAuthentic(r) \/ ~Presented(r)
  /\ grant' = [grant EXCEPT ![r] = Idle]
  /\ UNCHANGED <<stores, authz, cut, acct, history, removal>>

\* issueTokenPair refuses an account or an admission that no longer stands.
MayIssue(u, c) == Usable(u) /\ Access(c, u)

\* Slip: the age of the code is not checked.
AnyStoredCode(r) ==
  /\ grant[r].code \in StoredCodes
  /\ grant[r].valid
  /\ MayIssue(code[grant[r].code].user, grant[r].client)

Exchangeable(r) ==
  /\ code[grant[r].code].st = "issued"
  /\ grant[r].valid
  /\ MayIssue(code[grant[r].code].user, grant[r].client)

\* Slip: the code is not deleted.
CodeKept(k) == UNCHANGED code

ConsumeCode(k) == DeleteCodes({k})

Exchange(r) ==
  LET k == grant[r].code
      row == code[k]
  IN
  /\ grant[r].pc = "locked" /\ grant[r].kind = "code"
  /\ RowsFree(r)
  /\ Exchangeable(r)
  /\ ConsumeCode(k)
  /\ \E n \in Tokens :
       /\ token[n] = Absent
       /\ token' = [token EXCEPT ![n] =
            [st |-> "live", family |-> n, client |-> row.client,
             user |-> row.user, scope |-> row.scope, code |-> k,
             cred |-> row.cred, secret |-> grant[r].secret]]
  /\ grant' = [grant EXCEPT ![r] = Idle]
  /\ UNCHANGED <<user, cred, session, client, assign, consent,
                 authz, cut, acct, history, removal>>

Rotatable(r) ==
  LET row == token[grant[r].token] IN
  row.st = "live" /\ grant[r].valid /\ MayIssue(row.user, grant[r].client)

\* Slip: the token presented stays usable.
RotateKeepingOld(r) ==
  /\ grant[r].pc = "locked" /\ grant[r].kind = "refresh"
  /\ RowsFree(r)
  /\ Rotatable(r)
  /\ \E n \in Tokens :
       /\ token[n] = Absent
       /\ token' = [token EXCEPT ![n] =
            [token[grant[r].token] EXCEPT !.secret = grant[r].secret]]
  /\ grant' = [grant EXCEPT ![r] = Idle]
  /\ UNCHANGED <<user, cred, session, client, assign, consent, code,
                 authz, cut, acct, history, removal>>

Rotate(r) ==
  LET t == grant[r].token
      row == token[t]
  IN
  /\ grant[r].pc = "locked" /\ grant[r].kind = "refresh"
  /\ RowsFree(r)
  /\ Rotatable(r)
  /\ \E n \in Tokens :
       /\ token[n] = Absent
       /\ token' = [token EXCEPT ![t].st = "revoked",
                                 ![n] = [row EXCEPT !.secret = grant[r].secret]]
  /\ grant' = [grant EXCEPT ![r] = Idle]
  /\ UNCHANGED <<user, cred, session, client, assign, consent, code,
                 authz, cut, acct, history, removal>>

\* A refresh token presented after its rotation revokes what is left of its
\* family.
RefreshReuse(r) ==
  LET t == grant[r].token IN
  /\ grant[r].pc = "locked" /\ grant[r].kind = "refresh"
  /\ RowsFree(r)
  /\ token[t].st = "revoked"
  /\ FamilyTokens(token[t].family) \cap HeldTokens = {}
  /\ RevokeTokens(FamilyTokens(token[t].family))
  /\ grant' = [grant EXCEPT ![r] = Idle]
  /\ UNCHANGED <<user, cred, session, client, assign, consent, code,
                 authz, cut, acct, history, removal>>

\* Every other answer rolls back: the code stays and no token is stored.  The
\* last case is a deadlock: this request waits for AdminDeleteUser, which
\* waits for the client row.
TokenRefused(r) ==
  /\ grant[r].pc = "locked"
  /\ \/ /\ grant[r].kind = "code"
        /\ RowsFree(r)
        /\ ~Exchangeable(r)
     \/ /\ grant[r].kind = "refresh"
        /\ RowsFree(r)
        /\ token[grant[r].token].st # "revoked"
        /\ ~Rotatable(r)
     \/ Removing(grant[r].client) /\ ~RowsFree(r)
  /\ grant' = [grant EXCEPT ![r] = Idle]
  /\ UNCHANGED <<stores, authz, cut, acct, history, removal>>

-----------------------------------------------------------------------------
(* Revocation of one user's grant to one client: three statements, tokens, *)
(* codes, consent (revokeClientUserGrant).  The portal's disconnect runs   *)
(* them without a lock; assigning and unassigning a user run them under    *)
(* the client's row lock.                                                  *)

StartCut(r, kind, c, u) ==
  /\ cut[r] = Idle
  /\ cut' = [cut EXCEPT ![r] =
       [pc |-> "tokens", kind |-> kind, client |-> c, user |-> u,
        tokens |-> GrantTokens(c, u), codes |-> {}]]
  /\ UNCHANGED <<stores, authz, grant, acct, history, removal>>

RevokeConnectionStart(r, c, u) ==
  /\ Usable(u) /\ UserSessions(u) # {}
  /\ GrantTokens(c, u) # {}
  /\ StartCut(r, "disconnect", c, u)

\* AssignClientUser locks the client and reads the user without a lock.
AssignStart(r, c, u) ==
  /\ cut[r] = Idle
  /\ client[c].st = "active" /\ ~ClientLocked(c)
  /\ Usable(u)
  /\ cut' = [cut EXCEPT ![r] = [pc |-> "assign", kind |-> "assign", client |-> c, user |-> u]]
  /\ UNCHANGED <<stores, authz, grant, acct, history, removal>>

\* The row is inserted or updated, and kept from others until the commit.
AssignWrite(r) ==
  LET c == cut[r].client
      u == cut[r].user
  IN
  /\ cut[r].pc = "assign"
  /\ ~PairHeld(c, u)
  /\ user[u] # "deleted"
  /\ cut' = [cut EXCEPT ![r] =
       [pc |-> "tokens", kind |-> "assign", client |-> c, user |-> u,
        tokens |-> GrantTokens(c, u), codes |-> {}]]
  /\ UNCHANGED <<stores, authz, grant, acct, history, removal>>

\* Of a user who is gone the INSERT fails on its foreign key, and the UPDATE
\* finds no row, nor do the statements after it.  The others are deadlocks, with
\* AdminDeleteUser, which waits for the client, and with an authorization.
AssignRefused(r) ==
  /\ cut[r].pc = "assign"
  /\ \/ user[cut[r].user] = "deleted"
     \/ Removing(cut[r].client)
     \/ \E q \in AuthorizeRequests : Crossed(q, r)
  /\ cut' = [cut EXCEPT ![r] = Idle]
  /\ UNCHANGED <<stores, authz, grant, acct, history, removal>>

\* Slip: the owner is not protected.
UnassignOwnerToo(r, c, u) ==
  /\ client[c].st = "active" /\ ~ClientLocked(c) /\ ~PairHeld(c, u)
  /\ assign[c, u] = "active"
  /\ StartCut(r, "unassign", c, u)

UnassignStart(r, c, u) ==
  /\ client[c].st = "active" /\ ~ClientLocked(c) /\ ~PairHeld(c, u)
  /\ ~(client[c].policy = "assigned_only" /\ client[c].owner = u)
  /\ assign[c, u] = "active"
  /\ StartCut(r, "unassign", c, u)

\* The token UPDATE has its rows: those of its snapshot still live once no
\* one else holds them.  The code DELETE takes its snapshot next.
CutTokens(r) ==
  /\ cut[r].pc = "tokens"
  /\ cut[r].tokens \cap HeldBy(RevokeRequests \ {r}) = {}
  /\ cut' = [cut EXCEPT ![r].pc = "codes",
                        ![r].codes = UserCodes(cut[r].user) \cap ClientCodes(cut[r].client)]
  /\ UNCHANGED <<stores, authz, grant, acct, history, removal>>

\* The consent UPDATE, and the commit of all three statements.
CutCommit(r) ==
  LET c == cut[r].client
      u == cut[r].user
  IN
  /\ cut[r].pc = "codes"
  /\ ~PairHeld(c, u)
  /\ RevokeTokens(cut[r].tokens)
  /\ DeleteCodes(cut[r].codes)
  /\ consent' = IF consent[c, u].st = "active"
                THEN [consent EXCEPT ![<<c, u>>].st = "revoked"] ELSE consent
  /\ assign' = CASE cut[r].kind = "assign" -> [assign EXCEPT ![<<c, u>>] = "active"]
                 [] cut[r].kind = "unassign" -> [assign EXCEPT ![<<c, u>>] = "deleted"]
                 [] OTHER -> assign
  /\ approved' = [approved EXCEPT ![<<c, u>>] = {}]
  /\ closed' = IF cut[r].kind = "disconnect"
               THEN closed \cup Families(cut[r].tokens) ELSE closed
  /\ cut' = [cut EXCEPT ![r] = Idle]
  /\ UNCHANGED <<user, cred, session, client, authz, grant, acct, removal>>

\* A deadlock with AdminDeleteUser, which waits for the tokens held here.
CutAborted(r) ==
  /\ cut[r].pc = "codes"
  /\ PairHeld(cut[r].client, cut[r].user)
  /\ \E u \in Users : removal[u] # Idle /\ removal[u].tokens \cap HeldBy({r}) # {}
  /\ cut' = [cut EXCEPT ![r] = Idle]
  /\ UNCHANGED <<stores, authz, grant, acct, history, removal>>

-----------------------------------------------------------------------------
(* POST /oauth/revoke: one UPDATE of the token's family, without a lock.   *)

RevokeEndpointStart(r, t) ==
  /\ cut[r] = Idle
  /\ token[t].st \in {"live", "revoked"}
  /\ client[token[t].client].st = "active"
  /\ cut' = [cut EXCEPT ![r] =
       [pc |-> "family", kind |-> "family", family |-> token[t].family,
        tokens |-> FamilyTokens(token[t].family)]]
  /\ UNCHANGED <<stores, authz, grant, acct, history, removal>>

RevokeEndpointCommit(r) ==
  /\ cut[r].pc = "family"
  /\ cut[r].tokens \cap HeldTokens = {}
  /\ RevokeTokens(cut[r].tokens)
  /\ closed' = closed \cup {cut[r].family}
  /\ cut' = [cut EXCEPT ![r] = Idle]
  /\ UNCHANGED <<user, cred, session, client, assign, consent, code,
                 authz, grant, acct, approved, removal>>

-----------------------------------------------------------------------------
(* A call with a bearer token (RequireAuthToken): the token row is read,   *)
(* then client, account and admission; a refusal revokes.                  *)

BearerStart(r, t) ==
  /\ cut[r] = Idle
  /\ token[t].st = "live"
  /\ cut' = [cut EXCEPT ![r] =
       [pc |-> "bearer", kind |-> "bearer", token |-> t,
        client |-> token[t].client, user |-> token[t].user]]
  /\ UNCHANGED <<stores, authz, grant, acct, history, removal>>

BearerDecide(r) ==
  LET c == cut[r].client
      u == cut[r].user
  IN
  /\ cut[r].pc = "bearer"
  /\ \/ /\ client[c].st # "active" \/ (Usable(u) /\ ~Access(c, u))
        /\ cut' = [cut EXCEPT ![r].pc = "denyToken"]
     \/ /\ client[c].st = "active" /\ user[u] = "inactive"
        /\ cut' = [cut EXCEPT ![r].pc = "denyUser"]
     \/ /\ client[c].st = "active"
        /\ user[u] = "deleted" \/ (Usable(u) /\ Access(c, u))
        /\ cut' = [cut EXCEPT ![r] = Idle]
  /\ UNCHANGED <<stores, authz, grant, acct, history, removal>>

BearerRevoke(r) ==
  LET rows == IF cut[r].pc = "denyUser" THEN UserTokens(cut[r].user)
              ELSE {cut[r].token} \cap LiveTokens
  IN
  /\ cut[r].pc \in {"denyUser", "denyToken"}
  /\ rows \cap HeldTokens = {}
  /\ RevokeTokens(rows)
  /\ cut' = [cut EXCEPT ![r] = Idle]
  /\ UNCHANGED <<user, cred, session, client, assign, consent, code,
                 authz, grant, acct, history, removal>>

-----------------------------------------------------------------------------
(* The process dies and starts again (database.Connect): transactions in   *)
(* flight roll back; clients without any assignment row get their owner's, *)
(* live tokens without a consent row get a consent.                        *)

\* Otherwise the consent's foreign key fails and so does the start.
Backfillable ==
  \A t \in LiveTokens :
    consent[token[t].client, token[t].user] = Absent =>
      client[token[t].client].st # "purged" /\ user[token[t].user] # "deleted"

Restart ==
  /\ Backfillable
  /\ assign' = [p \in Pairs |->
       IF client[p[1]].st = "active" /\ client[p[1]].owner = p[2]
            /\ \A v \in Users : assign[p[1], v] = "none"
       THEN "active" ELSE assign[p]]
  /\ consent' = [p \in Pairs |->
       IF consent[p] = Absent /\ GrantTokens(p[1], p[2]) # {}
       THEN [st |-> "active", scope |-> UNION {token[t].scope : t \in GrantTokens(p[1], p[2])}]
       ELSE consent[p]]
  /\ authz' = [r \in AuthorizeRequests |-> Idle]
  /\ grant' = [r \in TokenRequests |-> Idle]
  /\ cut' = [r \in RevokeRequests |-> Idle]
  /\ acct' = [r \in AccountRequests |-> Idle]
  /\ removal' = [u \in Users |-> Idle]
  /\ UNCHANGED <<user, cred, session, client, code, token, history>>

-----------------------------------------------------------------------------
AccountStep(r) == LoginCommit(r) \/ ChangePasswordCommit(r) \/ AccountRefused(r)
AuthorizeStep(r) == AuthorizeCommit(r) \/ AuthorizeRefused(r)
TokenStep(r) ==
  \/ LockClient(r) \/ LockClientRefused(r)
  \/ Exchange(r) \/ Rotate(r) \/ RefreshReuse(r) \/ TokenRefused(r)
RevokeStep(r) ==
  \/ AssignWrite(r) \/ AssignRefused(r)
  \/ CutTokens(r) \/ CutCommit(r) \/ CutAborted(r)
  \/ RevokeEndpointCommit(r)
  \/ BearerDecide(r) \/ BearerRevoke(r)

\* What users, administrators, relying parties and the clock may do.
AccountRequest(r) ==
  \/ \E u \in Users : LoginStart(r, u)
  \/ \E s \in Sessions : ChangePasswordStart(r, s)
AuthorizeRequest(r) ==
  \E s \in Sessions, c \in Clients, uri \in Redirects,
     scope \in SUBSET Scopes \ {{}}, ok \in BOOLEAN :
    AuthorizeCheck(r, s, c, uri, scope, ok)
TokenRequest(r) ==
  \E valid \in BOOLEAN :
    \/ \E k \in Codes : ExchangeStart(r, k, valid)
    \/ \E t \in Tokens : RotateStart(r, t, valid)
RevokeRequest(r) ==
  \/ \E c \in Clients, u \in Users :
       \/ RevokeConnectionStart(r, c, u)
       \/ c \in AdminClients /\ AssignStart(r, c, u)
       \/ c \in AdminClients /\ UnassignStart(r, c, u)
  \/ \E t \in Tokens : RevokeEndpointStart(r, t) \/ BearerStart(r, t)
AccountAdmin(u) ==
  \/ ConfirmPasswordReset(u)
  \/ \E active \in BOOLEAN : AdminUpdateStatus(u, active)
  \/ AdminUpdateRole(u)
  \/ AdminDeleteUserStart(u)
RemovalStep(u) == AdminDeleteUserCommit(u) \/ AdminDeleteUserAborted(u)
ClientAdmin(c) ==
  \/ \E policy \in Policies, uris \in SUBSET Redirects \ {{}} :
       \/ \E u \in Users : CreateClient(c, u, policy, uris)
       \/ UpdateClient(c, policy, uris)
  \/ RegenerateClientSecret(c)
  \/ DeleteClient(c)
Clock == \/ \E s \in Sessions : Logout(s)
         \/ \E k \in Codes : ExpireCode(k)

Next ==
  \/ \E r \in AccountRequests : AccountRequest(r) \/ AccountStep(r)
  \/ \E r \in AuthorizeRequests : AuthorizeRequest(r) \/ AuthorizeStep(r)
  \/ \E r \in TokenRequests : TokenRequest(r) \/ TokenStep(r)
  \/ \E r \in RevokeRequests : RevokeRequest(r) \/ RevokeStep(r)
  \/ \E u \in AdminUsers : AccountAdmin(u) \/ RemovalStep(u)
  \/ \E c \in AdminClients : ClientAdmin(c)
  \/ Clock
  \/ Restart

Spec == Init /\ [][Next]_vars

(* Fairness: the server runs every request it has accepted (net/http gives *)
(* each its goroutine), and PostgreSQL queues the waiters of a row lock,   *)
(* so a request that can take the client's lock again and again gets it.   *)
FairRequests ==
  /\ \A r \in AccountRequests : SF_vars(AccountStep(r))
  /\ \A r \in AuthorizeRequests : SF_vars(AuthorizeStep(r))
  /\ \A r \in TokenRequests : SF_vars(TokenStep(r))
  /\ \A r \in RevokeRequests : SF_vars(RevokeStep(r))
  /\ \A u \in AdminUsers : SF_vars(RemovalStep(u))
FairSpec == Spec /\ FairRequests

-----------------------------------------------------------------------------
(* Properties.                                                             *)

\* An account that is not active has no live session, token or stored code,
\* whatever login, authorization or token request was in flight when it was
\* deactivated (AdminUpdateStatus; the checks under the user's row lock).
DisabledUserHasNoGrant ==
  \A u \in Users : ~Usable(u) =>
    UserSessions(u) = {} /\ UserTokens(u) = {} /\ UserCodes(u) = {}

\* Nothing of a deleted account is left or comes back: no session, code,
\* token, consent or assignment (AdminDeleteUser against the requests that
\* read the account before it went).
DeletedUserLeavesNothing ==
  \A u \in Users : user[u] = "deleted" =>
    /\ \A s \in Sessions : session[s] \notin {Absent, Gone} => session[s].user # u
    /\ UserCodes(u) = {}
    /\ \A t \in Tokens : token[t] \notin {Absent, Gone} => token[t].user # u
    /\ \A c \in Clients : consent[c, u] = Absent /\ assign[c, u] = "none"

\* A live token belongs to a user whom the client's policy still admits and
\* to a client that still exists: unassigning, changing the policy and
\* deleting the client revoke what token requests in flight would add.
LiveTokenIsAdmitted ==
  \A t \in LiveTokens :
    client[token[t].client].st = "purged" \/ Access(token[t].client, token[t].user)

\* A live token was issued to a holder of the current client secret
\* (RegenerateClientSecret against token requests that authenticated with
\* the previous one).
LiveTokenHasCurrentSecret ==
  \A t \in LiveTokens : token[t].secret = client[token[t].client].secret

\* A live session, token or stored code stems from an authentication with the
\* current password; only the session that changed it survives the change.
NoGrantFromOldPassword ==
  /\ \A s \in Sessions : session[s].st = "live" =>
       session[s].cred = cred[session[s].user]
  /\ \A k \in StoredCodes : code[k].cred = cred[code[k].user]
  /\ \A t \in LiveTokens : token[t].cred = cred[token[t].user]

\* At most one refresh token of a family can be used (rotation).
OneLiveTokenPerFamily ==
  \A t, n \in LiveTokens : token[t].family = token[n].family => t = n

\* A code yields one token family (the code is read again and deleted under
\* the user's row lock).
CodeIsSingleUse ==
  \A t, n \in {i \in Tokens : token[i].st \in {"live", "revoked"}} :
    token[t].code = token[n].code => token[t].family = token[n].family

\* The owner keeps the admission the assigned_only policy demands, although
\* unassigning under the other policy and changing the policy may overlap.
OwnerStaysAdmitted ==
  \A c \in Clients :
    client[c].st = "active" /\ client[c].policy = "assigned_only"
      => assign[c, client[c].owner] = "active"

\* Every accepted grant request is answered, unless an id it needs is beyond
\* the bounds: none waits for ever for a row lock, not even those that
\* deadlock with AdminDeleteUser.
OutOfCodes == \A k \in Codes : code[k] # Absent
OutOfTokens == \A t \in Tokens : token[t] # Absent
EveryRequestIsAnswered ==
  /\ \A r \in AuthorizeRequests :
       authz[r] # Idle ~> authz[r] = Idle \/ OutOfCodes \/ OutOfTokens
  /\ \A r \in TokenRequests : grant[r] # Idle ~> grant[r] = Idle \/ OutOfTokens
  /\ \A r \in RevokeRequests : cut[r] # Idle ~> cut[r] = Idle \/ OutOfTokens
  /\ \A u \in AdminUsers : removal[u] # Idle ~> removal[u] = Idle \/ OutOfTokens

\* Every login and password change is answered, whatever happens meanwhile to
\* the account and to the session in use.
EveryAccountRequestIsAnswered ==
  \A r \in AccountRequests : acct[r] # Idle ~>
    acct[r] = Idle \/ (\A s \in Sessions : session[s] # Absent)
      \/ (\E u \in Users : cred[u] = MaxVersion)

\* The store implements GrantLifecycle: no interleaving redeems a code twice,
\* gives a family two usable tokens or revives a withdrawn grant.
Lifecycle == INSTANCE GrantLifecycle WITH
  open <- {k \in Codes : code[k].st = "issued"},
  known <- {k \in Codes : code[k] # Absent},
  current <- [f \in Tokens |-> FamilyTokens(f)],
  issued <- {t \in Tokens : token[t] # Absent}
ImplementsGrantLifecycle == Lifecycle!Spec

-----------------------------------------------------------------------------
(* What documentation and comments promise and the code does not keep.     *)

\* Does not hold, see the README:
\* "new consent or added scopes must be confirmed explicitly": an
\* authorization that changes the consent leaves it with scopes the user
\* approved since the grant was last revoked.
ApprovalBoundsConsent ==
  [][\A r \in AuthorizeRequests :
       LET p == <<authz[r].client, authz[r].user>> IN
       authz[r] # Idle /\ authz'[r] = Idle /\ consent'[p] # consent[p]
         => consent'[p].scope \subseteq approved'[p]]_vars

\* "when the token is known, the whole family of the grant is revoked"
\* (OAuthRevoke); after a disconnect "the related access and refresh tokens
\* are refused" (RevokeApplicationConnection): no token stays usable in a
\* family that such a revocation was about.
RevokedFamilyIsDead == \A f \in closed : FamilyTokens(f) = {}

\* "all related grants were deleted for good": no live token is left for a
\* client removed with its owner.
DeletedOwnerLeavesNoGrant ==
  \A t \in LiveTokens : client[token[t].client].st # "purged"
=============================================================================
