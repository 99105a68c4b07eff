--------------------------- MODULE OAuthGrantAccess ---------------------------
(***************************************************************************)
(* Whose grants the store may hold: no grant of an account that is         *)
(* disabled or deleted, none that stems from an old password.              *)
(*                                                                         *)
(* AdminDeleteUser holds the user's row while it waits, and deletes at its *)
(* end the rows it selected at its beginning.  The user's lock is what     *)
(* makes that selection complete (RemovalCovers).                          *)
(***************************************************************************)
EXTENDS OAuthGrantProofs

-----------------------------------------------------------------------------
(* Which steps change sessions, accounts and removals.                     *)

\* Only a login starts a session; only the password change keeps one that
\* it alters.
LEMMA SessionSteps ==
  ASSUME TypeInv, [Next]_vars, NEW s \in Sessions, session'[s].st = "live"
  PROVE  \/ session'[s] = session[s]
         \/ \E r \in AccountRequests :
              ChangePasswordCommit(r) /\ s = acct[r].session
         \/ \E r \in AccountRequests :
              /\ LoginCommit(r)
              /\ session'[s] = [st |-> "live", user |-> acct[r].user, cred |-> acct[r].cred]
<1> DEFINE Ends == session'[s] = session[s]
<1>1. UNCHANGED session => Ends
  OBVIOUS
<1>2. ASSUME NEW S, EndSessions(S) PROVE Ends
  <2>1. CASE s \in S
    <3>1. session'[s] = [session[s] EXCEPT !.st = "revoked"]
      BY <1>2, <2>1 DEF EndSessions
    <3> QED BY <3>1 DEF TypeInv, TypeOK, SessionRow, Absent, Gone
  <2>2. CASE s \notin S
    BY <1>2, <2>2 DEF EndSessions
  <2> QED BY <2>1, <2>2
<1>3. ASSUME NEW r \in AccountRequests, AccountRequest(r) \/ AccountStep(r)
      PROVE  \/ Ends
             \/ ChangePasswordCommit(r) /\ s = acct[r].session
             \/ /\ LoginCommit(r)
                /\ session'[s] = [st |-> "live", user |-> acct[r].user, cred |-> acct[r].cred]
  <2>1. CASE LoginCommit(r)
    BY <2>1 DEF LoginCommit, TypeInv, TypeOK
  <2>2. CASE ChangePasswordCommit(r) /\ s # acct[r].session
    <3>1. CASE s \in UserSessions(acct[r].user)
      <4>1. session'[s] = [session[s] EXCEPT !.st = "revoked"]
        BY <2>2, <3>1 DEF ChangePasswordCommit
      <4> QED BY <4>1 DEF TypeInv, TypeOK, SessionRow, Absent, Gone
    <3>2. CASE s \notin UserSessions(acct[r].user)
      BY <2>2, <3>2 DEF ChangePasswordCommit
    <3> QED BY <3>1, <3>2
  <2>3. CASE AccountRequest(r) \/ AccountRefused(r)
    BY <1>1, <2>3
    DEF AccountRequest, LoginStart, ChangePasswordStart, AccountRefused, stores
  <2> QED BY <1>3, <2>1, <2>2, <2>3 DEF AccountStep
<1>4. ASSUME NEW r \in AuthorizeRequests, AuthorizeRequest(r) \/ AuthorizeStep(r)
      PROVE  Ends
  <2>1. AuthorizeRequest(r) => UNCHANGED session
    BY DEF AuthorizeRequest, AuthorizeCheck
  <2>2. AuthorizeStep(r) => UNCHANGED session
    BY DEF AuthorizeStep, AuthorizeCommit, AuthorizeRefused, stores
  <2> QED BY <1>1, <1>4, <2>1, <2>2
<1>5. ASSUME NEW r \in TokenRequests, TokenRequest(r) \/ TokenStep(r) PROVE Ends
  BY <1>1, <1>5
  DEF TokenRequest, TokenStep, ExchangeStart, RotateStart, LockClient, LockClientRefused,
      Exchange, Rotate, RefreshReuse, TokenRefused, stores
<1>6. ASSUME NEW r \in RevokeRequests, RevokeRequest(r) \/ RevokeStep(r) PROVE Ends
  BY <1>1, <1>6
  DEF RevokeRequest, RevokeStep, RevokeConnectionStart, AssignStart, UnassignStart, StartCut,
      RevokeEndpointStart, BearerStart, AssignWrite, AssignRefused, CutTokens,
      CutCommit, CutAborted, RevokeEndpointCommit, BearerDecide, BearerRevoke, stores
<1>7. ASSUME NEW u \in Users, AccountAdmin(u) \/ RemovalStep(u) PROVE Ends
  <2>1. CASE AdminDeleteUserCommit(u)
    BY <2>1 DEF AdminDeleteUserCommit, Gone
  <2> QED BY <1>1, <1>2, <1>7, <2>1
          DEF AccountAdmin, RemovalStep, ConfirmPasswordReset, AdminUpdateStatus,
              AdminUpdateRole, AdminDeleteUserStart, AdminDeleteUserAborted, stores
<1>8. ASSUME NEW c \in Clients, ClientAdmin(c) PROVE Ends
  BY <1>1, <1>8 DEF ClientAdmin, CreateClient, UpdateClient, RegenerateClientSecret, DeleteClient
<1>9. ASSUME Clock \/ Restart \/ UNCHANGED vars PROVE Ends
  BY <1>1, <1>2, <1>9 DEF Clock, Logout, ExpireCode, Restart, vars, stores
<1> QED BY <1>3, <1>4, <1>5, <1>6, <1>7, <1>8, <1>9, AdminAssumption DEF Next

\* An account changes only by its administration, a removal only by
\* AdminDeleteUser of the same account.
LEMMA AccountSteps ==
  ASSUME [Next]_vars
  PROVE  \/ UNCHANGED <<user, removal>>
         \/ Restart
         \/ \E v \in Users :
              \/ AdminUpdateStatus(v, TRUE) \/ AdminUpdateStatus(v, FALSE)
              \/ AdminDeleteUserStart(v) \/ AdminDeleteUserCommit(v)
              \/ AdminDeleteUserAborted(v)
<1>1. ASSUME NEW r \in AccountRequests, AccountRequest(r) \/ AccountStep(r)
      PROVE  UNCHANGED <<user, removal>>
  BY <1>1
  DEF AccountRequest, AccountStep, LoginStart, ChangePasswordStart, LoginCommit,
      ChangePasswordCommit, AccountRefused, stores
<1>2. ASSUME NEW r \in AuthorizeRequests, AuthorizeRequest(r) \/ AuthorizeStep(r)
      PROVE  UNCHANGED <<user, removal>>
  <2>1. AuthorizeRequest(r) => UNCHANGED <<user, removal>>
    BY DEF AuthorizeRequest, AuthorizeCheck
  <2>2. AuthorizeStep(r) => UNCHANGED <<user, removal>>
    BY DEF AuthorizeStep, AuthorizeCommit, AuthorizeRefused, stores
  <2> QED BY <1>2, <2>1, <2>2
<1>3. ASSUME NEW r \in TokenRequests, TokenRequest(r) \/ TokenStep(r)
      PROVE  UNCHANGED <<user, removal>>
  BY <1>3
  DEF TokenRequest, TokenStep, ExchangeStart, RotateStart, LockClient, LockClientRefused,
      Exchange, Rotate, RefreshReuse, TokenRefused, stores
<1>4. ASSUME NEW r \in RevokeRequests, RevokeRequest(r) \/ RevokeStep(r)
      PROVE  UNCHANGED <<user, removal>>
  BY <1>4
  DEF RevokeRequest, RevokeStep, RevokeConnectionStart, AssignStart, UnassignStart, StartCut,
      RevokeEndpointStart, BearerStart, AssignWrite, AssignRefused, CutTokens,
      CutCommit, CutAborted, RevokeEndpointCommit, BearerDecide, BearerRevoke, stores
<1>5. ASSUME NEW c \in Clients, ClientAdmin(c)
      PROVE  UNCHANGED <<user, removal>>
  BY <1>5
  DEF ClientAdmin, CreateClient, UpdateClient, RegenerateClientSecret, DeleteClient, requests
<1>6. ASSUME Clock \/ UNCHANGED vars PROVE UNCHANGED <<user, removal>>
  BY <1>6 DEF Clock, Logout, ExpireCode, vars, stores, requests
<1>7. ASSUME NEW u \in Users, AccountAdmin(u) \/ RemovalStep(u)
      PROVE  \/ UNCHANGED <<user, removal>>
             \/ AdminUpdateStatus(u, TRUE) \/ AdminUpdateStatus(u, FALSE)
             \/ AdminDeleteUserStart(u) \/ AdminDeleteUserCommit(u)
             \/ AdminDeleteUserAborted(u)
  BY <1>7
  DEF AccountAdmin, RemovalStep, ConfirmPasswordReset, AdminUpdateRole, requests
<1> QED BY <1>1, <1>2, <1>3, <1>4, <1>5, <1>6, <1>7, AdminAssumption DEF Next

-----------------------------------------------------------------------------
(* Grants of a user grow only while the account is usable and unlocked.    *)

MayGrow(u) == Usable(u) /\ ~UserLocked(u) /\ UNCHANGED <<user, removal>>

LEMMA UserTokensGrow ==
  ASSUME TypeInv, TypeInv', [Next]_vars, NEW u \in Users
  PROVE  UserTokens(u)' \subseteq UserTokens(u) \/ MayGrow(u)
<1>1. CASE TokensOnlyEnd
  BY <1>1, TokensKeep DEF UserTokens, LiveTokens
<1>2. ASSUME NEW r \in TokenRequests, Exchange(r)
      PROVE  UserTokens(u)' \subseteq UserTokens(u) \/ MayGrow(u)
  <2> DEFINE v == code[grant[r].code].user
  <2>1. Usable(v) /\ ~UserLocked(v)
    BY <1>2, ExchangeEffect
  <2>2. UNCHANGED <<user, removal>>
    BY <1>2 DEF Exchange
  <2>3. PICK n \in Tokens : /\ \A i \in Tokens \ {n} : token'[i] = token[i]
                            /\ token'[n].user = v
    BY <1>2, ExchangeEffect
  <2>4. u # v => UserTokens(u)' \subseteq UserTokens(u)
    BY <2>3 DEF UserTokens, LiveTokens
  <2> QED BY <2>1, <2>2, <2>4 DEF MayGrow
<1>3. ASSUME NEW r \in TokenRequests, Rotate(r)
      PROVE  UserTokens(u)' \subseteq UserTokens(u) \/ MayGrow(u)
  <2> DEFINE t == grant[r].token
             v == token[t].user
  <2>1. Usable(v) /\ ~UserLocked(v) /\ t \in LiveTokens
    BY <1>3, RotateEffect
  <2>2. UNCHANGED <<user, removal>>
    BY <1>3 DEF Rotate
  <2>3. PICK n \in Tokens : /\ \A i \in Tokens \ {t, n} : token'[i] = token[i]
                            /\ token'[t] = [token[t] EXCEPT !.st = "revoked"]
                            /\ token'[n].user = v
    BY <1>3, RotateEffect
  <2>4. token'[t].st # "live"
    BY <2>1, <2>3, LiveRows DEF TypeInv, TokenRow
  <2>5. u # v => UserTokens(u)' \subseteq UserTokens(u)
    BY <2>3, <2>4 DEF UserTokens, LiveTokens
  <2> QED BY <2>1, <2>2, <2>5 DEF MayGrow
<1> QED BY <1>1, <1>2, <1>3, TokenSteps

LEMMA UserCodesGrow ==
  ASSUME TypeInv, [Next]_vars, NEW u \in Users
  PROVE  UserCodes(u)' \subseteq UserCodes(u) \/ MayGrow(u)
<1>1. CASE CodesOnlyEnd
  BY <1>1, CodesKeep DEF UserCodes, StoredCodes, SameGrant
<1>2. ASSUME NEW r \in AuthorizeRequests, AuthorizeCommit(r)
      PROVE  UserCodes(u)' \subseteq UserCodes(u) \/ MayGrow(u)
  <2> DEFINE v == authz[r].user
  <2>1. Usable(v) /\ ~UserLocked(v)
    BY <1>2, AuthorizeEffect
  <2>2. UNCHANGED <<user, removal>>
    BY <1>2 DEF AuthorizeCommit
  <2>3. PICK k \in Codes : /\ \A i \in Codes \ {k} : code'[i] = code[i]
                           /\ code'[k].user = v
    BY <1>2, AuthorizeEffect
  <2>4. u # v => UserCodes(u)' \subseteq UserCodes(u)
    BY <2>3 DEF UserCodes, StoredCodes
  <2> QED BY <2>1, <2>2, <2>4 DEF MayGrow
<1> QED BY <1>1, <1>2, CodeSteps

LEMMA UserSessionsGrow ==
  ASSUME TypeInv, [Next]_vars, NEW u \in Users
  PROVE  UserSessions(u)' \subseteq UserSessions(u) \/ MayGrow(u)
<1> SUFFICES ASSUME NEW s \in UserSessions(u)', ~MayGrow(u) PROVE s \in UserSessions(u)
  OBVIOUS
<1>1. s \in Sessions /\ session'[s].st = "live" /\ session'[s].user = u
  BY DEF UserSessions
<1>2. ASSUME NEW r \in AccountRequests, ChangePasswordCommit(r), s = acct[r].session
      PROVE  s \in UserSessions(u)
  <2>1. session[s].st = "live" /\ session[s] \in SessionRow
    BY <1>1, <1>2, LiveRows DEF ChangePasswordCommit, SessionStillLive, TypeInv
  <2>2. session'[s] = [session[s] EXCEPT !.cred = cred[acct[r].user] + 1]
    BY <1>1, <1>2 DEF ChangePasswordCommit
  <2>3. session'[s].user = session[s].user
    BY <2>1, <2>2 DEF SessionRow
  <2> QED BY <1>1, <2>1, <2>3 DEF UserSessions
<1>3. ASSUME NEW r \in AccountRequests, LoginCommit(r),
             session'[s] = [st |-> "live", user |-> acct[r].user, cred |-> acct[r].cred]
      PROVE  MayGrow(u)
  BY <1>1, <1>3 DEF LoginCommit, SameCredentials, MayGrow
<1> QED BY <1>1, <1>2, <1>3, SessionSteps DEF UserSessions

-----------------------------------------------------------------------------
(* Disabled and deleted accounts.                                          *)

\* What AdminDeleteUser selected is all the user has.
RemovalCovers ==
  \A u \in Users : removal[u] # Idle =>
    UserTokens(u) \subseteq removal[u].tokens /\ UserCodes(u) \subseteq removal[u].codes
DisabledInv == TypeInv /\ RemovalCovers /\ DisabledUserHasNoGrant

\* A deletion under way stays as it started until it ends.
LEMMA RemovalSteps ==
  ASSUME TypeInv, [Next]_vars, NEW u \in Users, removal'[u] # Idle
  PROVE  AdminDeleteUserStart(u) \/ removal'[u] = removal[u]
<1>1. Restart => removal'[u] = Idle
  BY DEF Restart
<1>2. ASSUME NEW v \in Users,
             \/ AdminUpdateStatus(v, TRUE) \/ AdminUpdateStatus(v, FALSE)
             \/ AdminDeleteUserStart(v) \/ AdminDeleteUserCommit(v)
             \/ AdminDeleteUserAborted(v)
      PROVE  AdminDeleteUserStart(u) \/ removal'[u] = removal[u]
  <2>1. CASE AdminDeleteUserStart(v)
    <3>1. v # u => removal'[u] = removal[u]
      BY <2>1 DEF AdminDeleteUserStart, TypeInv, TypeOK
    <3> QED BY <2>1, <3>1
  <2>2. CASE AdminDeleteUserCommit(v) \/ AdminDeleteUserAborted(v)
    <3>1. removal' = [removal EXCEPT ![v] = Idle]
      BY <2>2 DEF AdminDeleteUserCommit, AdminDeleteUserAborted
    <3> QED BY <3>1 DEF TypeInv, TypeOK
  <2>3. CASE AdminUpdateStatus(v, TRUE) \/ AdminUpdateStatus(v, FALSE)
    BY <2>3 DEF AdminUpdateStatus, requests
  <2> QED BY <1>2, <2>1, <2>2, <2>3
<1> QED BY <1>1, <1>2, AccountSteps

LEMMA RemovalCoversStep ==
  ASSUME TypeInv, TypeInv', RemovalCovers, [Next]_vars
  PROVE  RemovalCovers'
<1> SUFFICES ASSUME NEW u \in Users, removal'[u] # Idle
             PROVE  /\ UserTokens(u)' \subseteq removal'[u].tokens
                    /\ UserCodes(u)' \subseteq removal'[u].codes
  BY DEF RemovalCovers
<1>1. CASE AdminDeleteUserStart(u)
  <2>1. /\ removal'[u].tokens = {t \in Tokens : token[t].st \in {"live", "revoked"} /\
                (token[t].user = u \/ token[t].client \in OwnedClients(u))}
        /\ removal'[u].codes =
             {k \in StoredCodes : code[k].user = u \/ code[k].client \in OwnedClients(u)}
    BY <1>1 DEF AdminDeleteUserStart, TypeInv, TypeOK
  <2>2. UserTokens(u)' = UserTokens(u) /\ UserCodes(u)' = UserCodes(u)
    BY <1>1 DEF AdminDeleteUserStart, stores, UserTokens, UserCodes, LiveTokens, StoredCodes
  <2> QED BY <2>1, <2>2 DEF UserTokens, UserCodes, LiveTokens, StoredCodes
<1>2. CASE removal'[u] = removal[u]
  <2>1. UserLocked(u)
    BY <1>2 DEF UserLocked
  <2>2. UserTokens(u)' \subseteq UserTokens(u) /\ UserCodes(u)' \subseteq UserCodes(u)
    BY <2>1, UserTokensGrow, UserCodesGrow DEF MayGrow
  <2> QED BY <1>2, <2>2 DEF RemovalCovers
<1>3. AdminDeleteUserStart(u) \/ removal'[u] = removal[u]
  BY RemovalSteps
<1> QED BY <1>1, <1>2, <1>3

LEMMA DisabledStep == DisabledInv /\ [Next]_vars => DisabledInv'
<1> SUFFICES ASSUME DisabledInv, [Next]_vars PROVE DisabledInv'
  OBVIOUS
<1>1. TypeInv /\ TypeInv' /\ RemovalCovers'
  BY TypeStep, RemovalCoversStep DEF DisabledInv
<1>2. ASSUME NEW u \in Users, ~Usable(u)'
      PROVE  UserSessions(u)' = {} /\ UserTokens(u)' = {} /\ UserCodes(u)' = {}
  <2>1. CASE ~Usable(u)
    <3>1. UserSessions(u) = {} /\ UserTokens(u) = {} /\ UserCodes(u) = {}
      BY <2>1 DEF DisabledInv, DisabledUserHasNoGrant
    <3>2. ~MayGrow(u)
      BY <2>1 DEF MayGrow
    <3> QED BY <1>1, <3>1, <3>2, UserSessionsGrow, UserTokensGrow, UserCodesGrow
  <2>2. CASE AdminUpdateStatus(u, FALSE)
    <3>1. /\ EndSessions(UserSessions(u))
          /\ RevokeTokens(UserTokens(u))
          /\ DeleteCodes(UserCodes(u))
      BY <2>2 DEF AdminUpdateStatus
    <3>2. \A s \in Sessions : s \in UserSessions(u) => session'[s].st # "live"
      BY <1>1, <3>1 DEF EndSessions, UserSessions, TypeInv, TypeOK, SessionRow, Absent, Gone
    <3>3. \A s \in Sessions : s \notin UserSessions(u) => session'[s] = session[s]
      BY <3>1 DEF EndSessions
    <3>4. UserSessions(u)' = {}
      BY <3>2, <3>3 DEF UserSessions
    <3>5. \A t \in Tokens : IF t \in UserTokens(u) THEN token'[t].st # "live"
                                                   ELSE token'[t] = token[t]
      BY <1>1, <3>1, LiveRows DEF RevokeTokens, UserTokens, TypeInv, TokenRow
    <3>6. UserTokens(u)' = {}
      BY <3>5 DEF UserTokens, LiveTokens
    <3>7. \A k \in Codes : code'[k] = IF k \in UserCodes(u) THEN Gone ELSE code[k]
      BY <3>1 DEF DeleteCodes, UserCodes
    <3>8. UserCodes(u)' = {}
      BY <3>7 DEF UserCodes, StoredCodes, Gone
    <3> QED BY <3>4, <3>6, <3>8
  <2>3. CASE AdminDeleteUserCommit(u)
    <3>1. UserTokens(u) \subseteq removal[u].tokens /\ UserCodes(u) \subseteq removal[u].codes
      BY <2>3 DEF DisabledInv, RemovalCovers, AdminDeleteUserCommit
    <3>2. \A s \in Sessions : session'[s] =
            IF session[s] # Absent /\ session[s] # Gone /\ session[s].user = u
            THEN Gone ELSE session[s]
      BY <2>3 DEF AdminDeleteUserCommit
    <3>3. UserSessions(u)' = {}
      BY <3>2 DEF UserSessions, Absent, Gone
    <3>4. \A t \in Tokens : token'[t] = IF t \in removal[u].tokens THEN Gone ELSE token[t]
      BY <2>3 DEF AdminDeleteUserCommit
    <3>5. UserTokens(u)' = {}
      BY <3>1, <3>4 DEF UserTokens, LiveTokens, Gone
    <3>6. \A k \in Codes : code'[k] =
            IF k \in removal[u].codes \cap StoredCodes THEN Gone ELSE code[k]
      BY <2>3 DEF AdminDeleteUserCommit, DeleteCodes
    <3>7. UserCodes(u)' = {}
      BY <3>1, <3>6 DEF UserCodes, StoredCodes, Gone
    <3> QED BY <3>3, <3>5, <3>7
  <2>4. ~Usable(u) \/ AdminUpdateStatus(u, FALSE) \/ AdminDeleteUserCommit(u)
    <3> SUFFICES ASSUME Usable(u), ~AdminUpdateStatus(u, FALSE), ~AdminDeleteUserCommit(u)
                 PROVE  user'[u] = "active"
      BY <1>2 DEF Usable
    <3>1. user[u] = "active"
      BY DEF Usable
    <3>2. ASSUME NEW v \in Users, AdminUpdateStatus(v, TRUE) PROVE user'[u] = "active"
      BY <1>1, <3>1, <3>2 DEF AdminUpdateStatus, TypeInv, TypeOK
    <3>3. ASSUME NEW v \in Users, v # u, AdminUpdateStatus(v, FALSE) \/ AdminDeleteUserCommit(v)
          PROVE  user'[u] = "active"
      BY <1>1, <3>1, <3>3 DEF AdminUpdateStatus, AdminDeleteUserCommit, TypeInv, TypeOK
    <3>4. ASSUME NEW v \in Users, AdminDeleteUserStart(v) \/ AdminDeleteUserAborted(v)
          PROVE  user'[u] = "active"
      BY <3>1, <3>4 DEF AdminDeleteUserStart, AdminDeleteUserAborted, stores
    <3>5. Restart \/ UNCHANGED <<user, removal>> => user'[u] = "active"
      BY <3>1 DEF Restart
    <3> QED BY <3>2, <3>3, <3>4, <3>5, AccountSteps
  <2> QED BY <2>1, <2>2, <2>3, <2>4
<1> QED BY <1>1, <1>2 DEF DisabledInv, DisabledUserHasNoGrant

LEMMA DisabledInit == Init => DisabledInv
  BY InitType DEF Init, DisabledInv, RemovalCovers, DisabledUserHasNoGrant, Usable

\* Whatever login, authorization, token or password request was in flight
\* when an account was deactivated or deleted, none of them leaves it a
\* session, token or code.
THEOREM DisabledSafe == Spec => []DisabledUserHasNoGrant
<1>1. DisabledInv => DisabledUserHasNoGrant
  BY DEF DisabledInv
<1> QED BY <1>1, DisabledInit, DisabledStep, PTL DEF Spec

-----------------------------------------------------------------------------
(* Changed passwords.                                                      *)

PasswordInv == TypeInv /\ NoGrantFromOldPassword

LEMMA CredSteps ==
  ASSUME [Next]_vars
  PROVE  \/ UNCHANGED cred
         \/ \E r \in AccountRequests : ChangePasswordCommit(r)
         \/ \E u \in Users : ConfirmPasswordReset(u)
<1>1. ASSUME NEW r \in AccountRequests, AccountRequest(r) \/ AccountStep(r)
      PROVE  UNCHANGED cred \/ ChangePasswordCommit(r)
  BY <1>1
  DEF AccountRequest, AccountStep, LoginStart, ChangePasswordStart, LoginCommit,
      AccountRefused, stores
<1>2. ASSUME NEW r \in AuthorizeRequests, AuthorizeRequest(r) \/ AuthorizeStep(r)
      PROVE  UNCHANGED cred
  <2>1. AuthorizeRequest(r) => UNCHANGED cred
    BY DEF AuthorizeRequest, AuthorizeCheck
  <2>2. AuthorizeStep(r) => UNCHANGED cred
    BY DEF AuthorizeStep, AuthorizeCommit, AuthorizeRefused, stores
  <2> QED BY <1>2, <2>1, <2>2
<1>3. ASSUME NEW r \in TokenRequests, TokenRequest(r) \/ TokenStep(r) PROVE UNCHANGED cred
  BY <1>3
  DEF TokenRequest, TokenStep, ExchangeStart, RotateStart, LockClient, LockClientRefused,
      Exchange, Rotate, RefreshReuse, TokenRefused, stores
<1>4. ASSUME NEW r \in RevokeRequests, RevokeRequest(r) \/ RevokeStep(r) PROVE UNCHANGED cred
  BY <1>4
  DEF RevokeRequest, RevokeStep, RevokeConnectionStart, AssignStart, UnassignStart, StartCut,
      RevokeEndpointStart, BearerStart, AssignWrite, AssignRefused, CutTokens,
      CutCommit, CutAborted, RevokeEndpointCommit, BearerDecide, BearerRevoke, stores
<1>5. ASSUME NEW c \in Clients, ClientAdmin(c) PROVE UNCHANGED cred
  BY <1>5 DEF ClientAdmin, CreateClient, UpdateClient, RegenerateClientSecret, DeleteClient
<1>6. ASSUME NEW u \in Users, AccountAdmin(u) \/ RemovalStep(u)
      PROVE  UNCHANGED cred \/ ConfirmPasswordReset(u)
  BY <1>6
  DEF AccountAdmin, RemovalStep, AdminUpdateStatus, AdminUpdateRole, AdminDeleteUserStart,
      AdminDeleteUserCommit, AdminDeleteUserAborted, stores
<1>7. Clock \/ Restart \/ UNCHANGED vars => UNCHANGED cred
  BY DEF Clock, Logout, ExpireCode, Restart, vars, stores
<1> QED BY <1>1, <1>2, <1>3, <1>4, <1>5, <1>6, <1>7, AdminAssumption DEF Next

\* A step that leaves passwords alone adds only what stems from the current
\* ones: a login compares the password under the user's lock, a code takes
\* its session's, a token its code's or its predecessor's.
LEMMA PasswordKept ==
  ASSUME PasswordInv, TypeInv', [Next]_vars, UNCHANGED cred
  PROVE  NoGrantFromOldPassword'
<1>1. TypeInv
  BY DEF PasswordInv
<1>2. ASSUME NEW s \in Sessions, session'[s].st = "live"
      PROVE  session'[s].cred = cred[session'[s].user]
  <2>1. ASSUME NEW r \in AccountRequests PROVE ~ChangePasswordCommit(r)
    <3>1. SUFFICES ASSUME ChangePasswordCommit(r) PROVE FALSE
      OBVIOUS
    <3>2. acct[r] \in PasswordReq
      BY <1>1, <3>1 DEF ChangePasswordCommit, TypeInv, TypeOK, LoginReq, Idle
    <3>3. acct[r].user \in Users /\ cred[acct[r].user] \in Nat
      BY <1>1, <3>2, MaxVersionAssumption DEF PasswordReq, TypeInv, TypeOK, Versions
    <3>4. cred'[acct[r].user] = cred[acct[r].user] + 1
      BY <1>1, <3>1, <3>3 DEF ChangePasswordCommit, TypeInv, TypeOK
    <3> QED BY <3>3, <3>4
  <2>2. ASSUME NEW r \in AccountRequests, LoginCommit(r),
               session'[s] = [st |-> "live", user |-> acct[r].user, cred |-> acct[r].cred]
        PROVE  session'[s].cred = cred[session'[s].user]
    BY <2>2 DEF LoginCommit, SameCredentials
  <2> QED BY <1>1, <1>2, <2>1, <2>2, SessionSteps DEF PasswordInv, NoGrantFromOldPassword
<1>3. ASSUME NEW k \in StoredCodes' PROVE code'[k].cred = cred[code'[k].user]
  <2>1. k \in Codes
    BY DEF StoredCodes
  <2>2. CASE CodesOnlyEnd
    BY <1>1, <1>3, <2>1, <2>2, CodesKeep DEF SameGrant, PasswordInv, NoGrantFromOldPassword
  <2>3. ASSUME NEW r \in AuthorizeRequests, AuthorizeCommit(r)
        PROVE  code'[k].cred = cred[code'[k].user]
    <3>1. /\ authz[r].session \in Sessions
          /\ SessionStillLive(authz[r].session, authz[r].user)
      BY <1>1, <2>3, AuthorizeEffect
    <3>2. session[authz[r].session].cred = cred[authz[r].user]
      BY <3>1 DEF SessionStillLive, PasswordInv, NoGrantFromOldPassword
    <3>3. PICK i \in Codes : /\ \A j \in Codes \ {i} : code'[j] = code[j]
                             /\ code'[i].user = authz[r].user
                             /\ code'[i].cred = session[authz[r].session].cred
      BY <1>1, <2>3, AuthorizeEffect
    <3>4. k # i => k \in StoredCodes /\ code'[k] = code[k]
      BY <1>3, <2>1, <3>3 DEF StoredCodes
    <3> QED BY <3>2, <3>3, <3>4 DEF PasswordInv, NoGrantFromOldPassword
  <2> QED BY <1>1, <2>2, <2>3, CodeSteps
<1>4. ASSUME NEW t \in LiveTokens' PROVE token'[t].cred = cred[token'[t].user]
  <2>1. t \in Tokens /\ token'[t].st = "live"
    BY DEF LiveTokens
  <2>2. CASE TokensOnlyEnd
    BY <1>1, <2>1, <2>2, TokensKeep DEF PasswordInv, NoGrantFromOldPassword
  <2>3. ASSUME NEW r \in TokenRequests, Exchange(r)
        PROVE  token'[t].cred = cred[token'[t].user]
    <3> DEFINE k == grant[r].code
    <3>1. k \in StoredCodes
      BY <1>1, <2>3, ExchangeEffect DEF StoredCodes
    <3>2. PICK n \in Tokens : /\ \A i \in Tokens \ {n} : token'[i] = token[i]
                              /\ token'[n].user = code[k].user
                              /\ token'[n].cred = code[k].cred
      BY <1>1, <2>3, ExchangeEffect
    <3>3. t # n => t \in LiveTokens /\ token'[t] = token[t]
      BY <2>1, <3>2 DEF LiveTokens
    <3> QED BY <3>1, <3>2, <3>3 DEF PasswordInv, NoGrantFromOldPassword
  <2>4. ASSUME NEW r \in TokenRequests, Rotate(r)
        PROVE  token'[t].cred = cred[token'[t].user]
    <3> DEFINE p == grant[r].token
    <3>1. p \in LiveTokens /\ token[p] \in TokenRow
      BY <1>1, <2>4, RotateEffect, LiveRows DEF TypeInv
    <3>2. PICK n \in Tokens : /\ \A i \in Tokens \ {p, n} : token'[i] = token[i]
                              /\ token'[p] = [token[p] EXCEPT !.st = "revoked"]
                              /\ token'[n].user = token[p].user
                              /\ token'[n].cred = token[p].cred
      BY <1>1, <2>4, RotateEffect
    <3>3. token'[p].st # "live"
      BY <3>1, <3>2 DEF TokenRow
    <3>4. t # n => t \in LiveTokens /\ token'[t] = token[t]
      BY <2>1, <3>2, <3>3 DEF LiveTokens
    <3> QED BY <3>1, <3>2, <3>4 DEF PasswordInv, NoGrantFromOldPassword
  <2> QED BY <1>1, <2>2, <2>3, <2>4, TokenSteps
<1> QED BY <1>2, <1>3, <1>4 DEF NoGrantFromOldPassword

\* What the two password changes do to the grants: those of the user end,
\* those of others stay.
LEMMA UserPurged ==
  ASSUME TypeInv, NEW u, RevokeTokens(UserTokens(u)), DeleteCodes(UserCodes(u))
  PROVE  /\ \A t \in LiveTokens' : t \in LiveTokens /\ token'[t] = token[t] /\ token[t].user # u
         /\ \A k \in StoredCodes' : k \in StoredCodes /\ code'[k] = code[k] /\ code[k].user # u
<1>1. \A t \in Tokens : IF t \in UserTokens(u) THEN token'[t].st # "live"
                                               ELSE token'[t] = token[t]
  BY LiveRows DEF RevokeTokens, UserTokens, TypeInv, TokenRow
<1>2. \A k \in Codes : code'[k] = IF k \in UserCodes(u) THEN Gone ELSE code[k]
  BY DEF DeleteCodes, UserCodes
<1>3. \A t \in LiveTokens' : t \in LiveTokens /\ token'[t] = token[t] /\ token[t].user # u
  BY <1>1 DEF LiveTokens, UserTokens
<1>4. \A k \in StoredCodes' : k \in StoredCodes /\ code'[k] = code[k] /\ code[k].user # u
  BY <1>2 DEF StoredCodes, UserCodes, Gone
<1> QED BY <1>3, <1>4

LEMMA PasswordStep == PasswordInv /\ [Next]_vars => PasswordInv'
<1> SUFFICES ASSUME PasswordInv, [Next]_vars PROVE PasswordInv'
  OBVIOUS
<1>1. TypeInv /\ TypeInv'
  BY TypeStep DEF PasswordInv
<1>2. CASE UNCHANGED cred
  BY <1>1, <1>2, PasswordKept DEF PasswordInv
<1>3. ASSUME NEW u \in Users, cred' = [cred EXCEPT ![u] = @ + 1],
             RevokeTokens(UserTokens(u)), DeleteCodes(UserCodes(u)),
             \A s \in Sessions : session'[s].st = "live" =>
               \/ session'[s] = session[s] /\ session[s].user # u
               \/ session'[s].user = u /\ session'[s].cred = cred[u] + 1
      PROVE  PasswordInv'
  <2>1. cred'[u] = cred[u] + 1 /\ \A v \in Users \ {u} : cred'[v] = cred[v]
    BY <1>1, <1>3 DEF TypeInv, TypeOK
  <2>2. \A s \in Sessions : session[s].st = "live" => session[s].user \in Users
    BY <1>1, LiveRows DEF TypeInv, SessionRow
  <2>3. \A k \in StoredCodes : code[k].user \in Users
    BY <1>1, LiveRows DEF TypeInv, CodeRow
  <2>4. \A t \in LiveTokens : token[t].user \in Users
    BY <1>1, LiveRows DEF TypeInv, TokenRow
  <2>5. \A s \in Sessions : session'[s].st = "live" => session'[s].cred = cred'[session'[s].user]
    BY <1>3, <2>1, <2>2 DEF PasswordInv, NoGrantFromOldPassword
  <2>6. \A k \in StoredCodes' : code'[k].cred = cred'[code'[k].user]
    BY <1>1, <1>3, <2>1, <2>3, UserPurged DEF PasswordInv, NoGrantFromOldPassword
  <2>7. \A t \in LiveTokens' : token'[t].cred = cred'[token'[t].user]
    BY <1>1, <1>3, <2>1, <2>4, UserPurged DEF PasswordInv, NoGrantFromOldPassword
  <2> QED BY <1>1, <2>5, <2>6, <2>7 DEF PasswordInv, NoGrantFromOldPassword
<1>4. ASSUME NEW r \in AccountRequests, ChangePasswordCommit(r) PROVE PasswordInv'
  <2> DEFINE u == acct[r].user
             own == acct[r].session
  <2>1. acct[r] \in PasswordReq
    BY <1>1, <1>4 DEF ChangePasswordCommit, TypeInv, TypeOK, LoginReq, Idle
  <2>2. u \in Users /\ own \in Sessions
    BY <2>1 DEF PasswordReq
  <2>3. session[own].st = "live" /\ session[own].user = u
    BY <1>4 DEF ChangePasswordCommit, SessionStillLive
  <2>4. session' = [s \in Sessions |->
           IF s = own THEN [session[s] EXCEPT !.cred = cred[u] + 1]
           ELSE IF s \in UserSessions(u) THEN [session[s] EXCEPT !.st = "revoked"]
           ELSE session[s]]
    BY <1>4 DEF ChangePasswordCommit
  <2>5. session'[own].user = u /\ session'[own].cred = cred[u] + 1
    BY <1>1, <2>2, <2>3, <2>4, LiveRows DEF TypeInv, SessionRow
  <2>6. ASSUME NEW s \in Sessions, s # own, session'[s].st = "live"
        PROVE  session'[s] = session[s] /\ session[s].user # u
    <3>1. s \in UserSessions(u) => session'[s].st # "live"
      BY <1>1, <2>4, <2>6, LiveRows DEF UserSessions, TypeInv, SessionRow
    <3> QED BY <2>4, <2>6, <3>1 DEF UserSessions
  <2>7. /\ cred' = [cred EXCEPT ![u] = @ + 1]
        /\ RevokeTokens(UserTokens(u)) /\ DeleteCodes(UserCodes(u))
    BY <1>4 DEF ChangePasswordCommit
  <2>8. \A s \in Sessions : session'[s].st = "live" =>
          \/ session'[s] = session[s] /\ session[s].user # u
          \/ session'[s].user = u /\ session'[s].cred = cred[u] + 1
    BY <2>5, <2>6
  <2> HIDE DEF u
  <2> QED BY <1>3, <2>2, <2>7, <2>8
<1>5. ASSUME NEW u \in Users, ConfirmPasswordReset(u) PROVE PasswordInv'
  <2>1. EndSessions(UserSessions(u))
    BY <1>5 DEF ConfirmPasswordReset
  <2>2. ASSUME NEW s \in Sessions, session'[s].st = "live"
        PROVE  session'[s] = session[s] /\ session[s].user # u
    <3>1. s \in UserSessions(u) => session'[s].st # "live"
      BY <1>1, <2>1, LiveRows DEF EndSessions, UserSessions, TypeInv, SessionRow
    <3> QED BY <2>1, <2>2, <3>1 DEF EndSessions, UserSessions
  <2> QED BY <1>3, <1>5, <2>2 DEF ConfirmPasswordReset
<1> QED BY <1>2, <1>4, <1>5, CredSteps

LEMMA PasswordInit == Init => PasswordInv
  BY InitType
  DEF Init, PasswordInv, NoGrantFromOldPassword, StoredCodes, LiveTokens, Absent

\* Every live session, token and stored code stems from the current password,
\* whatever was in flight when the password changed.
THEOREM PasswordSafe == Spec => []NoGrantFromOldPassword
<1>1. PasswordInv => NoGrantFromOldPassword
  BY DEF PasswordInv
<1> QED BY <1>1, PasswordInit, PasswordStep, PTL DEF Spec
=============================================================================
