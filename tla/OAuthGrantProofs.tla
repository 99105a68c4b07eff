-------------------------- MODULE OAuthGrantProofs --------------------------
(***************************************************************************)
(* Types, codes and families of OAuthGrant, and its refinement of          *)
(* GrantLifecycle, for every number of accounts, clients, codes, tokens    *)
(* and concurrent requests.                                                *)
(*                                                                         *)
(* TypeOK is not inductive as it stands: AdminDeleteUser removes the       *)
(* clients and tokens it selected when it began, and a revocation records  *)
(* the families of the tokens it selected, so those must have been rows    *)
(* all along (RowsKnown).                                                  *)
(***************************************************************************)
EXTENDS OAuthGrant, TLAPS

SessionType == [Sessions -> SessionRow \cup {Absent, Gone}]
ClientType == [Clients -> ClientRow \cup {Absent}]
CodeType == [Codes -> CodeRow \cup {Absent, Gone}]
TokenType == [Tokens -> TokenRow \cup {Absent, Gone}]
CutType ==
  [RevokeRequests -> CutReq \cup AssignReq \cup FamilyReq \cup BearerReq \cup {Idle}]
GrantType == [TokenRequests -> ExchangeReq \cup RefreshReq \cup {Idle}]
AcctType == [AccountRequests -> LoginReq \cup PasswordReq \cup {Idle}]

RowsKnown ==
  /\ \A u \in Users : removal[u] # Idle =>
       /\ \A c \in removal[u].clients : client[c] # Absent
       /\ \A t \in removal[u].tokens : token[t] # Absent
  /\ \A r \in RevokeRequests : cut[r].pc \in {"tokens", "codes"} =>
       \A t \in cut[r].tokens : token[t] # Absent
TypeInv == TypeOK /\ RowsKnown

-----------------------------------------------------------------------------
(* What the shared row updates do to the types.                            *)

LEMMA LiveRows ==
  ASSUME TypeOK
  PROVE  /\ \A t \in LiveTokens : t \in Tokens /\ token[t] \in TokenRow
         /\ \A k \in StoredCodes : k \in Codes /\ code[k] \in CodeRow
         /\ \A s \in Sessions : session[s].st = "live" => session[s] \in SessionRow
         /\ \A c \in Clients : client[c].st = "active" => client[c] \in ClientRow
         /\ \A t \in Tokens : token[t].st \in {"live", "revoked"} => token[t] \in TokenRow
  BY DEF TypeOK, LiveTokens, StoredCodes, Absent, Gone

LEMMA CutShape ==
  ASSUME TypeOK, NEW r \in RevokeRequests
  PROVE  /\ cut[r].pc \in {"tokens", "codes"} <=> cut[r] \in CutReq
         /\ cut[r].pc = "assign" => cut[r] \in AssignReq
         /\ cut[r].pc = "family" => cut[r] \in FamilyReq
         /\ cut[r].pc \in {"bearer", "denyUser", "denyToken"} => cut[r] \in BearerReq
<1>1. \/ cut[r] \in CutReq \/ cut[r] \in AssignReq \/ cut[r] \in FamilyReq
      \/ cut[r] \in BearerReq \/ cut[r] = Idle
  BY DEF TypeOK
<1>2. cut[r] \in CutReq => cut[r].pc \in {"tokens", "codes"}
  BY DEF CutReq
<1>3. cut[r] \in FamilyReq => cut[r].pc = "family"
  BY DEF FamilyReq
<1>4. cut[r] \in BearerReq => cut[r].pc \in {"bearer", "denyUser", "denyToken"}
  BY DEF BearerReq
<1>5. cut[r] \in AssignReq => cut[r].pc = "assign"
  BY DEF AssignReq
<1> QED BY <1>1, <1>2, <1>3, <1>4, <1>5 DEF Idle

\* Requests that end, rows that change but stay rows: what is in flight
\* still refers to rows.
LEMMA RowsStayKnown ==
  ASSUME TypeInv,
         \A u \in Users : removal'[u] \in {removal[u], Idle},
         \A r \in RevokeRequests : cut'[r] \in {cut[r], Idle},
         \A c \in Clients : client[c] # Absent => client'[c] # Absent,
         \A t \in Tokens : token[t] # Absent => token'[t] # Absent
  PROVE  RowsKnown'
<1>1. ASSUME NEW u \in Users, removal'[u] # Idle
      PROVE  /\ \A c \in removal'[u].clients : client'[c] # Absent
             /\ \A t \in removal'[u].tokens : token'[t] # Absent
  BY <1>1 DEF TypeInv, TypeOK, RowsKnown, RemovalReq
<1>2. ASSUME NEW r \in RevokeRequests, cut'[r].pc \in {"tokens", "codes"}
      PROVE  \A t \in cut'[r].tokens : token'[t] # Absent
  <2>1. cut'[r] = cut[r] /\ cut[r] \in CutReq
    BY <1>2, CutShape DEF TypeInv, Idle
  <2> QED BY <1>2, <2>1 DEF TypeInv, RowsKnown, CutReq
<1> QED BY <1>1, <1>2 DEF RowsKnown

LEMMA RevokeTokensType ==
  ASSUME TypeOK, NEW T, RevokeTokens(T)
  PROVE  token' \in TokenType /\ \A t \in Tokens : token[t] # Absent => token'[t] # Absent
<1>1. \A row \in TokenRow : [row EXCEPT !.st = "revoked"] \in TokenRow
  BY DEF TokenRow
<1>2. \A row \in TokenRow : row # Absent
  BY DEF TokenRow, Absent
<1> QED BY <1>1, <1>2, LiveRows DEF RevokeTokens, TokenType, TypeOK

LEMMA DeleteCodesType ==
  ASSUME TypeOK, NEW K, DeleteCodes(K)
  PROVE  code' \in CodeType
  BY DEF DeleteCodes, CodeType, TypeOK

LEMMA EndSessionsType ==
  ASSUME TypeOK, NEW S, \A s \in S : session[s].st = "live", EndSessions(S)
  PROVE  session' \in SessionType
<1>1. \A row \in SessionRow : [row EXCEPT !.st = "revoked"] \in SessionRow
  BY DEF SessionRow
<1> QED BY <1>1, LiveRows DEF EndSessions, SessionType, TypeOK

LEMMA InitType == Init => TypeInv
  BY MaxVersionAssumption
  DEF Init, TypeInv, RowsKnown, TypeOK, Versions, Pairs, Absent, Idle

-----------------------------------------------------------------------------
(* Requests of accounts.                                                   *)

LEMMA AccountType ==
  ASSUME TypeInv, NEW r \in AccountRequests, AccountRequest(r) \/ AccountStep(r)
  PROVE  TypeInv'
<1>1. ASSUME NEW u \in Users, LoginStart(r, u) PROVE TypeInv'
  BY <1>1 DEF TypeInv, RowsKnown, TypeOK, LoginStart, stores, history, LoginReq
<1>2. ASSUME NEW s \in Sessions, ChangePasswordStart(r, s) PROVE TypeInv'
  BY <1>2, LiveRows
  DEF TypeInv, RowsKnown, TypeOK, ChangePasswordStart, stores, history, PasswordReq, SessionRow
<1>3. CASE LoginCommit(r)
  <2>1. acct[r] \in LoginReq
    BY <1>3 DEF TypeInv, TypeOK, LoginCommit, LoginReq, PasswordReq, Idle
  <2>2. session' \in SessionType
    BY <1>3, <2>1 DEF TypeInv, TypeOK, LoginCommit, LoginReq, SessionRow, SessionType
  <2>3. acct' \in AcctType
    BY <1>3 DEF TypeInv, TypeOK, LoginCommit, AcctType
  <2> QED BY <1>3, <2>2, <2>3
          DEF TypeInv, RowsKnown, TypeOK, LoginCommit, history, SessionType, AcctType
<1>4. CASE ChangePasswordCommit(r)
  <2> DEFINE u == acct[r].user
  <2>1. u \in Users /\ acct[r].session \in Sessions
    BY <1>4 DEF TypeInv, TypeOK, ChangePasswordCommit, LoginReq, PasswordReq, Idle
  <2>2. cred[u] + 1 \in Versions /\ cred' \in [Users -> Versions]
    BY <1>4, <2>1, MaxVersionAssumption DEF TypeInv, TypeOK, ChangePasswordCommit, Versions
  <2>3. session' \in SessionType
    <3>1. session[acct[r].session] \in SessionRow /\ \A s \in UserSessions(u) : session[s] \in SessionRow
      BY <1>4, <2>1, LiveRows DEF TypeInv, ChangePasswordCommit, SessionStillLive, UserSessions
    <3>2. \A row \in SessionRow : /\ [row EXCEPT !.cred = cred[u] + 1] \in SessionRow
                                  /\ [row EXCEPT !.st = "revoked"] \in SessionRow
      BY <2>2 DEF SessionRow
    <3> QED BY <1>4, <3>1, <3>2 DEF ChangePasswordCommit, SessionType, TypeInv, TypeOK
  <2>4. token' \in TokenType /\ \A t \in Tokens : token[t] # Absent => token'[t] # Absent
    BY <1>4, RevokeTokensType DEF TypeInv, ChangePasswordCommit
  <2>5. code' \in CodeType
    BY <1>4, DeleteCodesType DEF TypeInv, ChangePasswordCommit
  <2>6. acct' \in AcctType
    BY <1>4 DEF TypeInv, TypeOK, ChangePasswordCommit, AcctType
  <2>7. RowsKnown'
    BY <1>4, <2>4, RowsStayKnown DEF TypeInv, TypeOK, ChangePasswordCommit
  <2> QED BY <1>4, <2>2, <2>3, <2>4, <2>5, <2>6, <2>7
          DEF TypeInv, TypeOK, ChangePasswordCommit, SessionType, TokenType, CodeType, AcctType, history
<1>5. CASE AccountRefused(r)
  BY <1>5 DEF TypeInv, RowsKnown, TypeOK, AccountRefused, stores, history
<1> QED BY <1>1, <1>2, <1>3, <1>4, <1>5 DEF AccountRequest, AccountStep

-----------------------------------------------------------------------------
(* Authorization and token requests.                                       *)

LEMMA AuthorizeType ==
  ASSUME TypeInv, NEW r \in AuthorizeRequests, AuthorizeRequest(r) \/ AuthorizeStep(r)
  PROVE  TypeInv'
<1>1. ASSUME NEW s \in Sessions, NEW c \in Clients, NEW uri \in Redirects,
             NEW scope \in SUBSET Scopes, NEW ok \in BOOLEAN,
             AuthorizeCheck(r, s, c, uri, scope, ok)
      PROVE  TypeInv'
  <2>1. code' \in CodeType
    BY <1>1, DeleteCodesType DEF TypeInv, AuthorizeCheck
  <2>2. authz' \in [AuthorizeRequests -> AuthorizeReq \cup {Idle}]
    BY <1>1, LiveRows DEF TypeInv, TypeOK, AuthorizeCheck, AuthorizeReq, SessionRow
  <2> QED BY <1>1, <2>1, <2>2 DEF TypeInv, RowsKnown, TypeOK, AuthorizeCheck, CodeType, history
<1>2. CASE AuthorizeCommit(r)
  <2> DEFINE a == authz[r]
  <2>1. a \in AuthorizeReq /\ session[a.session] \in SessionRow
    BY <1>2, LiveRows
    DEF TypeInv, TypeOK, AuthorizeCommit, SessionRecheck, SessionStillLive, AuthorizeReq, Idle
  <2>2. code' \in CodeType
    BY <1>2, <2>1 DEF TypeInv, TypeOK, AuthorizeCommit, CodeType, CodeRow, AuthorizeReq, SessionRow
  <2>3. consent' \in [Pairs -> ConsentRow \cup {Absent}]
    BY <1>2, <2>1
    DEF TypeInv, TypeOK, AuthorizeCommit, MergedConsent, ConsentRow, AuthorizeReq, Pairs
  <2>4. approved' \in [Pairs -> SUBSET Scopes]
    BY <1>2, <2>1 DEF TypeInv, TypeOK, AuthorizeCommit, AuthorizeReq, Pairs
  <2>5. authz' \in [AuthorizeRequests -> AuthorizeReq \cup {Idle}]
    BY <1>2 DEF TypeInv, TypeOK, AuthorizeCommit
  <2> QED BY <1>2, <2>2, <2>3, <2>4, <2>5 DEF TypeInv, RowsKnown, TypeOK, AuthorizeCommit, CodeType
<1>3. CASE AuthorizeRefused(r)
  BY <1>3 DEF TypeInv, RowsKnown, TypeOK, AuthorizeRefused, stores, history
<1> QED BY <1>1, <1>2, <1>3 DEF AuthorizeRequest, AuthorizeStep

LEMMA TokenRequestType ==
  ASSUME TypeInv, NEW r \in TokenRequests, TokenRequest(r) \/ TokenStep(r)
  PROVE  TypeInv'
<1>1. ASSUME NEW k \in Codes, NEW valid \in BOOLEAN, ExchangeStart(r, k, valid)
      PROVE  TypeInv'
  <2>1. grant' \in GrantType
    BY <1>1, LiveRows
    DEF TypeInv, TypeOK, ExchangeStart, ExchangeReq, GrantType, CodeRow, ClientRow
  <2> QED BY <1>1, <2>1 DEF TypeInv, RowsKnown, TypeOK, ExchangeStart, GrantType, stores, history
<1>2. ASSUME NEW t \in Tokens, NEW valid \in BOOLEAN, RotateStart(r, t, valid)
      PROVE  TypeInv'
  <2>1. grant' \in GrantType
    BY <1>2, LiveRows
    DEF TypeInv, TypeOK, RotateStart, RefreshReq, GrantType, TokenRow, ClientRow
  <2> QED BY <1>2, <2>1 DEF TypeInv, RowsKnown, TypeOK, RotateStart, GrantType, stores, history
<1>3. CASE LockClient(r)
  <2>1. grant' \in GrantType
    BY <1>3 DEF TypeInv, TypeOK, LockClient, ExchangeReq, RefreshReq, GrantType, Idle
  <2> QED BY <1>3, <2>1 DEF TypeInv, RowsKnown, TypeOK, LockClient, GrantType, stores, history
<1>4. CASE LockClientRefused(r)
  BY <1>4 DEF TypeInv, RowsKnown, TypeOK, LockClientRefused, stores, history
<1>5. CASE Exchange(r)
  <2> DEFINE k == grant[r].code
  <2>1. grant[r] \in ExchangeReq /\ k \in Codes
    BY <1>5 DEF TypeInv, TypeOK, Exchange, RefreshReq, ExchangeReq, Idle
  <2>2. code[k] \in CodeRow
    BY <1>5, <2>1 DEF TypeInv, TypeOK, Exchange, Exchangeable, Absent, Gone
  <2>3. code' \in CodeType
    BY <1>5, DeleteCodesType DEF TypeInv, Exchange, ConsumeCode
  <2>4. PICK n \in Tokens : token' = [token EXCEPT ![n] =
          [st |-> "live", family |-> n, client |-> code[k].client,
           user |-> code[k].user, scope |-> code[k].scope, code |-> k,
           cred |-> code[k].cred, secret |-> grant[r].secret]]
    BY <1>5 DEF Exchange
  <2>5. [st |-> "live", family |-> n, client |-> code[k].client,
         user |-> code[k].user, scope |-> code[k].scope, code |-> k,
         cred |-> code[k].cred, secret |-> grant[r].secret] \in TokenRow
    BY <2>1, <2>2 DEF TokenRow, CodeRow, ExchangeReq
  <2>6. token' \in TokenType /\ \A t \in Tokens : token[t] # Absent => token'[t] # Absent
    BY <2>4, <2>5 DEF TypeInv, TypeOK, TokenType, TokenRow, Absent
  <2>7. grant' \in GrantType
    BY <1>5 DEF TypeInv, TypeOK, Exchange, GrantType
  <2>8. RowsKnown'
    BY <1>5, <2>6, RowsStayKnown DEF TypeInv, TypeOK, Exchange
  <2> QED BY <1>5, <2>3, <2>6, <2>7, <2>8
          DEF TypeInv, TypeOK, Exchange, TokenType, CodeType, GrantType, history
<1>6. CASE Rotate(r)
  <2> DEFINE t == grant[r].token
  <2>1. grant[r] \in RefreshReq /\ t \in Tokens /\ token[t] \in TokenRow
    BY <1>6, LiveRows
    DEF TypeInv, TypeOK, Rotate, Rotatable, RefreshReq, ExchangeReq, Idle
  <2>2. PICK n \in Tokens :
          token' = [token EXCEPT ![t].st = "revoked",
                                 ![n] = [token[t] EXCEPT !.secret = grant[r].secret]]
    BY <1>6 DEF Rotate
  <2>3. /\ [token[t] EXCEPT !.secret = grant[r].secret] \in TokenRow
        /\ [token[t] EXCEPT !.st = "revoked"] \in TokenRow
    BY <2>1 DEF TokenRow, RefreshReq
  <2>4. token' \in TokenType /\ \A i \in Tokens : token[i] # Absent => token'[i] # Absent
    BY <2>1, <2>2, <2>3 DEF TypeInv, TypeOK, TokenType, TokenRow, Absent
  <2>5. grant' \in GrantType
    BY <1>6 DEF TypeInv, TypeOK, Rotate, GrantType
  <2>6. RowsKnown'
    BY <1>6, <2>4, RowsStayKnown DEF TypeInv, TypeOK, Rotate
  <2> QED BY <1>6, <2>4, <2>5, <2>6 DEF TypeInv, TypeOK, Rotate, TokenType, GrantType, history
<1>7. CASE RefreshReuse(r)
  <2>1. token' \in TokenType /\ \A i \in Tokens : token[i] # Absent => token'[i] # Absent
    BY <1>7, RevokeTokensType DEF TypeInv, RefreshReuse
  <2>2. RowsKnown'
    BY <1>7, <2>1, RowsStayKnown DEF TypeInv, TypeOK, RefreshReuse
  <2> QED BY <1>7, <2>1, <2>2 DEF TypeInv, TypeOK, RefreshReuse, TokenType, history
<1>8. CASE TokenRefused(r)
  BY <1>8 DEF TypeInv, RowsKnown, TypeOK, TokenRefused, stores, history
<1> QED BY <1>1, <1>2, <1>3, <1>4, <1>5, <1>6, <1>7, <1>8 DEF TokenRequest, TokenStep

-----------------------------------------------------------------------------
(* Revocations.                                                            *)

LEMMA StartCutType ==
  ASSUME TypeInv, NEW r \in RevokeRequests, NEW kind \in GrantKinds,
         NEW c \in Clients, NEW u \in Users, StartCut(r, kind, c, u)
  PROVE  TypeInv'
<1>1. cut' \in CutType
  BY DEF TypeInv, TypeOK, StartCut, CutReq, CutType, GrantTokens, UserTokens, LiveTokens
<1>2. \A t \in GrantTokens(c, u) : token[t] # Absent
  BY LiveRows DEF TypeInv, GrantTokens, UserTokens, LiveTokens, TokenRow, Absent
<1>3. RowsKnown'
  BY <1>2 DEF TypeInv, TypeOK, RowsKnown, StartCut, stores
<1> QED BY <1>1, <1>3 DEF TypeInv, TypeOK, StartCut, CutType, stores, history

LEMMA RevokeRequestType ==
  ASSUME TypeInv, NEW r \in RevokeRequests, RevokeRequest(r)
  PROVE  TypeInv'
<1>1. ASSUME NEW c \in Clients, NEW u \in Users,
             RevokeConnectionStart(r, c, u) \/ UnassignStart(r, c, u)
      PROVE  TypeInv'
  BY <1>1, StartCutType DEF RevokeConnectionStart, UnassignStart, GrantKinds
<1>4. ASSUME NEW c \in Clients, NEW u \in Users, AssignStart(r, c, u) PROVE TypeInv'
  <2>1. cut' \in CutType
    BY <1>4 DEF TypeInv, TypeOK, AssignStart, AssignReq, CutType
  <2> QED BY <1>4, <2>1
          DEF TypeInv, RowsKnown, TypeOK, AssignStart, CutType, stores, history
<1>2. ASSUME NEW t \in Tokens, RevokeEndpointStart(r, t) PROVE TypeInv'
  <2>1. cut' \in CutType
    BY <1>2, LiveRows
    DEF TypeInv, TypeOK, RevokeEndpointStart, FamilyReq, CutType, TokenRow, FamilyTokens, LiveTokens
  <2> QED BY <1>2, <2>1
          DEF TypeInv, RowsKnown, TypeOK, RevokeEndpointStart, CutType, stores, history
<1>3. ASSUME NEW t \in Tokens, BearerStart(r, t) PROVE TypeInv'
  <2>1. cut' \in CutType
    BY <1>3, LiveRows DEF TypeInv, TypeOK, BearerStart, BearerReq, CutType, TokenRow
  <2> QED BY <1>3, <2>1
          DEF TypeInv, RowsKnown, TypeOK, BearerStart, CutType, stores, history
<1> QED BY <1>1, <1>2, <1>3, <1>4 DEF RevokeRequest

LEMMA CutCommitType ==
  ASSUME TypeInv, NEW r \in RevokeRequests, CutCommit(r)
  PROVE  TypeInv'
<1> DEFINE c == cut[r].client
           u == cut[r].user
<1>1. cut[r] \in CutReq /\ <<c, u>> \in Pairs
  BY CutShape DEF TypeInv, CutCommit, CutReq, Pairs
<1>2. token' \in TokenType /\ \A t \in Tokens : token[t] # Absent => token'[t] # Absent
  BY RevokeTokensType DEF TypeInv, CutCommit
<1>3. code' \in CodeType
  BY DeleteCodesType DEF TypeInv, CutCommit
<1>4. consent' \in [Pairs -> ConsentRow \cup {Absent}]
  <2>1. consent[<<c, u>>].st = "active" => consent[<<c, u>>] \in ConsentRow
    BY <1>1 DEF TypeInv, TypeOK, Absent
  <2>2. \A row \in ConsentRow : [row EXCEPT !.st = "revoked"] \in ConsentRow
    BY DEF ConsentRow
  <2> QED BY <1>1, <2>1, <2>2 DEF TypeInv, TypeOK, CutCommit
<1>5. assign' \in [Pairs -> {"none", "active", "deleted"}]
  BY <1>1 DEF TypeInv, TypeOK, CutCommit
<1>6. approved' \in [Pairs -> SUBSET Scopes]
  BY DEF TypeInv, TypeOK, CutCommit
<1>7. closed' \subseteq Tokens
  <2>1. \A t \in cut[r].tokens : t \in Tokens /\ (token[t] # Gone => token[t] \in TokenRow)
    BY <1>1 DEF TypeInv, TypeOK, RowsKnown, CutCommit, CutReq
  <2>2. Families(cut[r].tokens) \subseteq Tokens
    BY <2>1 DEF Families, TokenRow
  <2> QED BY <2>2 DEF TypeInv, TypeOK, CutCommit
<1>8. cut' \in CutType
  BY DEF TypeInv, TypeOK, CutCommit, CutType
<1>9. RowsKnown'
  BY <1>2, RowsStayKnown DEF TypeInv, TypeOK, CutCommit
<1> QED BY <1>2, <1>3, <1>4, <1>5, <1>6, <1>7, <1>8, <1>9
        DEF TypeInv, TypeOK, CutCommit, TokenType, CodeType, CutType

LEMMA RevokeStepType ==
  ASSUME TypeInv, NEW r \in RevokeRequests, RevokeStep(r)
  PROVE  TypeInv'
<1>1. CASE CutTokens(r)
  <2>1. cut' \in CutType
    <3>1. cut[r] \in CutReq /\ UserCodes(cut[r].user) \subseteq Codes
      BY <1>1, CutShape DEF TypeInv, CutTokens, UserCodes, StoredCodes
    <3> DEFINE K == UserCodes(cut[r].user) \cap ClientCodes(cut[r].client)
    <3>2. [[cut[r] EXCEPT !.pc = "codes"] EXCEPT !.codes = K] \in CutReq
      BY <3>1 DEF CutReq
    <3> QED BY <1>1, <3>2 DEF TypeInv, TypeOK, CutTokens, CutType
  <2>2. RowsKnown'
    BY <1>1, CutShape DEF TypeInv, TypeOK, RowsKnown, CutTokens, stores, CutReq
  <2> QED BY <1>1, <2>1, <2>2 DEF TypeInv, TypeOK, CutTokens, CutType, stores, history
<1>2. CASE CutCommit(r)
  BY <1>2, CutCommitType
<1>3. CASE CutAborted(r)
  BY <1>3 DEF TypeInv, RowsKnown, TypeOK, CutAborted, stores, history, Idle
<1>4. CASE RevokeEndpointCommit(r)
  <2>1. cut[r] \in FamilyReq
    BY <1>4 DEF TypeInv, TypeOK, RevokeEndpointCommit, CutReq, AssignReq, FamilyReq, BearerReq, Idle
  <2>2. token' \in TokenType /\ \A t \in Tokens : token[t] # Absent => token'[t] # Absent
    BY <1>4, RevokeTokensType DEF TypeInv, RevokeEndpointCommit
  <2>3. cut' \in CutType /\ closed' \subseteq Tokens
    BY <1>4, <2>1 DEF TypeInv, TypeOK, RevokeEndpointCommit, FamilyReq, CutType
  <2>4. RowsKnown'
    BY <1>4, <2>2, RowsStayKnown DEF TypeInv, TypeOK, RevokeEndpointCommit
  <2> QED BY <1>4, <2>2, <2>3, <2>4 DEF TypeInv, TypeOK, RevokeEndpointCommit, TokenType, CutType
<1>5. CASE BearerDecide(r)
  <2>1. cut' \in CutType
    BY <1>5
    DEF TypeInv, TypeOK, BearerDecide, CutReq, AssignReq, FamilyReq, BearerReq, Idle, CutType
  <2>2. RowsKnown'
    <3>1. cut'[r].pc \notin {"tokens", "codes"}
      BY <1>5, <2>1, CutShape DEF TypeInv, TypeOK, BearerDecide, BearerReq, Idle
    <3> QED BY <1>5, <3>1 DEF TypeInv, TypeOK, RowsKnown, BearerDecide, stores
  <2> QED BY <1>5, <2>1, <2>2 DEF TypeInv, TypeOK, BearerDecide, CutType, stores, history
<1>6. CASE BearerRevoke(r)
  <2>1. token' \in TokenType /\ \A t \in Tokens : token[t] # Absent => token'[t] # Absent
    BY <1>6, RevokeTokensType DEF TypeInv, BearerRevoke
  <2>2. cut' \in CutType
    BY <1>6 DEF TypeInv, TypeOK, BearerRevoke, CutType
  <2>3. RowsKnown'
    BY <1>6, <2>1, RowsStayKnown DEF TypeInv, TypeOK, BearerRevoke
  <2> QED BY <1>6, <2>1, <2>2, <2>3 DEF TypeInv, TypeOK, BearerRevoke, TokenType, CutType, history
<1>7. CASE AssignWrite(r)
  <2> DEFINE c == cut[r].client
             u == cut[r].user
  <2>1. c \in Clients /\ u \in Users
    BY <1>7, CutShape DEF TypeInv, AssignWrite, AssignReq
  <2>2. cut' \in CutType
    BY <1>7, <2>1
    DEF TypeInv, TypeOK, AssignWrite, CutReq, CutType, GrantKinds, GrantTokens, UserTokens,
        LiveTokens
  <2>3. \A t \in GrantTokens(c, u) : token[t] # Absent
    BY LiveRows DEF TypeInv, GrantTokens, UserTokens, LiveTokens, TokenRow, Absent
  <2>4. RowsKnown'
    BY <1>7, <2>3 DEF TypeInv, TypeOK, RowsKnown, AssignWrite, stores
  <2> QED BY <1>7, <2>2, <2>4 DEF TypeInv, TypeOK, AssignWrite, CutType, stores, history
<1>8. CASE AssignRefused(r)
  BY <1>8 DEF TypeInv, RowsKnown, TypeOK, AssignRefused, stores, history, Idle
<1> QED BY <1>1, <1>2, <1>3, <1>4, <1>5, <1>6, <1>7, <1>8 DEF RevokeStep

-----------------------------------------------------------------------------
(* Administration, the clock and restarts.                                 *)

LEMMA AccountAdminType ==
  ASSUME TypeInv, NEW u \in Users, AccountAdmin(u) \/ RemovalStep(u)
  PROVE  TypeInv'
<1>1. \A s \in UserSessions(u) : session[s].st = "live"
  BY DEF UserSessions
<1>2. CASE ConfirmPasswordReset(u)
  <2>1. session' \in SessionType
    BY <1>1, <1>2, EndSessionsType DEF TypeInv, ConfirmPasswordReset
  <2>2. token' \in TokenType /\ \A t \in Tokens : token[t] # Absent => token'[t] # Absent
    BY <1>2, RevokeTokensType DEF TypeInv, ConfirmPasswordReset
  <2>3. code' \in CodeType
    BY <1>2, DeleteCodesType DEF TypeInv, ConfirmPasswordReset
  <2>4. cred' \in [Users -> Versions]
    BY <1>2, MaxVersionAssumption DEF TypeInv, TypeOK, ConfirmPasswordReset, Versions
  <2>5. RowsKnown'
    BY <1>2, <2>2, RowsStayKnown DEF TypeInv, TypeOK, ConfirmPasswordReset, requests
  <2> QED BY <1>2, <2>1, <2>2, <2>3, <2>4, <2>5
          DEF TypeInv, TypeOK, ConfirmPasswordReset, SessionType, TokenType, CodeType, requests, history
<1>3. ASSUME NEW active \in BOOLEAN, AdminUpdateStatus(u, active) PROVE TypeInv'
  <2>1. session' \in SessionType
    BY <1>1, <1>3, EndSessionsType DEF TypeInv, TypeOK, AdminUpdateStatus, SessionType
  <2>2. token' \in TokenType /\ \A t \in Tokens : token[t] # Absent => token'[t] # Absent
    BY <1>3, RevokeTokensType DEF TypeInv, TypeOK, AdminUpdateStatus, TokenType
  <2>3. code' \in CodeType
    BY <1>3, DeleteCodesType DEF TypeInv, TypeOK, AdminUpdateStatus, CodeType
  <2>4. user' \in [Users -> {"active", "inactive", "deleted"}]
    BY <1>3 DEF TypeInv, TypeOK, AdminUpdateStatus
  <2>5. RowsKnown'
    BY <1>3, <2>2, RowsStayKnown DEF TypeInv, TypeOK, AdminUpdateStatus, requests
  <2> QED BY <1>3, <2>1, <2>2, <2>3, <2>4, <2>5
          DEF TypeInv, TypeOK, AdminUpdateStatus, SessionType, TokenType, CodeType, requests, history
<1>4. CASE AdminUpdateRole(u)
  <2>1. token' \in TokenType /\ \A t \in Tokens : token[t] # Absent => token'[t] # Absent
    BY <1>4, RevokeTokensType DEF TypeInv, AdminUpdateRole
  <2>2. code' \in CodeType
    BY <1>4, DeleteCodesType DEF TypeInv, AdminUpdateRole
  <2>3. RowsKnown'
    BY <1>4, <2>1, RowsStayKnown DEF TypeInv, TypeOK, AdminUpdateRole, requests
  <2> QED BY <1>4, <2>1, <2>2, <2>3
          DEF TypeInv, TypeOK, AdminUpdateRole, TokenType, CodeType, requests, history
<1>5. CASE AdminDeleteUserStart(u)
  <2>1. removal' \in [Users -> RemovalReq \cup {Idle}]
    BY <1>5 DEF TypeInv, TypeOK, AdminDeleteUserStart, RemovalReq, OwnedClients, StoredCodes
  <2>2. RowsKnown'
    BY <1>5 DEF TypeInv, TypeOK, RowsKnown, AdminDeleteUserStart, OwnedClients, Absent, stores
  <2> QED BY <1>5, <2>1, <2>2 DEF TypeInv, TypeOK, AdminDeleteUserStart, stores, history
<1>6. CASE AdminDeleteUserCommit(u)
  <2> DEFINE owned == removal[u].clients
  <2>1. owned \subseteq Clients /\ \A c \in owned : client[c] \in ClientRow
    BY <1>6 DEF TypeInv, TypeOK, RowsKnown, AdminDeleteUserCommit, RemovalReq
  <2>2. client' \in ClientType /\ \A c \in Clients : client[c] # Absent => client'[c] # Absent
    <3>1. \A row \in ClientRow : [row EXCEPT !.st = "purged"] \in ClientRow \ {Absent}
      BY DEF ClientRow, Absent
    <3> QED BY <1>6, <2>1, <3>1 DEF TypeInv, TypeOK, AdminDeleteUserCommit, ClientType
  <2>3. session' \in SessionType /\ code' \in CodeType
    BY <1>6, DeleteCodesType DEF TypeInv, TypeOK, AdminDeleteUserCommit, SessionType
  <2>4. token' \in TokenType /\ \A t \in Tokens : token[t] # Absent => token'[t] # Absent
    BY <1>6 DEF TypeInv, TypeOK, AdminDeleteUserCommit, TokenType, Gone, Absent
  <2>5. /\ assign' \in [Pairs -> {"none", "active", "deleted"}]
        /\ consent' \in [Pairs -> ConsentRow \cup {Absent}]
        /\ approved' \in [Pairs -> SUBSET Scopes]
    BY <1>6 DEF TypeInv, TypeOK, AdminDeleteUserCommit
  <2>6. /\ user' \in [Users -> {"active", "inactive", "deleted"}]
        /\ removal' \in [Users -> RemovalReq \cup {Idle}]
    BY <1>6 DEF TypeInv, TypeOK, AdminDeleteUserCommit
  <2>7. RowsKnown'
    BY <1>6, <2>2, <2>4, RowsStayKnown DEF TypeInv, TypeOK, AdminDeleteUserCommit
  <2> QED BY <1>6, <2>2, <2>3, <2>4, <2>5, <2>6, <2>7
          DEF TypeInv, TypeOK, AdminDeleteUserCommit, SessionType, ClientType, TokenType, CodeType
<1>7. CASE AdminDeleteUserAborted(u)
  BY <1>7 DEF TypeInv, RowsKnown, TypeOK, AdminDeleteUserAborted, stores, history
<1> QED BY <1>2, <1>3, <1>4, <1>5, <1>6, <1>7 DEF AccountAdmin, RemovalStep

LEMMA ClientAdminType ==
  ASSUME TypeInv, NEW c \in Clients, ClientAdmin(c)
  PROVE  TypeInv'
<1>1. ASSUME NEW policy \in Policies, NEW uris \in SUBSET Redirects, NEW u \in Users,
             CreateClient(c, u, policy, uris)
      PROVE  TypeInv'
  <2>1. client' \in ClientType /\ \A d \in Clients : client[d] # Absent => client'[d] # Absent
    BY <1>1, MaxVersionAssumption
    DEF TypeInv, TypeOK, CreateClient, ClientRow, ClientType, Versions, Absent
  <2>2. assign' \in [Pairs -> {"none", "active", "deleted"}]
    BY <1>1 DEF TypeInv, TypeOK, CreateClient
  <2>3. RowsKnown'
    BY <1>1, <2>1 DEF TypeInv, TypeOK, RowsKnown, CreateClient, requests, RemovalReq, Idle
  <2> QED BY <1>1, <2>1, <2>2, <2>3
          DEF TypeInv, TypeOK, CreateClient, ClientType, requests, history
<1>2. ASSUME NEW policy \in Policies, NEW uris \in SUBSET Redirects, UpdateClient(c, policy, uris)
      PROVE  TypeInv'
  <2>1. client[c] \in ClientRow
    BY <1>2, LiveRows DEF TypeInv, UpdateClient
  <2>2. client' \in ClientType /\ \A d \in Clients : client[d] # Absent => client'[d] # Absent
    BY <1>2, <2>1 DEF TypeInv, TypeOK, UpdateClient, ClientRow, ClientType, Absent
  <2>3. assign' \in [Pairs -> {"none", "active", "deleted"}]
    BY <1>2 DEF TypeInv, TypeOK, UpdateClient
  <2>4. token' \in TokenType /\ \A t \in Tokens : token[t] # Absent => token'[t] # Absent
    BY <1>2, RevokeTokensType DEF TypeInv, UpdateClient
  <2>5. code' \in CodeType
    BY <1>2, DeleteCodesType DEF TypeInv, UpdateClient
  <2>6. RowsKnown'
    BY <1>2, <2>2, <2>4, RowsStayKnown DEF UpdateClient, requests
  <2> QED BY <1>2, <2>2, <2>3, <2>4, <2>5, <2>6
          DEF TypeInv, TypeOK, UpdateClient, ClientType, TokenType, CodeType, requests, history
<1>3. CASE RegenerateClientSecret(c) \/ DeleteClient(c)
  <2>1. client[c] \in ClientRow
    BY <1>3, LiveRows DEF TypeInv, RegenerateClientSecret, DeleteClient
  <2>2. client' \in ClientType /\ \A d \in Clients : client[d] # Absent => client'[d] # Absent
    <3>1. [client[c] EXCEPT !.st = "deleted"] \in ClientRow \ {Absent}
      BY <2>1 DEF ClientRow, Absent
    <3>2. ASSUME RegenerateClientSecret(c)
          PROVE  [client[c] EXCEPT !.secret = client[c].secret + 1] \in ClientRow \ {Absent}
      BY <2>1, <3>2, MaxVersionAssumption DEF RegenerateClientSecret, ClientRow, Versions, Absent
    <3> QED BY <1>3, <3>1, <3>2
            DEF TypeInv, TypeOK, RegenerateClientSecret, DeleteClient, ClientType
  <2>3. token' \in TokenType /\ \A t \in Tokens : token[t] # Absent => token'[t] # Absent
    BY <1>3, RevokeTokensType DEF TypeInv, RegenerateClientSecret, DeleteClient
  <2>4. code' \in CodeType
    BY <1>3, DeleteCodesType DEF TypeInv, RegenerateClientSecret, DeleteClient
  <2>5. /\ assign' \in [Pairs -> {"none", "active", "deleted"}]
        /\ consent' \in [Pairs -> ConsentRow \cup {Absent}]
        /\ approved' \in [Pairs -> SUBSET Scopes]
    BY <1>3 DEF TypeInv, TypeOK, RegenerateClientSecret, DeleteClient, history
  <2>6. RowsKnown'
    BY <1>3, <2>2, <2>3, RowsStayKnown DEF TypeInv, TypeOK, RegenerateClientSecret, DeleteClient, requests
  <2> QED BY <1>3, <2>2, <2>3, <2>4, <2>5, <2>6
          DEF TypeInv, TypeOK, RegenerateClientSecret, DeleteClient, ClientType, TokenType,
              CodeType, requests, history
<1> QED BY <1>1, <1>2, <1>3 DEF ClientAdmin

LEMMA ClockType == ASSUME TypeInv, Clock PROVE TypeInv'
<1>1. ASSUME NEW s \in Sessions, Logout(s) PROVE TypeInv'
  <2>1. session' \in SessionType
    BY <1>1, EndSessionsType DEF TypeInv, Logout
  <2> QED BY <1>1, <2>1 DEF TypeInv, RowsKnown, TypeOK, Logout, SessionType, requests, history
<1>2. ASSUME NEW k \in Codes, ExpireCode(k) PROVE TypeInv'
  <2>1. code' \in CodeType
    BY <1>2 DEF TypeInv, TypeOK, ExpireCode, CodeType, CodeRow, Absent, Gone
  <2> QED BY <1>2, <2>1 DEF TypeInv, RowsKnown, TypeOK, ExpireCode, CodeType, requests, history
<1> QED BY <1>1, <1>2 DEF Clock

LEMMA RestartType == ASSUME TypeInv, Restart PROVE TypeInv'
<1>1. assign' \in [Pairs -> {"none", "active", "deleted"}]
  BY DEF TypeInv, TypeOK, Restart
<1>2. consent' \in [Pairs -> ConsentRow \cup {Absent}]
  <2>1. \A p \in Pairs : UNION {token[t].scope : t \in GrantTokens(p[1], p[2])} \subseteq Scopes
    BY LiveRows DEF TypeInv, GrantTokens, UserTokens, TokenRow
  <2> QED BY <2>1 DEF TypeInv, TypeOK, Restart, ConsentRow
<1>3. /\ authz' \in [AuthorizeRequests -> AuthorizeReq \cup {Idle}]
      /\ grant' \in GrantType /\ cut' \in CutType /\ acct' \in AcctType
      /\ removal' \in [Users -> RemovalReq \cup {Idle}]
  BY DEF Restart, GrantType, CutType, AcctType
<1>4. RowsKnown'
  BY DEF RowsKnown, Restart, Idle
<1> QED BY <1>1, <1>2, <1>3, <1>4
        DEF TypeInv, TypeOK, Restart, GrantType, CutType, AcctType, history

-----------------------------------------------------------------------------
LEMMA TypeStep == TypeInv /\ [Next]_vars => TypeInv'
<1> SUFFICES ASSUME TypeInv, [Next]_vars PROVE TypeInv'
  OBVIOUS
<1>1. CASE Next
  BY <1>1, AdminAssumption, AccountType, AuthorizeType, TokenRequestType, RevokeRequestType,
     RevokeStepType, AccountAdminType, ClientAdminType, ClockType, RestartType
  DEF Next
<1>2. CASE UNCHANGED vars
  BY <1>2 DEF TypeInv, RowsKnown, TypeOK, vars, stores, requests, history
<1> QED BY <1>1, <1>2

\* Every row and every request in flight keeps its shape, whatever the sets
\* of accounts, clients, ids and concurrent requests are.
THEOREM TypeCorrect == Spec => []TypeOK
<1>1. TypeInv => TypeOK
  BY DEF TypeInv
<1> QED BY <1>1, InitType, TypeStep, PTL DEF Spec

-----------------------------------------------------------------------------
(* Safety.  Only few steps add to a table; every other step ends rows: the *)
(* first lemmas say so, once, for tokens, codes and sessions; each property *)
(* is then proved from the steps that add.                                 *)

\* A step after which no token is usable that was not, and no id is new.
TokensOnlyEnd ==
  \A t \in Tokens :
    \/ token'[t] = token[t]
    \/ token[t].st = "live" /\ token'[t] = [token[t] EXCEPT !.st = "revoked"]
    \/ token[t] # Absent /\ token'[t] = Gone

CodesOnlyEnd ==
  \A k \in Codes :
    \/ code'[k] = code[k]
    \/ code[k].st = "issued" /\ code'[k] = [code[k] EXCEPT !.st = "expired"]
    \/ k \in StoredCodes /\ code'[k] = Gone

-----------------------------------------------------------------------------
LEMMA RevokedTokensEnd ==
  ASSUME TypeInv, NEW T, RevokeTokens(T) PROVE TokensOnlyEnd
  BY DEF RevokeTokens, TokensOnlyEnd, LiveTokens, TypeInv, TypeOK

LEMMA DeletedCodesEnd ==
  ASSUME TypeInv, NEW K, DeleteCodes(K) PROVE CodesOnlyEnd
  BY DEF DeleteCodes, CodesOnlyEnd, StoredCodes, TypeInv, TypeOK

\* Only exchange and rotation store a token.
LEMMA TokenSteps ==
  ASSUME TypeInv, [Next]_vars
  PROVE  TokensOnlyEnd \/ \E r \in TokenRequests : Exchange(r) \/ Rotate(r)
<1>1. ASSUME UNCHANGED token PROVE TokensOnlyEnd
  BY <1>1 DEF TokensOnlyEnd
<1>2. ASSUME NEW r \in AccountRequests, AccountRequest(r) \/ AccountStep(r)
      PROVE  TokensOnlyEnd
  <2>1. CASE ChangePasswordCommit(r)
    BY <2>1, RevokedTokensEnd DEF ChangePasswordCommit
  <2>2. CASE ~ChangePasswordCommit(r)
    <3>1. UNCHANGED token
      BY <1>2, <2>2
      DEF AccountRequest, AccountStep, LoginStart, ChangePasswordStart, LoginCommit,
          AccountRefused, stores
    <3> QED BY <1>1, <3>1
  <2> QED BY <2>1, <2>2
<1>3. ASSUME NEW r \in AuthorizeRequests, AuthorizeRequest(r) \/ AuthorizeStep(r)
      PROVE  TokensOnlyEnd
  <2>1. AuthorizeRequest(r) => UNCHANGED token
    BY DEF AuthorizeRequest, AuthorizeCheck
  <2>2. AuthorizeStep(r) => UNCHANGED token
    BY DEF AuthorizeStep, AuthorizeCommit, AuthorizeRefused, stores
  <2> QED BY <1>1, <1>3, <2>1, <2>2
<1>4. ASSUME NEW r \in TokenRequests, TokenRequest(r) \/ TokenStep(r),
             ~Exchange(r), ~Rotate(r)
      PROVE  TokensOnlyEnd
  BY <1>1, <1>4, RevokedTokensEnd
  DEF TokenRequest, TokenStep, ExchangeStart, RotateStart, LockClient, LockClientRefused,
      RefreshReuse, TokenRefused, stores
<1>5. ASSUME NEW r \in RevokeRequests, RevokeRequest(r) \/ RevokeStep(r)
      PROVE  TokensOnlyEnd
  BY <1>1, <1>5, RevokedTokensEnd
  DEF RevokeRequest, RevokeStep, RevokeConnectionStart, AssignStart, UnassignStart, StartCut,
      RevokeEndpointStart, BearerStart, AssignWrite, AssignRefused, CutTokens,
      CutCommit, CutAborted, RevokeEndpointCommit, BearerDecide, BearerRevoke, stores
<1>6. ASSUME NEW u \in Users, AccountAdmin(u) \/ RemovalStep(u)
      PROVE  TokensOnlyEnd
  <2>1. CASE AdminDeleteUserCommit(u)
    BY <2>1 DEF AdminDeleteUserCommit, TokensOnlyEnd, TypeInv, TypeOK, RowsKnown
  <2> QED BY <1>1, <1>6, <2>1, RevokedTokensEnd
          DEF AccountAdmin, RemovalStep, ConfirmPasswordReset, AdminUpdateStatus,
              AdminUpdateRole, AdminDeleteUserStart, AdminDeleteUserAborted, stores
<1>7. ASSUME NEW c \in Clients, ClientAdmin(c) PROVE TokensOnlyEnd
  BY <1>1, <1>7, RevokedTokensEnd
  DEF ClientAdmin, CreateClient, UpdateClient, RegenerateClientSecret, DeleteClient
<1>8. ASSUME Clock \/ Restart \/ UNCHANGED vars PROVE TokensOnlyEnd
  BY <1>1, <1>8 DEF Clock, Logout, ExpireCode, Restart, vars, stores
<1> QED BY <1>2, <1>3, <1>4, <1>5, <1>6, <1>7, <1>8, AdminAssumption DEF Next

\* Only OAuthAuthorize stores a code.
LEMMA CodeSteps ==
  ASSUME TypeInv, [Next]_vars
  PROVE  CodesOnlyEnd \/ \E r \in AuthorizeRequests : AuthorizeCommit(r)
<1>1. ASSUME UNCHANGED code PROVE CodesOnlyEnd
  BY <1>1 DEF CodesOnlyEnd
<1>2. ASSUME NEW r \in AccountRequests, AccountRequest(r) \/ AccountStep(r)
      PROVE  CodesOnlyEnd
  <2>1. CASE ChangePasswordCommit(r)
    BY <2>1, DeletedCodesEnd DEF ChangePasswordCommit
  <2>2. CASE ~ChangePasswordCommit(r)
    <3>1. UNCHANGED code
      BY <1>2, <2>2
      DEF AccountRequest, AccountStep, LoginStart, ChangePasswordStart, LoginCommit,
          AccountRefused, stores
    <3> QED BY <1>1, <3>1
  <2> QED BY <2>1, <2>2
<1>3. ASSUME NEW r \in AuthorizeRequests, AuthorizeRequest(r) \/ AuthorizeStep(r),
             ~AuthorizeCommit(r)
      PROVE  CodesOnlyEnd
  <2>1. AuthorizeRequest(r) => CodesOnlyEnd
    BY DeletedCodesEnd DEF AuthorizeRequest, AuthorizeCheck
  <2>2. AuthorizeRefused(r) => UNCHANGED code
    BY DEF AuthorizeRefused, stores
  <2> QED BY <1>1, <1>3, <2>1, <2>2 DEF AuthorizeStep
<1>4. ASSUME NEW r \in TokenRequests, TokenRequest(r) \/ TokenStep(r)
      PROVE  CodesOnlyEnd
  BY <1>1, <1>4, DeletedCodesEnd
  DEF TokenRequest, TokenStep, ExchangeStart, RotateStart, LockClient, LockClientRefused,
      Exchange, ConsumeCode, Rotate, RefreshReuse, TokenRefused, stores
<1>5. ASSUME NEW r \in RevokeRequests, RevokeRequest(r) \/ RevokeStep(r)
      PROVE  CodesOnlyEnd
  BY <1>1, <1>5, DeletedCodesEnd
  DEF RevokeRequest, RevokeStep, RevokeConnectionStart, AssignStart, UnassignStart, StartCut,
      RevokeEndpointStart, BearerStart, AssignWrite, AssignRefused, CutTokens,
      CutCommit, CutAborted, RevokeEndpointCommit, BearerDecide, BearerRevoke, stores
<1>6. ASSUME NEW u \in Users, AccountAdmin(u) \/ RemovalStep(u)
      PROVE  CodesOnlyEnd
  BY <1>1, <1>6, DeletedCodesEnd
  DEF AccountAdmin, RemovalStep, ConfirmPasswordReset, AdminUpdateStatus, AdminUpdateRole,
      AdminDeleteUserStart, AdminDeleteUserCommit, AdminDeleteUserAborted, stores
<1>7. ASSUME NEW c \in Clients, ClientAdmin(c) PROVE CodesOnlyEnd
  BY <1>1, <1>7, DeletedCodesEnd
  DEF ClientAdmin, CreateClient, UpdateClient, RegenerateClientSecret, DeleteClient
<1>8. ASSUME Clock \/ Restart \/ UNCHANGED vars PROVE CodesOnlyEnd
  <2>1. ASSUME NEW k \in Codes, ExpireCode(k) PROVE CodesOnlyEnd
    BY <2>1 DEF ExpireCode, CodesOnlyEnd, TypeInv, TypeOK
  <2> QED BY <1>1, <1>8, <2>1 DEF Clock, Logout, Restart, vars, stores
<1> QED BY <1>2, <1>3, <1>4, <1>5, <1>6, <1>7, <1>8, AdminAssumption DEF Next

-----------------------------------------------------------------------------
(* Refresh-token families.                                                 *)

\* The token a family is named after was issued, so a new family is new.
FamilyKnown ==
  \A t \in Tokens : token[t] \notin {Absent, Gone} => token[token[t].family] # Absent
FamilyInv == TypeInv /\ FamilyKnown /\ OneLiveTokenPerFamily

LEMMA TokenRowShape ==
  ASSUME TypeOK, NEW t \in Tokens
  PROVE  /\ token[t] \notin {Absent, Gone} <=> token[t] \in TokenRow
         /\ token[t] \in TokenRow =>
              token[t].st \in {"live", "revoked"} /\ token[t].family \in Tokens
         /\ t \in LiveTokens <=> token[t] \in TokenRow /\ token[t].st = "live"
         /\ token[t].st \in {"live", "revoked"} <=> token[t] \in TokenRow
  BY DEF TypeOK, TokenRow, Absent, Gone, LiveTokens

LEMMA TokenRowShapeNext ==
  ASSUME TypeOK', NEW t \in Tokens
  PROVE  /\ token'[t] \notin {Absent, Gone} <=> token'[t] \in TokenRow
         /\ token'[t].st \in {"live", "revoked"} <=> token'[t] \in TokenRow
  BY DEF TypeOK, TokenRow, Absent, Gone

\* What an exchange stores: a token that founds its family.
LEMMA ExchangeEffect ==
  ASSUME TypeInv, NEW r \in TokenRequests, Exchange(r)
  PROVE  /\ grant[r].code \in Codes /\ code[grant[r].code].st = "issued"
         /\ code[grant[r].code] \in CodeRow
         /\ Usable(code[grant[r].code].user) /\ ~UserLocked(code[grant[r].code].user)
         /\ code' = [code EXCEPT ![grant[r].code] = Gone]
         /\ \E n \in Tokens :
              /\ token[n] = Absent
              /\ \A i \in Tokens \ {n} : token'[i] = token[i]
              /\ token'[n] \in TokenRow
              /\ token'[n].st = "live" /\ token'[n].family = n
              /\ token'[n].code = grant[r].code
              /\ token'[n].user = code[grant[r].code].user
              /\ token'[n].cred = code[grant[r].code].cred
              /\ token'[n].client = code[grant[r].code].client
              /\ token'[n].secret = grant[r].secret
<1> DEFINE k == grant[r].code
<1>1. grant[r] \in ExchangeReq /\ k \in Codes
  BY DEF TypeInv, TypeOK, Exchange, RefreshReq, ExchangeReq, Idle
<1>2. code[k] \in CodeRow /\ k \in StoredCodes
  BY <1>1 DEF TypeInv, TypeOK, Exchange, Exchangeable, Absent, Gone, StoredCodes
<1>3. code' = [code EXCEPT ![k] = Gone]
  BY <1>1, <1>2 DEF Exchange, ConsumeCode, DeleteCodes, TypeInv, TypeOK
<1>4. PICK n \in Tokens :
        /\ token[n] = Absent
        /\ token' = [token EXCEPT ![n] =
             [st |-> "live", family |-> n, client |-> code[k].client,
              user |-> code[k].user, scope |-> code[k].scope, code |-> k,
              cred |-> code[k].cred, secret |-> grant[r].secret]]
  BY DEF Exchange
<1>5. token'[n] = [st |-> "live", family |-> n, client |-> code[k].client,
           user |-> code[k].user, scope |-> code[k].scope, code |-> k,
           cred |-> code[k].cred, secret |-> grant[r].secret]
  BY <1>4 DEF TypeInv, TypeOK
<1>6. token'[n] \in TokenRow
  BY <1>1, <1>2, <1>4, <1>5 DEF TokenRow, CodeRow, ExchangeReq
<1>7. \A i \in Tokens \ {n} : token'[i] = token[i]
  BY <1>4 DEF TypeInv, TypeOK
<1>8. code[k].st = "issued" /\ Usable(code[k].user)
  BY DEF Exchange, Exchangeable, MayIssue
<1>9. ~UserLocked(code[k].user)
  <2>1. grant[r].kind = "code" /\ RowsFree(r)
    BY DEF Exchange
  <2> QED BY <1>2, <2>1 DEF RowsFree, PairHeld
<1>10. /\ token'[n].st = "live" /\ token'[n].family = n /\ token'[n].code = k
       /\ token'[n].user = code[k].user /\ token'[n].cred = code[k].cred
       /\ token'[n].client = code[k].client /\ token'[n].secret = grant[r].secret
  BY <1>5
<1>11. token[n] = Absent
  BY <1>4
<1> QED BY <1>1, <1>2, <1>3, <1>6, <1>7, <1>8, <1>9, <1>10, <1>11

\* What a rotation stores: the successor of a live token, which ends.
LEMMA RotateEffect ==
  ASSUME TypeInv, NEW r \in TokenRequests, Rotate(r)
  PROVE  /\ grant[r].token \in LiveTokens
         /\ Usable(token[grant[r].token].user) /\ ~UserLocked(token[grant[r].token].user)
         /\ UNCHANGED code
         /\ \E n \in Tokens :
              /\ token[n] = Absent
              /\ \A i \in Tokens \ {grant[r].token, n} : token'[i] = token[i]
              /\ token'[grant[r].token] = [token[grant[r].token] EXCEPT !.st = "revoked"]
              /\ token'[n] \in TokenRow
              /\ token'[n].st = "live"
              /\ token'[n].family = token[grant[r].token].family
              /\ token'[n].code = token[grant[r].token].code
              /\ token'[n].user = token[grant[r].token].user
              /\ token'[n].cred = token[grant[r].token].cred
              /\ token'[n].client = token[grant[r].token].client
              /\ token'[n].secret = grant[r].secret
<1> DEFINE t == grant[r].token
<1>1. grant[r] \in RefreshReq /\ t \in Tokens /\ token[t] \in TokenRow
  BY LiveRows
  DEF TypeInv, TypeOK, Rotate, Rotatable, RefreshReq, ExchangeReq, Idle
<1>2. PICK n \in Tokens :
        /\ token[n] = Absent
        /\ token' = [token EXCEPT ![t].st = "revoked",
                                  ![n] = [token[t] EXCEPT !.secret = grant[r].secret]]
  BY DEF Rotate
<1>3. n # t
  BY <1>1, <1>2 DEF TokenRow, Absent
<1>4. /\ token'[n] = [token[t] EXCEPT !.secret = grant[r].secret]
      /\ token'[t] = [token[t] EXCEPT !.st = "revoked"]
  BY <1>1, <1>2, <1>3 DEF TypeInv, TypeOK
<1>5. token[t].st = "live" /\ Usable(token[t].user) /\ UNCHANGED code
  BY DEF Rotate, Rotatable, MayIssue
<1>6. /\ token'[n] \in TokenRow
      /\ token'[n].st = token[t].st /\ token'[n].family = token[t].family
      /\ token'[n].code = token[t].code /\ token'[n].user = token[t].user
      /\ token'[n].cred = token[t].cred /\ token'[n].client = token[t].client
      /\ token'[n].secret = grant[r].secret
  BY <1>1, <1>4 DEF TokenRow, RefreshReq
<1>7. \A i \in Tokens \ {t, n} : token'[i] = token[i]
  BY <1>2 DEF TypeInv, TypeOK
<1>8. ~UserLocked(token[t].user)
  BY <1>5 DEF Rotate, RowsFree
<1> QED BY <1>1, <1>2, <1>4, <1>5, <1>6, <1>7, <1>8 DEF LiveTokens

\* What OAuthAuthorize stores: a code of a session that still stands.
LEMMA AuthorizeEffect ==
  ASSUME TypeInv, NEW r \in AuthorizeRequests, AuthorizeCommit(r)
  PROVE  /\ Usable(authz[r].user) /\ ~UserLocked(authz[r].user)
         /\ authz[r].session \in Sessions
         /\ SessionStillLive(authz[r].session, authz[r].user)
         /\ UNCHANGED token
         /\ \E k \in Codes :
              /\ code[k] = Absent
              /\ \A i \in Codes \ {k} : code'[i] = code[i]
              /\ code'[k].st = "issued"
              /\ code'[k].user = authz[r].user
              /\ code'[k].client = authz[r].client
              /\ code'[k].cred = session[authz[r].session].cred
<1>1. authz[r] \in AuthorizeReq
  BY DEF TypeInv, TypeOK, AuthorizeCommit, AuthorizeReq, Idle
<1>2. authz[r].session \in Sessions
  BY <1>1 DEF AuthorizeReq
<1> QED BY <1>2 DEF AuthorizeCommit, SessionRecheck, TypeInv, TypeOK

\* Rows that end keep what they say.
LEMMA TokensKeep ==
  ASSUME TypeInv, TypeInv', TokensOnlyEnd, NEW t \in Tokens
  PROVE  /\ token'[t] \in TokenRow =>
              /\ token[t] \in TokenRow
              /\ token'[t].family = token[t].family
              /\ token'[t].code = token[t].code
         /\ token[t] # Absent <=> token'[t] # Absent
         /\ t \in LiveTokens' => t \in LiveTokens /\ token'[t] = token[t]
  BY DEF TokensOnlyEnd, TypeInv, TypeOK, TokenRow, Absent, Gone, LiveTokens

SameGrant(k) ==
  /\ code'[k].user = code[k].user /\ code'[k].client = code[k].client
  /\ code'[k].cred = code[k].cred

LEMMA CodesKeep ==
  ASSUME TypeInv, [Next]_vars, NEW k \in Codes
  PROVE  /\ code[k] = Gone => code'[k] = Gone
         /\ CodesOnlyEnd => /\ code[k] # Absent <=> code'[k] # Absent
                            /\ code'[k].st = "issued" => code[k].st = "issued"
                            /\ k \in StoredCodes' => k \in StoredCodes /\ SameGrant(k)
<1>1. CodesOnlyEnd =>
        /\ code[k] = Gone => code'[k] = Gone
        /\ code[k] # Absent <=> code'[k] # Absent
        /\ code'[k].st = "issued" => code[k].st = "issued"
        /\ k \in StoredCodes' => k \in StoredCodes /\ SameGrant(k)
  <2>1. CASE code'[k] = code[k]
    BY <2>1 DEF StoredCodes, SameGrant
  <2>2. CASE k \in StoredCodes /\ code'[k] = Gone
    BY <2>2 DEF StoredCodes, Absent, Gone
  <2>3. CASE code[k].st = "issued" /\ code'[k] = [code[k] EXCEPT !.st = "expired"]
    <3>1. k \in StoredCodes /\ code[k] \in CodeRow
      BY <2>3, LiveRows DEF StoredCodes, TypeInv
    <3>2. code'[k].st = "expired" /\ SameGrant(k)
      BY <2>3, <3>1 DEF CodeRow, SameGrant
    <3> QED BY <2>3, <3>1, <3>2 DEF Absent, Gone
  <2> QED BY <2>1, <2>2, <2>3 DEF CodesOnlyEnd
<1>2. ASSUME NEW r \in AuthorizeRequests, AuthorizeCommit(r), code[k] = Gone
      PROVE  code'[k] = Gone
  BY <1>2, AuthorizeEffect DEF Absent, Gone
<1> QED BY <1>1, <1>2, CodeSteps

LEMMA FamilyStep == FamilyInv /\ [Next]_vars => FamilyInv'
<1> SUFFICES ASSUME FamilyInv, [Next]_vars PROVE FamilyInv'
  OBVIOUS
<1>1. TypeInv /\ TypeInv'
  BY TypeStep DEF FamilyInv
<1>2. CASE TokensOnlyEnd
  <2>1. \A t \in Tokens : token'[t] \notin {Absent, Gone} =>
          token[t] \notin {Absent, Gone} /\ token'[t].family = token[t].family
    BY <1>1, <1>2, TokensKeep, TokenRowShape, TokenRowShapeNext DEF TypeInv
  <2>2. \A t \in Tokens : token[t] # Absent => token'[t] # Absent
    BY <1>1, <1>2 DEF TokensOnlyEnd, TypeInv, TypeOK, Absent, Gone, TokenRow
  <2>3. \A t \in Tokens : token'[t].st = "live" => token'[t] = token[t]
    BY <1>1, <1>2 DEF TokensOnlyEnd, TypeInv, TypeOK, Gone, Absent, TokenRow
  <2>4. FamilyKnown'
    BY <1>1, <2>1, <2>2, TokenRowShape DEF FamilyInv, FamilyKnown, TypeInv
  <2>5. OneLiveTokenPerFamily'
    BY <2>3 DEF FamilyInv, OneLiveTokenPerFamily, LiveTokens
  <2> QED BY <1>1, <2>4, <2>5 DEF FamilyInv
<1>3. ASSUME NEW r \in TokenRequests, Exchange(r) PROVE FamilyInv'
  <2>1. PICK n \in Tokens :
          /\ token[n] = Absent /\ \A t \in Tokens \ {n} : token'[t] = token[t]
          /\ token'[n] \in TokenRow /\ token'[n].family = n
    BY <1>1, <1>3, ExchangeEffect
  <2>3. token'[n] # Absent
    BY <2>1 DEF TokenRow, Absent
  <2>4. FamilyKnown'
    BY <1>1, <2>1, <2>3, TokenRowShape DEF FamilyInv, FamilyKnown, TypeInv
  <2>5. \A t \in LiveTokens : token[t].family # n
    BY <1>1, <2>1, TokenRowShape DEF FamilyInv, FamilyKnown, LiveTokens, TypeInv
  <2>6. OneLiveTokenPerFamily'
    BY <2>1, <2>5 DEF FamilyInv, OneLiveTokenPerFamily, LiveTokens
  <2> QED BY <1>1, <2>4, <2>6 DEF FamilyInv
<1>4. ASSUME NEW r \in TokenRequests, Rotate(r) PROVE FamilyInv'
  <2> DEFINE t == grant[r].token
  <2>1. t \in LiveTokens /\ token[t] \in TokenRow
    BY <1>1, <1>4, RotateEffect, LiveRows DEF TypeInv
  <2>2. PICK n \in Tokens :
          /\ token[n] = Absent
          /\ \A i \in Tokens \ {t, n} : token'[i] = token[i]
          /\ token'[t] = [token[t] EXCEPT !.st = "revoked"]
          /\ token'[n] \in TokenRow /\ token'[n].family = token[t].family
    BY <1>1, <1>4, RotateEffect
  <2>4. /\ token'[t].st = "revoked" /\ token'[t].family = token[t].family
        /\ token'[t] # Absent /\ token'[n] # Absent
    BY <2>1, <2>2 DEF TokenRow, Absent
  <2>5. \A i \in Tokens : token[i] # Absent => token'[i] # Absent
    BY <2>2, <2>4
  <2>6. \A i \in Tokens : token[i] \notin {Absent, Gone} => token'[token[i].family] # Absent
    BY <1>1, <2>5, TokenRowShape DEF FamilyInv, FamilyKnown, TypeInv
  <2>7. FamilyKnown'
    <3>1. token[t] \notin {Absent, Gone} /\ t \in Tokens
      BY <1>1, <2>1, TokenRowShape DEF TypeInv, LiveTokens
    <3>2. ASSUME NEW i \in Tokens, token'[i] \notin {Absent, Gone}
          PROVE  token'[token'[i].family] # Absent
      <4>1. CASE i \in {t, n}
        <5>1. token'[i].family = token[t].family
          BY <2>2, <2>4, <4>1
        <5> QED BY <2>6, <3>1, <5>1
      <4>2. CASE i \notin {t, n}
        BY <2>2, <2>6, <3>2, <4>2
      <4> QED BY <4>1, <4>2
    <3> QED BY <3>2 DEF FamilyKnown, Absent, Gone
  <2>8. \A i \in Tokens \ {n} : i \in LiveTokens' => i \in LiveTokens /\ i # t /\ token'[i] = token[i]
    BY <2>2, <2>4 DEF LiveTokens
  <2>9. OneLiveTokenPerFamily'
    BY <2>1, <2>2, <2>8 DEF FamilyInv, OneLiveTokenPerFamily, LiveTokens
  <2> QED BY <1>1, <2>7, <2>9 DEF FamilyInv
<1> QED BY <1>1, <1>2, <1>3, <1>4, TokenSteps

LEMMA FamilyInit == Init => FamilyInv
  BY InitType DEF Init, FamilyInv, FamilyKnown, OneLiveTokenPerFamily, LiveTokens, Absent

\* Rotation never leaves two usable tokens in a family, however many token
\* requests present it at once (rotateRefreshToken).
THEOREM FamilySafe == Spec => []OneLiveTokenPerFamily
<1>1. FamilyInv => OneLiveTokenPerFamily
  BY DEF FamilyInv
<1> QED BY <1>1, FamilyInit, FamilyStep, PTL DEF Spec

-----------------------------------------------------------------------------
(* Authorization codes.                                                    *)

\* The code of a stored token is gone, and so cannot yield another family.
CodeSpent ==
  \A t \in Tokens : token[t] \in TokenRow => code[token[t].code] = Gone
CodeInv == TypeInv /\ CodeSpent /\ CodeIsSingleUse

LEMMA CodeStep == CodeInv /\ [Next]_vars => CodeInv'
<1> SUFFICES ASSUME CodeInv, [Next]_vars PROVE CodeInv'
  OBVIOUS
<1>1. TypeInv /\ TypeInv'
  BY TypeStep DEF CodeInv
<1>2. \A t \in Tokens : token[t] \in TokenRow => token[t].code \in Codes
  BY DEF TokenRow
<1>3. \A k \in Codes : code[k] = Gone => code'[k] = Gone
  BY <1>1, CodesKeep
<1>4. CASE TokensOnlyEnd
  <2>1. CodeSpent'
    BY <1>1, <1>2, <1>3, <1>4, TokensKeep DEF CodeInv, CodeSpent
  <2>2. CodeIsSingleUse'
    BY <1>1, <1>4, TokensKeep, TokenRowShape, TokenRowShapeNext DEF CodeInv, CodeIsSingleUse, TypeInv
  <2> QED BY <1>1, <2>1, <2>2 DEF CodeInv
<1>5. ASSUME NEW r \in TokenRequests, Exchange(r) PROVE CodeInv'
  <2> DEFINE k == grant[r].code
  <2>1. PICK n \in Tokens : /\ token[n] = Absent
                            /\ \A i \in Tokens \ {n} : token'[i] = token[i]
                            /\ token'[n].code = k /\ token'[n].family = n
    BY <1>1, <1>5, ExchangeEffect
  <2>2. k \in Codes /\ code[k].st = "issued" /\ code'[k] = Gone
    BY <1>1, <1>5, ExchangeEffect DEF TypeInv, TypeOK
  <2>3. \A t \in Tokens : token[t] \in TokenRow => token[t].code # k
    BY <2>2 DEF CodeInv, CodeSpent, Gone
  <2>4. CodeSpent'
    BY <1>2, <1>3, <2>1, <2>2 DEF CodeInv, CodeSpent
  <2>5. CodeIsSingleUse'
    BY <1>1, <2>1, <2>3, TokenRowShape, TokenRowShapeNext DEF CodeInv, CodeIsSingleUse, TypeInv
  <2> QED BY <1>1, <2>4, <2>5 DEF CodeInv
<1>6. ASSUME NEW r \in TokenRequests, Rotate(r) PROVE CodeInv'
  <2> DEFINE t == grant[r].token
  <2>1. t \in Tokens /\ token[t] \in TokenRow
    BY <1>1, <1>6, RotateEffect, LiveRows DEF TypeInv
  <2>2. PICK n \in Tokens :
          /\ token[n] = Absent
          /\ \A i \in Tokens \ {t, n} : token'[i] = token[i]
          /\ token'[t] = [token[t] EXCEPT !.st = "revoked"]
          /\ token'[n].family = token[t].family /\ token'[n].code = token[t].code
    BY <1>1, <1>6, RotateEffect
  <2>3. token'[t].family = token[t].family /\ token'[t].code = token[t].code
    BY <2>1, <2>2 DEF TokenRow
  <2> DEFINE from(i) == IF i = n THEN t ELSE i
  <2>4. \A i \in Tokens : token'[i] \in TokenRow =>
          /\ token[from(i)] \in TokenRow /\ from(i) \in Tokens
          /\ token'[i].family = token[from(i)].family
          /\ token'[i].code = token[from(i)].code
    BY <2>1, <2>2, <2>3
  <2> HIDE DEF from
  <2>5. CodeSpent'
    BY <1>2, <1>3, <2>4 DEF CodeInv, CodeSpent
  <2>6. CodeIsSingleUse'
    BY <1>1, <2>4, TokenRowShape, TokenRowShapeNext DEF CodeInv, CodeIsSingleUse, TypeInv
  <2> QED BY <1>1, <2>5, <2>6 DEF CodeInv
<1> QED BY <1>4, <1>5, <1>6, TokenSteps DEF CodeInv

LEMMA CodeInit == Init => CodeInv
  BY InitType DEF Init, CodeInv, CodeSpent, CodeIsSingleUse, TokenRow, Absent

\* A code is exchanged at most once: all refresh tokens it ever yields are of
\* one family (exchangeAuthorizationCode).
THEOREM CodeSafe == Spec => []CodeIsSingleUse
<1>1. CodeInv => CodeIsSingleUse
  BY DEF CodeInv
<1> QED BY <1>1, CodeInit, CodeStep, PTL DEF Spec

-----------------------------------------------------------------------------
(* OAuthGrant implements GrantLifecycle: the grant store, with all its     *)
(* requests in flight, locks and restarts, is seen from outside as codes   *)
(* that open once and families that hold one usable token.                 *)

\* Rows that only end leave a family with its token or without one.
LEMMA FamilyEnds ==
  ASSUME FamilyInv, TypeInv', TokensOnlyEnd, NEW f \in Tokens
  PROVE  FamilyTokens(f)' \in {{}, FamilyTokens(f)}
<1>1. FamilyTokens(f)' \subseteq FamilyTokens(f)
  BY TokensKeep DEF FamilyInv, FamilyTokens, LiveTokens
<1>2. \A t, n \in FamilyTokens(f) : t = n
  BY DEF FamilyInv, OneLiveTokenPerFamily, FamilyTokens
<1> QED BY <1>1, <1>2

LEMMA LifecycleInit == Init => Lifecycle!Init
<1> SUFFICES ASSUME Init PROVE Lifecycle!Init
  OBVIOUS
<1>1. \A k \in Codes : code[k] = Absent
  BY DEF Init
<1>2. \A t \in Tokens : token[t] = Absent
  BY DEF Init
<1>3. \A f \in Tokens : FamilyTokens(f) = {}
  BY <1>2 DEF FamilyTokens, LiveTokens, Absent
<1> QED BY <1>1, <1>2, <1>3 DEF Lifecycle!Init, Absent

LEMMA WithdrawStep ==
  ASSUME FamilyInv, FamilyInv', [Next]_vars, TokensOnlyEnd, CodesOnlyEnd
  PROVE  Lifecycle!Withdraw
<1>1. TypeInv /\ TypeInv'
  BY DEF FamilyInv
<1>2. {k \in Codes : code[k].st = "issued"}' \in SUBSET {k \in Codes : code[k].st = "issued"}
  BY <1>1, CodesKeep
<1>3. {k \in Codes : code[k] # Absent}' = {k \in Codes : code[k] # Absent}
  BY <1>1, CodesKeep
<1>4. {t \in Tokens : token[t] # Absent}' = {t \in Tokens : token[t] # Absent}
  BY <1>1, TokensKeep
<1>5. \A f \in Tokens : FamilyTokens(f)' \in {{}, FamilyTokens(f)}
  BY <1>1, FamilyEnds
<1>6. [f \in Tokens |-> FamilyTokens(f)]' \in [Tokens -> SUBSET Tokens]
  BY DEF FamilyTokens, LiveTokens
<1> QED BY <1>2, <1>3, <1>4, <1>5, <1>6 DEF Lifecycle!Withdraw

LEMMA ApproveStep ==
  ASSUME TypeInv, NEW r \in AuthorizeRequests, AuthorizeCommit(r)
  PROVE  \E k \in Codes : Lifecycle!Approve(k)
<1>1. UNCHANGED token
  BY AuthorizeEffect
<1>2. PICK k \in Codes : /\ code[k] = Absent
                         /\ \A i \in Codes \ {k} : code'[i] = code[i]
                         /\ code'[k].st = "issued"
  BY AuthorizeEffect
<1>3. code'[k] # Absent
  BY <1>2 DEF Absent
<1>4. {i \in Codes : code[i].st = "issued"}' = {i \in Codes : code[i].st = "issued"} \cup {k}
  BY <1>2
<1>5. {i \in Codes : code[i] # Absent}' = {i \in Codes : code[i] # Absent} \cup {k}
  BY <1>2, <1>3
<1>6. /\ [f \in Tokens |-> FamilyTokens(f)]' = [f \in Tokens |-> FamilyTokens(f)]
      /\ {t \in Tokens : token[t] # Absent}' = {t \in Tokens : token[t] # Absent}
  BY <1>1 DEF FamilyTokens, LiveTokens
<1> QED BY <1>2, <1>4, <1>5, <1>6 DEF Lifecycle!Approve

LEMMA RedeemStep ==
  ASSUME FamilyInv, TypeInv', NEW r \in TokenRequests, Exchange(r)
  PROVE  \E k \in Codes, n \in Tokens : Lifecycle!Redeem(k, n)
<1> DEFINE k == grant[r].code
<1>1. TypeInv
  BY DEF FamilyInv
<1>2. k \in Codes /\ code[k].st = "issued" /\ code' = [code EXCEPT ![k] = Gone]
  BY <1>1, ExchangeEffect
<1>3. PICK n \in Tokens : /\ token[n] = Absent
                          /\ \A i \in Tokens \ {n} : token'[i] = token[i]
                          /\ token'[n] \in TokenRow
                          /\ token'[n].st = "live" /\ token'[n].family = n
  BY <1>1, ExchangeEffect
<1>4. code'[k] = Gone /\ \A i \in Codes \ {k} : code'[i] = code[i]
  BY <1>1, <1>2 DEF TypeInv, TypeOK
<1>5. token'[n] # Absent
  BY <1>3 DEF TokenRow, Absent
<1>6. {i \in Codes : code[i].st = "issued"}' = {i \in Codes : code[i].st = "issued"} \ {k}
  BY <1>4 DEF Gone
<1>7. {i \in Codes : code[i] # Absent}' = {i \in Codes : code[i] # Absent}
  BY <1>2, <1>4 DEF Gone, Absent
<1>8. {t \in Tokens : token[t] # Absent}' = {t \in Tokens : token[t] # Absent} \cup {n}
  BY <1>3, <1>5
<1>9. \A t \in LiveTokens : token[t].family # n
  BY <1>1, <1>3, TokenRowShape DEF FamilyInv, FamilyKnown, LiveTokens, TypeInv
<1>10. n \notin LiveTokens
  BY <1>3 DEF LiveTokens, Absent
<1>11. \A f \in Tokens : FamilyTokens(f)' = IF f = n THEN {n} ELSE FamilyTokens(f)
  BY <1>3, <1>9, <1>10 DEF FamilyTokens, LiveTokens
<1>12. [f \in Tokens |-> FamilyTokens(f)]' = [[f \in Tokens |-> FamilyTokens(f)] EXCEPT ![n] = {n}]
  BY <1>11
<1>13. Lifecycle!Redeem(k, n)
  BY <1>2, <1>3, <1>6, <1>7, <1>8, <1>12 DEF Lifecycle!Redeem
<1> QED BY <1>2, <1>13

LEMMA RotateStep ==
  ASSUME FamilyInv, TypeInv', NEW r \in TokenRequests, Rotate(r)
  PROVE  \E f \in Tokens, n \in Tokens : Lifecycle!Rotate(f, n)
<1> DEFINE t == grant[r].token
           f == token[t].family
<1>1. TypeInv
  BY DEF FamilyInv
<1>2. t \in LiveTokens /\ token[t] \in TokenRow /\ UNCHANGED code
  BY <1>1, RotateEffect, LiveRows DEF TypeInv
<1>3. PICK n \in Tokens : /\ token[n] = Absent
                          /\ \A i \in Tokens \ {t, n} : token'[i] = token[i]
                          /\ token'[t] = [token[t] EXCEPT !.st = "revoked"]
                          /\ token'[n] \in TokenRow
                          /\ token'[n].st = "live" /\ token'[n].family = f
  BY <1>1, RotateEffect
<1>4. token'[t].st = "revoked" /\ token'[t] # Absent /\ token'[n] # Absent
  BY <1>2, <1>3 DEF TokenRow, Absent
<1>5. f \in Tokens /\ t \in Tokens /\ token[t] # Absent
  BY <1>2 DEF TokenRow, LiveTokens, Absent
<1>6. n \notin LiveTokens
  BY <1>3 DEF LiveTokens, Absent
<1>7. FamilyTokens(f) = {t}
  BY <1>2 DEF FamilyInv, OneLiveTokenPerFamily, FamilyTokens
<1>8. \A g \in Tokens : FamilyTokens(g)' = IF g = f THEN {n} ELSE FamilyTokens(g)
  <2>1. \A i \in Tokens \ {t, n} : i \in FamilyTokens(f) => FALSE
    BY <1>7
  <2>2. LiveTokens' = (LiveTokens \ {t}) \cup {n}
    BY <1>2, <1>3, <1>4, <1>6 DEF LiveTokens
  <2>3. ASSUME NEW g \in Tokens PROVE FamilyTokens(g)' = IF g = f THEN {n} ELSE FamilyTokens(g)
    BY <1>3, <1>5, <1>6, <1>7, <2>2 DEF FamilyTokens, LiveTokens
  <2> QED BY <2>3
<1>9. [g \in Tokens |-> FamilyTokens(g)]' = [[g \in Tokens |-> FamilyTokens(g)] EXCEPT ![f] = {n}]
  BY <1>8
<1>10. {i \in Tokens : token[i] # Absent}' = {i \in Tokens : token[i] # Absent} \cup {n}
  BY <1>3, <1>4, <1>5
<1>11. Lifecycle!Rotate(f, n)
  BY <1>2, <1>3, <1>5, <1>7, <1>9, <1>10 DEF Lifecycle!Rotate
<1> QED BY <1>5, <1>11

LEMMA LifecycleStep ==
  ASSUME FamilyInv, FamilyInv', [Next]_vars
  PROVE  Lifecycle!Next
<1>1. TypeInv /\ TypeInv'
  BY DEF FamilyInv
<1>2. ASSUME NEW r \in TokenRequests, Exchange(r) PROVE Lifecycle!Next
  BY <1>1, <1>2, RedeemStep DEF Lifecycle!Next
<1>3. ASSUME NEW r \in TokenRequests, Rotate(r) PROVE Lifecycle!Next
  BY <1>1, <1>3, RotateStep DEF Lifecycle!Next
<1>4. ASSUME NEW r \in AuthorizeRequests, AuthorizeCommit(r) PROVE Lifecycle!Next
  BY <1>1, <1>4, ApproveStep DEF Lifecycle!Next
<1>5. CASE TokensOnlyEnd /\ CodesOnlyEnd
  BY <1>5, WithdrawStep DEF Lifecycle!Next
<1> QED BY <1>1, <1>2, <1>3, <1>4, <1>5, TokenSteps, CodeSteps

\* The grant store keeps the promises of GrantLifecycle, whatever requests,
\* administrators, deadlocks and restarts interleave.
THEOREM Implementation == Spec => ImplementsGrantLifecycle
<1>1. Init => Lifecycle!Init
  BY LifecycleInit
<1>2. FamilyInv /\ FamilyInv' /\ [Next]_vars => [Lifecycle!Next]_(Lifecycle!vars)
  BY LifecycleStep
<1> QED BY <1>1, <1>2, FamilyInit, FamilyStep, PTL DEF Spec, Lifecycle!Spec, ImplementsGrantLifecycle
=============================================================================
