------------------------- MODULE OAuthGrantAdmission -------------------------
(***************************************************************************)
(* Which clients and whose admission the live tokens stand for: the        *)
(* client's current secret, a user the client admits, an owner who stays   *)
(* admitted.                                                               *)
(*                                                                         *)
(* All three rest on the row lock of the client.  A token request keeps    *)
(* the lock from the check of the secret to its last statement, assigning  *)
(* and unassigning keep it from their snapshot to their commit, and a      *)
(* change of the client needs it: what one of them has read under the lock *)
(* is still true when it writes.                                           *)
(*                                                                         *)
(* The last part is about the rows an account leaves when it is deleted.   *)
(***************************************************************************)
EXTENDS OAuthGrantAccess

-----------------------------------------------------------------------------
(* Which steps change clients and assignments, take and keep locks.        *)

\* Clients and assignments change by a commit of assign or unassign, by the
\* administration of clients, by AdminDeleteUser and by a start.
LEMMA ClientSteps ==
  ASSUME [Next]_vars
  PROVE  \/ UNCHANGED <<client, assign>>
         \/ \E r \in RevokeRequests : CutCommit(r)
         \/ \E c \in Clients : ClientAdmin(c)
         \/ \E u \in Users : AdminDeleteUserCommit(u)
         \/ Restart
<1>1. ASSUME NEW r \in AccountRequests, AccountRequest(r) \/ AccountStep(r)
      PROVE  UNCHANGED <<client, assign>>
  BY <1>1
  DEF AccountRequest, AccountStep, LoginStart, ChangePasswordStart, LoginCommit,
      ChangePasswordCommit, AccountRefused, stores
<1>2. ASSUME NEW r \in AuthorizeRequests, AuthorizeRequest(r) \/ AuthorizeStep(r)
      PROVE  UNCHANGED <<client, assign>>
  <2>1. AuthorizeRequest(r) => UNCHANGED <<client, assign>>
    BY DEF AuthorizeRequest, AuthorizeCheck
  <2>2. AuthorizeStep(r) => UNCHANGED <<client, assign>>
    BY DEF AuthorizeStep, AuthorizeCommit, AuthorizeRefused, stores
  <2> QED BY <1>2, <2>1, <2>2
<1>3. ASSUME NEW r \in TokenRequests, TokenRequest(r) \/ TokenStep(r)
      PROVE  UNCHANGED <<client, assign>>
  BY <1>3
  DEF TokenRequest, TokenStep, ExchangeStart, RotateStart, LockClient, LockClientRefused,
      Exchange, Rotate, RefreshReuse, TokenRefused, stores
<1>4. ASSUME NEW r \in RevokeRequests, RevokeRequest(r) \/ RevokeStep(r), ~CutCommit(r)
      PROVE  UNCHANGED <<client, assign>>
  BY <1>4
  DEF RevokeRequest, RevokeStep, RevokeConnectionStart, AssignStart, UnassignStart, StartCut,
      RevokeEndpointStart, BearerStart, AssignWrite, AssignRefused, CutTokens,
      CutAborted, RevokeEndpointCommit, BearerDecide, BearerRevoke, stores
<1>5. ASSUME NEW u \in Users, AccountAdmin(u) \/ RemovalStep(u), ~AdminDeleteUserCommit(u)
      PROVE  UNCHANGED <<client, assign>>
  BY <1>5
  DEF AccountAdmin, RemovalStep, ConfirmPasswordReset, AdminUpdateStatus, AdminUpdateRole,
      AdminDeleteUserStart, AdminDeleteUserAborted, stores
<1>6. ASSUME Clock \/ UNCHANGED vars PROVE UNCHANGED <<client, assign>>
  BY <1>6 DEF Clock, Logout, ExpireCode, vars, stores
<1> QED BY <1>1, <1>2, <1>3, <1>4, <1>5, <1>6, AdminAssumption DEF Next

\* A token request is answered, goes on, takes the client's lock or starts.
LEMMA GrantSteps ==
  ASSUME TypeInv, [Next]_vars, NEW r \in TokenRequests, grant'[r] # Idle
  PROVE  \/ grant'[r] = grant[r]
         \/ LockClient(r) /\ grant'[r] = [grant[r] EXCEPT !.pc = "locked"]
         \/ \E valid \in BOOLEAN :
              \/ \E k \in Codes : ExchangeStart(r, k, valid)
              \/ \E t \in Tokens : RotateStart(r, t, valid)
<1>1. UNCHANGED grant => grant'[r] = grant[r]
  OBVIOUS
<1>2. ASSUME NEW q \in TokenRequests, grant' = [grant EXCEPT ![q] = Idle]
      PROVE  grant'[r] = grant[r]
  BY <1>2 DEF TypeInv, TypeOK
<1>3. ASSUME NEW q \in TokenRequests, TokenRequest(q)
      PROVE  grant'[r] = grant[r] \/ TokenRequest(r)
  BY <1>3 DEF TokenRequest, ExchangeStart, RotateStart, TypeInv, TypeOK
<1>4. ASSUME NEW q \in TokenRequests, LockClient(q)
      PROVE  \/ grant'[r] = grant[r]
             \/ LockClient(r) /\ grant'[r] = [grant[r] EXCEPT !.pc = "locked"]
  BY <1>4 DEF LockClient, TypeInv, TypeOK
<1>5. ASSUME NEW q \in TokenRequests, TokenStep(q), ~LockClient(q)
      PROVE  grant'[r] = grant[r]
  BY <1>2, <1>5 DEF TokenStep, LockClientRefused, Exchange, Rotate, RefreshReuse, TokenRefused
<1>6. ASSUME NEW q \in AccountRequests, AccountRequest(q) \/ AccountStep(q) PROVE UNCHANGED grant
  BY <1>6
  DEF AccountRequest, AccountStep, LoginStart, ChangePasswordStart, LoginCommit,
      ChangePasswordCommit, AccountRefused
<1>7. ASSUME NEW q \in AuthorizeRequests, AuthorizeRequest(q) \/ AuthorizeStep(q)
      PROVE  UNCHANGED grant
  <2>1. AuthorizeRequest(q) => UNCHANGED grant
    BY DEF AuthorizeRequest, AuthorizeCheck
  <2>2. AuthorizeStep(q) => UNCHANGED grant
    BY DEF AuthorizeStep, AuthorizeCommit, AuthorizeRefused
  <2> QED BY <1>7, <2>1, <2>2
<1>8. ASSUME NEW q \in RevokeRequests, RevokeRequest(q) \/ RevokeStep(q) PROVE UNCHANGED grant
  BY <1>8
  DEF RevokeRequest, RevokeStep, RevokeConnectionStart, AssignStart, UnassignStart, StartCut,
      RevokeEndpointStart, BearerStart, AssignWrite, AssignRefused, CutTokens,
      CutCommit, CutAborted, RevokeEndpointCommit, BearerDecide, BearerRevoke
<1>9. ASSUME NEW u \in Users, AccountAdmin(u) \/ RemovalStep(u) PROVE UNCHANGED grant
  BY <1>9
  DEF AccountAdmin, RemovalStep, ConfirmPasswordReset, AdminUpdateStatus, AdminUpdateRole,
      AdminDeleteUserStart, AdminDeleteUserCommit, AdminDeleteUserAborted, requests
<1>10. ASSUME NEW c \in Clients, ClientAdmin(c) PROVE UNCHANGED grant
  BY <1>10
  DEF ClientAdmin, CreateClient, UpdateClient, RegenerateClientSecret, DeleteClient, requests
<1>11. ASSUME Clock \/ UNCHANGED vars PROVE UNCHANGED grant
  BY <1>11 DEF Clock, Logout, ExpireCode, vars, requests
<1>12. ~Restart
  BY DEF Restart
<1> QED BY <1>1, <1>3, <1>4, <1>5, <1>6, <1>7, <1>8, <1>9, <1>10, <1>11, <1>12, AdminAssumption
        DEF Next, TokenRequest

\* A token request that holds the client's lock after a step held it before
\* or takes it in this step.
LEMMA LockedGrant ==
  ASSUME TypeInv, [Next]_vars, NEW r \in TokenRequests, grant'[r].pc = "locked"
  PROVE  \/ grant'[r] = grant[r]
         \/ LockClient(r) /\ grant'[r] = [grant[r] EXCEPT !.pc = "locked"]
<1>1. grant'[r] # Idle
  BY DEF Idle
<1>2. ASSUME NEW valid, NEW k, ExchangeStart(r, k, valid) \/ RotateStart(r, k, valid)
      PROVE  FALSE
  BY <1>2 DEF ExchangeStart, RotateStart, TypeInv, TypeOK
<1> QED BY <1>1, <1>2, GrantSteps

\* Only its own steps change a revocation in flight, and a crash ends it.
LEMMA CutSteps ==
  ASSUME TypeInv, [Next]_vars, NEW q \in RevokeRequests
  PROVE  cut'[q] = cut[q] \/ cut'[q] = Idle \/ RevokeRequest(q) \/ RevokeStep(q)
<1>1. ASSUME NEW r \in RevokeRequests, r # q, RevokeRequest(r) \/ RevokeStep(r)
      PROVE  cut'[q] = cut[q]
  BY <1>1
  DEF RevokeRequest, RevokeStep, RevokeConnectionStart, AssignStart, UnassignStart, StartCut,
      RevokeEndpointStart, BearerStart, AssignWrite, AssignRefused, CutTokens, CutCommit,
      CutAborted, RevokeEndpointCommit, BearerDecide, BearerRevoke, TypeInv, TypeOK
<1>2. ASSUME NEW r \in AccountRequests, AccountRequest(r) \/ AccountStep(r) PROVE UNCHANGED cut
  BY <1>2
  DEF AccountRequest, AccountStep, LoginStart, ChangePasswordStart, LoginCommit,
      ChangePasswordCommit, AccountRefused
<1>3. ASSUME NEW r \in AuthorizeRequests, AuthorizeRequest(r) \/ AuthorizeStep(r)
      PROVE  UNCHANGED cut
  <2>1. AuthorizeRequest(r) => UNCHANGED cut
    BY DEF AuthorizeRequest, AuthorizeCheck
  <2>2. AuthorizeStep(r) => UNCHANGED cut
    BY DEF AuthorizeStep, AuthorizeCommit, AuthorizeRefused
  <2> QED BY <1>3, <2>1, <2>2
<1>4. ASSUME NEW r \in TokenRequests, TokenRequest(r) \/ TokenStep(r) PROVE UNCHANGED cut
  BY <1>4
  DEF TokenRequest, TokenStep, ExchangeStart, RotateStart, LockClient, LockClientRefused,
      Exchange, Rotate, RefreshReuse, TokenRefused
<1>5. ASSUME NEW u \in Users, AccountAdmin(u) \/ RemovalStep(u) PROVE UNCHANGED cut
  BY <1>5
  DEF AccountAdmin, RemovalStep, ConfirmPasswordReset, AdminUpdateStatus, AdminUpdateRole,
      AdminDeleteUserStart, AdminDeleteUserCommit, AdminDeleteUserAborted, requests
<1>6. ASSUME NEW c \in Clients, ClientAdmin(c) PROVE UNCHANGED cut
  BY <1>6
  DEF ClientAdmin, CreateClient, UpdateClient, RegenerateClientSecret, DeleteClient, requests
<1>7. ASSUME Clock \/ UNCHANGED vars PROVE UNCHANGED cut
  BY <1>7 DEF Clock, Logout, ExpireCode, vars, requests
<1>8. Restart => cut'[q] = Idle
  BY DEF Restart
<1> QED BY <1>1, <1>2, <1>3, <1>4, <1>5, <1>6, <1>7, <1>8, AdminAssumption DEF Next

SameCut(q) ==
  /\ cut'[q].kind = cut[q].kind
  /\ cut'[q].client = cut[q].client /\ cut'[q].user = cut[q].user

\* Steps of a request that holds the client's lock when they are done: it ends
\* in no other step than its own, and a step that does not lock it lets it go.
LEMMA CutStepKinds ==
  ASSUME TypeInv, [Next]_vars, NEW q \in RevokeRequests, LocksClient(q)'
  PROVE  \/ cut'[q] = cut[q]
         \/ AssignWrite(q) \/ CutTokens(q)
         \/ \E c \in Clients, u \in Users :
              \/ AssignStart(q, c, u)
              \/ UnassignStart(q, c, u) \/ RevokeConnectionStart(q, c, u)
<1>1. cut'[q].pc \in {"assign", "tokens", "codes"}
  BY DEF LocksClient, AssignmentWritten
<1>2. cut'[q] # Idle
  BY <1>1 DEF Idle
<1>3. ASSUME RevokeStep(q), ~AssignWrite(q), ~CutTokens(q) PROVE FALSE
  <2>1. ASSUME cut' = [cut EXCEPT ![q] = Idle] PROVE FALSE
    BY <1>2, <2>1 DEF TypeInv, TypeOK
  <2>2. ~BearerDecide(q)
    <3>1. SUFFICES ASSUME BearerDecide(q) PROVE FALSE
      OBVIOUS
    <3>2. cut[q] \in BearerReq
      BY <3>1, CutShape DEF BearerDecide, TypeInv
    <3>3. cut'[q].pc \in {"denyToken", "denyUser", "idle"}
      BY <3>1, <3>2 DEF BearerDecide, BearerReq, Idle, TypeInv, TypeOK
    <3> QED BY <1>1, <3>3
  <2> QED BY <1>3, <2>1, <2>2
          DEF RevokeStep, AssignRefused, CutCommit, CutAborted, RevokeEndpointCommit, BearerRevoke
<1>4. ASSUME NEW t \in Tokens, RevokeEndpointStart(q, t) \/ BearerStart(q, t) PROVE FALSE
  BY <1>1, <1>4 DEF RevokeEndpointStart, BearerStart, TypeInv, TypeOK
<1> QED BY <1>2, <1>3, <1>4, CutSteps DEF RevokeRequest

\* What the starts and the write store about the request.
LEMMA CutStarts ==
  ASSUME TypeInv, NEW q \in RevokeRequests, NEW c, NEW u, NEW kind, StartCut(q, kind, c, u)
  PROVE  /\ cut'[q].pc = "tokens" /\ cut'[q].kind = kind
         /\ cut'[q].client = c /\ cut'[q].user = u
         /\ cut'[q].tokens = GrantTokens(c, u)
         /\ UNCHANGED <<stores, grant, removal>>
  BY DEF StartCut, TypeInv, TypeOK

LEMMA AssignStarts ==
  ASSUME TypeInv, NEW q \in RevokeRequests, NEW c, NEW u, AssignStart(q, c, u)
  PROVE  /\ cut'[q].pc = "assign" /\ cut'[q].kind = "assign"
         /\ cut'[q].client = c /\ cut'[q].user = u
         /\ UNCHANGED <<stores, grant, removal>>
  BY DEF AssignStart, TypeInv, TypeOK

LEMMA AssignWrites ==
  ASSUME TypeInv, NEW q \in RevokeRequests, AssignWrite(q)
  PROVE  /\ cut[q].pc = "assign" /\ cut[q].client \in Clients /\ cut[q].user \in Users
         /\ SameCut(q)
         /\ cut'[q].tokens = GrantTokens(cut[q].client, cut[q].user)
         /\ UNCHANGED <<stores, grant, removal>>
<1>1. cut[q] \in AssignReq
  BY CutShape DEF AssignWrite, TypeInv
<1>2. /\ cut[q].kind = "assign" /\ cut[q].client \in Clients /\ cut[q].user \in Users
  BY <1>1 DEF AssignReq
<1>3. /\ cut'[q].kind = "assign" /\ cut'[q].client = cut[q].client /\ cut'[q].user = cut[q].user
      /\ cut'[q].tokens = GrantTokens(cut[q].client, cut[q].user)
  BY DEF AssignWrite, TypeInv, TypeOK
<1> QED BY <1>2, <1>3 DEF AssignWrite, SameCut

LEMMA TokensCut ==
  ASSUME TypeInv, NEW q \in RevokeRequests, CutTokens(q)
  PROVE  /\ cut[q].pc = "tokens" /\ cut'[q].pc = "codes"
         /\ SameCut(q) /\ cut'[q].tokens = cut[q].tokens
<1>1. cut'[q] = [cut[q] EXCEPT !.pc = "codes",
                   !.codes = UserCodes(cut[q].user) \cap ClientCodes(cut[q].client)]
  BY DEF CutTokens, TypeInv, TypeOK
<1>2. cut[q] \in CutReq /\ cut[q].pc = "tokens"
  BY CutShape DEF CutTokens, TypeInv
<1>3. DOMAIN cut[q] = {"pc", "kind", "client", "user", "tokens", "codes"}
  BY <1>2 DEF CutReq
<1>4. /\ cut'[q].pc = "codes" /\ cut'[q].tokens = cut[q].tokens
      /\ cut'[q].kind = cut[q].kind
  BY <1>1, <1>3
<1>5. cut'[q].client = cut[q].client /\ cut'[q].user = cut[q].user
  BY <1>1, <1>3
<1> QED BY <1>2, <1>4, <1>5 DEF SameCut

\* Assigning and unassigning take the client's lock when they start and keep it.
LEMMA LockedCut ==
  ASSUME TypeInv, [Next]_vars, NEW q \in RevokeRequests, LocksClient(q)'
  PROVE  \/ LocksClient(q) /\ SameCut(q)
         \/ \E c \in Clients, u \in Users :
              /\ AssignStart(q, c, u) \/ UnassignStart(q, c, u)
              /\ cut'[q].kind = "unassign" => UnassignStart(q, c, u)
              /\ cut'[q].client = c /\ cut'[q].user = u
              /\ UNCHANGED <<stores, grant, removal>>
<1> DEFINE Kept == LocksClient(q) /\ SameCut(q)
<1>1. cut'[q] = cut[q] => Kept
  BY DEF LocksClient, AssignmentWritten, SameCut
<1>2. AssignWrite(q) => Kept
  BY AssignWrites DEF LocksClient
<1>3. CutTokens(q) => Kept
  <2>1. CutTokens(q) => SameCut(q) /\ cut[q].pc = "tokens" /\ cut'[q].pc = "codes"
    BY TokensCut
  <2>2. cut'[q].pc = "codes" => cut'[q].kind # "disconnect"
    BY DEF LocksClient, AssignmentWritten
  <2> QED BY <2>1, <2>2 DEF LocksClient, AssignmentWritten, SameCut
<1>4. ASSUME NEW c \in Clients, NEW u \in Users, RevokeConnectionStart(q, c, u) PROVE FALSE
  <2>1. cut'[q].pc = "tokens" /\ cut'[q].kind = "disconnect"
    BY <1>4, CutStarts DEF RevokeConnectionStart
  <2> QED BY <2>1 DEF LocksClient, AssignmentWritten
<1>5. ASSUME NEW c \in Clients, NEW u \in Users, AssignStart(q, c, u)
      PROVE  /\ cut'[q].kind = "assign" /\ cut'[q].client = c /\ cut'[q].user = u
             /\ UNCHANGED <<stores, grant, removal>>
  BY <1>5, AssignStarts
<1>6. ASSUME NEW c \in Clients, NEW u \in Users, UnassignStart(q, c, u)
      PROVE  /\ cut'[q].client = c /\ cut'[q].user = u
             /\ UNCHANGED <<stores, grant, removal>>
  BY <1>6, CutStarts DEF UnassignStart
<1> QED BY <1>1, <1>2, <1>3, <1>4, <1>5, <1>6, CutStepKinds

\* Their snapshot of the tokens is taken under the client's lock, by the step
\* that writes the assignment, and kept.
LEMMA WrittenCut ==
  ASSUME TypeInv, [Next]_vars, NEW q \in RevokeRequests, AssignmentWritten(q)'
  PROVE  \/ AssignmentWritten(q) /\ SameCut(q) /\ cut'[q].tokens = cut[q].tokens
         \/ \E c \in Clients, u \in Users :
              /\ AssignWrite(q) \/ UnassignStart(q, c, u)
              /\ cut'[q].client = c /\ cut'[q].user = u
              /\ cut'[q].tokens = GrantTokens(c, u)
              /\ UNCHANGED <<stores, grant, removal>>
<1> DEFINE Kept == AssignmentWritten(q) /\ SameCut(q) /\ cut'[q].tokens = cut[q].tokens
<1>1. cut'[q] = cut[q] => Kept
  BY DEF AssignmentWritten, SameCut
<1>2. ASSUME AssignWrite(q)
      PROVE  /\ cut[q].client \in Clients /\ cut[q].user \in Users
             /\ cut'[q].client = cut[q].client /\ cut'[q].user = cut[q].user
             /\ cut'[q].tokens = GrantTokens(cut[q].client, cut[q].user)
             /\ UNCHANGED <<stores, grant, removal>>
  BY <1>2, AssignWrites DEF SameCut
<1>3. CutTokens(q) => Kept
  BY TokensCut DEF AssignmentWritten, SameCut
<1>4. ASSUME NEW c \in Clients, NEW u \in Users, RevokeConnectionStart(q, c, u) PROVE FALSE
  <2>1. cut'[q].kind = "disconnect"
    BY <1>4, CutStarts DEF RevokeConnectionStart
  <2> QED BY <2>1 DEF AssignmentWritten
<1>5. ASSUME NEW c \in Clients, NEW u \in Users, AssignStart(q, c, u) PROVE FALSE
  BY <1>5, AssignStarts DEF AssignmentWritten
<1>6. ASSUME NEW c \in Clients, NEW u \in Users, UnassignStart(q, c, u)
      PROVE  /\ cut'[q].client = c /\ cut'[q].user = u
             /\ cut'[q].tokens = GrantTokens(c, u)
             /\ UNCHANGED <<stores, grant, removal>>
  BY <1>6, CutStarts DEF UnassignStart
<1>7. AssignmentWritten(q)' => LocksClient(q)'
  BY DEF LocksClient
<1> QED BY <1>1, <1>2, <1>3, <1>4, <1>5, <1>6, <1>7, CutStepKinds

\* A locked client stays as it is.
LEMMA LockedClientStays ==
  ASSUME TypeInv, [Next]_vars, NEW c \in Clients, ClientLocked(c), client[c] # Absent
  PROVE  client'[c] = client[c]
<1>1. ASSUME NEW d \in Clients, ClientAdmin(d) PROVE client'[c] = client[c]
  BY <1>1
  DEF ClientAdmin, CreateClient, UpdateClient, RegenerateClientSecret, DeleteClient, TypeInv, TypeOK
<1>2. ASSUME NEW u \in Users, AdminDeleteUserCommit(u) PROVE client'[c] = client[c]
  BY <1>2 DEF AdminDeleteUserCommit
<1> QED BY <1>1, <1>2, ClientSteps DEF CutCommit, Restart
-----------------------------------------------------------------------------
(* The client's row lock.                                                  *)

\* One request at a time: a token request holds a client that no assignment
\* holds.
LockExclusive ==
  \A r \in TokenRequests, q \in RevokeRequests :
    grant[r].pc = "locked" /\ LocksClient(q) => grant[r].client # cut[q].client

LEMMA LockedKeepsClient ==
  ASSUME TypeInv, NEW r \in TokenRequests, grant[r].pc \in {"presented", "locked"}
  PROVE  [grant[r] EXCEPT !.pc = "locked"].client = grant[r].client
  BY DEF TypeInv, TypeOK, ExchangeReq, RefreshReq, Idle

LEMMA LockExclusiveStep ==
  ASSUME TypeInv, LockExclusive, [Next]_vars
  PROVE  LockExclusive'
<1> SUFFICES ASSUME NEW r \in TokenRequests, NEW q \in RevokeRequests,
                    grant'[r].pc = "locked", LocksClient(q)'
             PROVE  grant'[r].client # cut'[q].client
  BY DEF LockExclusive
<1>1. CASE grant'[r] = grant[r] /\ LocksClient(q) /\ SameCut(q)
  BY <1>1 DEF LockExclusive, SameCut
<1>2. ASSUME LockClient(r), grant'[r] = [grant[r] EXCEPT !.pc = "locked"]
      PROVE  grant'[r].client # cut'[q].client
  <2>1. grant'[r].client = grant[r].client
    BY <1>2, LockedKeepsClient DEF LockClient
  <2>2. LocksClient(q) /\ cut'[q] = cut[q]
    BY <1>2 DEF LockClient, LocksClient, AssignmentWritten
  <2>3. cut[q].client # grant[r].client
    BY <1>2, <2>2 DEF LockClient, ClientLocked
  <2> QED BY <2>1, <2>2, <2>3
<1>3. ASSUME NEW c \in Clients, NEW u \in Users,
             AssignStart(q, c, u) \/ UnassignStart(q, c, u),
             cut'[q].client = c, UNCHANGED grant
      PROVE  grant'[r].client # cut'[q].client
  BY <1>3 DEF AssignStart, UnassignStart, ClientLocked
<1> QED BY <1>1, <1>2, <1>3, LockedGrant, LockedCut

-----------------------------------------------------------------------------
(* What a token request presents, and the secret it was let in with.       *)

\* The row a request presents was stored; as long as it is, it belongs to
\* the client of the request.
RowOfClient(req) ==
  /\ req.kind = "code" =>
       /\ code[req.code] # Absent
       /\ req.code \in StoredCodes => code[req.code].client = req.client
  /\ req.kind = "refresh" =>
       /\ token[req.token] # Absent
       /\ token[req.token] \in TokenRow => token[req.token].client = req.client
PresentedKnown == \A r \in TokenRequests : grant[r] # Idle => RowOfClient(grant[r])

\* The check of lockAndVerifyOAuthClient holds until the lock is released.
LockedAuthentic ==
  \A r \in TokenRequests : grant[r].pc = "locked" => ClientAuthentic(r)

LEMMA CodesStay ==
  ASSUME TypeInv, [Next]_vars, NEW k \in Codes, code[k] # Absent
  PROVE  /\ code'[k] # Absent
         /\ k \in StoredCodes' => k \in StoredCodes /\ code'[k].client = code[k].client
<1>1. CASE CodesOnlyEnd
  BY <1>1, CodesKeep DEF SameGrant
<1>2. ASSUME NEW r \in AuthorizeRequests, AuthorizeCommit(r) PROVE code'[k] = code[k]
  BY <1>2, AuthorizeEffect
<1> QED BY <1>1, <1>2, CodeSteps DEF StoredCodes

LEMMA TokensStay ==
  ASSUME TypeInv, [Next]_vars, NEW t \in Tokens, token[t] # Absent
  PROVE  /\ token'[t] # Absent
         /\ token'[t] \in TokenRow =>
              /\ token[t] \in TokenRow
              /\ token'[t].client = token[t].client /\ token'[t].user = token[t].user
<1>1. CASE token'[t] = token[t]
  BY <1>1
<1>2. CASE token[t] \in TokenRow /\ token'[t] = [token[t] EXCEPT !.st = "revoked"]
  BY <1>2 DEF TokenRow, Absent
<1>3. CASE token'[t] = Gone
  BY <1>3 DEF TokenRow, Gone, Absent
<1>4. TokensOnlyEnd =>
        \/ token'[t] = token[t]
        \/ token[t] \in TokenRow /\ token'[t] = [token[t] EXCEPT !.st = "revoked"]
        \/ token'[t] = Gone
  BY LiveRows DEF TokensOnlyEnd, TypeInv
<1>5. ASSUME NEW r \in TokenRequests, Exchange(r) PROVE token'[t] = token[t]
  BY <1>5, ExchangeEffect
<1>6. ASSUME NEW r \in TokenRequests, Rotate(r)
      PROVE  \/ token'[t] = token[t]
             \/ token[t] \in TokenRow /\ token'[t] = [token[t] EXCEPT !.st = "revoked"]
  <2>1. token[grant[r].token] \in TokenRow
    BY <1>6, RotateEffect, LiveRows DEF TypeInv
  <2> QED BY <1>6, <2>1, RotateEffect
<1> QED BY <1>1, <1>2, <1>3, <1>4, <1>5, <1>6, TokenSteps

LEMMA PresentedStep ==
  ASSUME TypeInv, PresentedKnown, [Next]_vars
  PROVE  PresentedKnown'
<1> SUFFICES ASSUME NEW r \in TokenRequests, NEW next, next = grant'[r], next # Idle
             PROVE  RowOfClient(next)'
  BY DEF PresentedKnown, RowOfClient
<1>1. ASSUME grant[r] # Idle, NEW req, req \in {grant[r], [grant[r] EXCEPT !.pc = "locked"]}
      PROVE  RowOfClient(req)'
  <2>1. grant[r] \in ExchangeReq \/ grant[r] \in RefreshReq
    BY <1>1 DEF TypeInv, TypeOK
  <2>2. CASE grant[r] \in ExchangeReq
    <3>1. req.kind = "code" /\ req.code = grant[r].code /\ req.client = grant[r].client
      BY <1>1, <2>2 DEF ExchangeReq
    <3>2. req.code \in Codes
      BY <2>2, <3>1 DEF ExchangeReq
    <3>3. /\ code[req.code] # Absent
          /\ req.code \in StoredCodes => code[req.code].client = req.client
      BY <1>1, <2>2, <3>1 DEF PresentedKnown, RowOfClient, ExchangeReq
    <3> QED BY <3>1, <3>2, <3>3, CodesStay DEF RowOfClient
  <2>3. CASE grant[r] \in RefreshReq
    <3>1. req.kind = "refresh" /\ req.token = grant[r].token /\ req.client = grant[r].client
      BY <1>1, <2>3 DEF RefreshReq
    <3>2. req.token \in Tokens
      BY <2>3, <3>1 DEF RefreshReq
    <3>3. /\ token[req.token] # Absent
          /\ token[req.token] \in TokenRow => token[req.token].client = req.client
      BY <1>1, <2>3, <3>1 DEF PresentedKnown, RowOfClient, RefreshReq
    <3> QED BY <3>1, <3>2, <3>3, TokensStay DEF RowOfClient
  <2> QED BY <2>1, <2>2, <2>3
<1>2. ASSUME NEW valid, NEW k \in Codes, ExchangeStart(r, k, valid) PROVE RowOfClient(next)'
  <2>1. /\ next.kind = "code" /\ next.code = k
        /\ next.client = code[k].client
    BY <1>2 DEF ExchangeStart, TypeInv, TypeOK
  <2>2. k \in StoredCodes /\ UNCHANGED code
    BY <1>2 DEF ExchangeStart, stores
  <2> QED BY <2>1, <2>2 DEF RowOfClient, StoredCodes, Absent
<1>3. ASSUME NEW valid, NEW t \in Tokens, RotateStart(r, t, valid) PROVE RowOfClient(next)'
  <2>1. /\ next.kind = "refresh" /\ next.token = t
        /\ next.client = token[t].client
    BY <1>3 DEF RotateStart, TypeInv, TypeOK
  <2>2. token[t].st \in {"live", "revoked"} /\ UNCHANGED token
    BY <1>3 DEF RotateStart, stores
  <2> QED BY <2>1, <2>2 DEF RowOfClient, Absent
<1>4. LockClient(r) => grant[r] # Idle
  BY DEF LockClient, Idle
<1> QED BY <1>1, <1>2, <1>3, <1>4, GrantSteps

LEMMA LockedAuthenticStep ==
  ASSUME TypeInv, LockedAuthentic, [Next]_vars
  PROVE  LockedAuthentic'
<1> SUFFICES ASSUME NEW r \in TokenRequests, grant'[r].pc = "locked"
             PROVE  /\ client'[grant'[r].client].st = "active"
                    /\ client'[grant'[r].client].secret = grant'[r].secret
  BY DEF LockedAuthentic, ClientAuthentic
<1>1. CASE grant'[r] = grant[r]
  <2> DEFINE c == grant[r].client
  <2>1. ClientAuthentic(r) /\ ClientLocked(c)
    BY <1>1 DEF LockedAuthentic, ClientLocked
  <2>2. c \in Clients
    BY <1>1 DEF TypeInv, TypeOK, ExchangeReq, RefreshReq, Idle
  <2>3. client'[c] = client[c]
    BY <2>1, <2>2, LockedClientStays DEF ClientAuthentic, Absent
  <2> QED BY <1>1, <2>1, <2>3 DEF ClientAuthentic
<1>2. ASSUME LockClient(r), grant'[r] = [grant[r] EXCEPT !.pc = "locked"]
      PROVE  /\ client'[grant'[r].client].st = "active"
             /\ client'[grant'[r].client].secret = grant'[r].secret
  <2>1. grant'[r].client = grant[r].client /\ grant'[r].secret = grant[r].secret
    BY <1>2 DEF LockClient, TypeInv, TypeOK, ExchangeReq, RefreshReq, Idle
  <2> QED BY <1>2, <2>1 DEF LockClient, ClientAuthentic, stores
<1> QED BY <1>1, <1>2, LockedGrant

\* A token that is live after a step was, or is issued in it: by a request
\* that holds the client's lock, to a user the client admits, under the
\* secret the request showed.
Issued(t) ==
  \E r \in TokenRequests :
    /\ grant[r].pc = "locked"
    /\ token'[t].client = grant[r].client /\ token'[t].secret = grant[r].secret
    /\ Access(token'[t].client, token'[t].user)
    /\ UNCHANGED <<user, client, assign, cut, removal>>

LEMMA LiveTokenSteps ==
  ASSUME TypeInv, TypeInv', PresentedKnown, [Next]_vars, NEW t \in LiveTokens'
  PROVE  \/ t \in LiveTokens /\ token'[t] = token[t]
         \/ Issued(t)
<1>1. t \in Tokens /\ token'[t].st = "live"
  BY DEF LiveTokens
<1>2. CASE TokensOnlyEnd
  BY <1>1, <1>2, TokensKeep
<1>3. ASSUME NEW r \in TokenRequests, Exchange(r)
      PROVE  (t \in LiveTokens /\ token'[t] = token[t]) \/ Issued(t)
  <2> DEFINE k == grant[r].code
  <2>1. /\ grant[r].pc = "locked" /\ grant[r].kind = "code" /\ grant[r] # Idle
        /\ Access(grant[r].client, code[k].user)
        /\ UNCHANGED <<user, client, assign, cut, removal>>
    BY <1>3 DEF Exchange, Exchangeable, MayIssue, Idle
  <2>2. k \in StoredCodes
    BY <1>3, ExchangeEffect DEF StoredCodes
  <2>3. code[k].client = grant[r].client
    BY <2>1, <2>2 DEF PresentedKnown, RowOfClient
  <2>4. PICK n \in Tokens :
          /\ \A i \in Tokens \ {n} : token'[i] = token[i]
          /\ token'[n].user = code[k].user /\ token'[n].client = code[k].client
          /\ token'[n].secret = grant[r].secret
    BY <1>3, ExchangeEffect
  <2>5. CASE t = n
    BY <2>1, <2>3, <2>4, <2>5 DEF Issued
  <2>6. CASE t # n
    BY <1>1, <2>4, <2>6 DEF LiveTokens
  <2> QED BY <2>5, <2>6
<1>4. ASSUME NEW r \in TokenRequests, Rotate(r)
      PROVE  (t \in LiveTokens /\ token'[t] = token[t]) \/ Issued(t)
  <2> DEFINE p == grant[r].token
  <2>1. /\ grant[r].pc = "locked" /\ grant[r].kind = "refresh" /\ grant[r] # Idle
        /\ Access(grant[r].client, token[p].user)
        /\ UNCHANGED <<user, client, assign, cut, removal>>
    BY <1>4 DEF Rotate, Rotatable, MayIssue, Idle
  <2>2. p \in LiveTokens /\ token[p] \in TokenRow
    BY <1>4, RotateEffect, LiveRows DEF TypeInv
  <2>3. token[p].client = grant[r].client
    BY <2>1, <2>2 DEF PresentedKnown, RowOfClient
  <2>4. PICK n \in Tokens :
          /\ \A i \in Tokens \ {p, n} : token'[i] = token[i]
          /\ token'[p] = [token[p] EXCEPT !.st = "revoked"]
          /\ token'[n].user = token[p].user /\ token'[n].client = token[p].client
          /\ token'[n].secret = grant[r].secret
    BY <1>4, RotateEffect
  <2>5. token'[p].st # "live"
    BY <2>2, <2>4 DEF TokenRow
  <2>6. CASE t = n
    BY <2>1, <2>3, <2>4, <2>6 DEF Issued
  <2>7. CASE t # n
    BY <1>1, <2>4, <2>5, <2>7 DEF LiveTokens
  <2> QED BY <2>6, <2>7
<1> QED BY <1>2, <1>3, <1>4, TokenSteps

-----------------------------------------------------------------------------
(* The client's secret.                                                    *)

LiveClientKnown == \A t \in LiveTokens : client[token[t].client] # Absent
SecretInv ==
  /\ TypeInv /\ PresentedKnown /\ LockedAuthentic
  /\ LiveClientKnown /\ LiveTokenHasCurrentSecret

\* Revoking a client's tokens leaves the other clients' as they are.
LEMMA ClientPurged ==
  ASSUME TypeInv, NEW c, RevokeTokens(ClientTokens(c)), NEW t \in LiveTokens'
  PROVE  t \in LiveTokens /\ token'[t] = token[t] /\ token[t].client # c
<1>1. t \in Tokens /\ token'[t].st = "live"
  BY DEF LiveTokens
<1>2. t \in ClientTokens(c) => token'[t].st # "live"
  BY <1>1, LiveRows DEF RevokeTokens, ClientTokens, TypeInv, TokenRow
<1>3. t \notin ClientTokens(c) => token'[t] = token[t]
  BY <1>1 DEF RevokeTokens
<1> QED BY <1>1, <1>2, <1>3 DEF ClientTokens, LiveTokens

\* A stored client keeps its owner, and its secret but for a new one.
LEMMA ClientKeeps ==
  ASSUME TypeInv, [Next]_vars, NEW c \in Clients, client[c] # Absent
  PROVE  /\ client'[c] # Absent
         /\ client'[c].owner = client[c].owner
         /\ ~RegenerateClientSecret(c) => client'[c].secret = client[c].secret
<1> DEFINE Keeps == /\ client'[c] # Absent
                    /\ client'[c].owner = client[c].owner
                    /\ client'[c].secret = client[c].secret
<1>1. client[c] \in ClientRow
  BY DEF TypeInv, TypeOK
<1>2. client'[c] = client[c] => Keeps
  OBVIOUS
<1>3. ASSUME NEW d \in Clients, NEW u, NEW policy, NEW uris, CreateClient(d, u, policy, uris)
      PROVE  Keeps
  BY <1>2, <1>3 DEF CreateClient, TypeInv, TypeOK
<1>4. ASSUME NEW d \in Clients, NEW policy, NEW uris, UpdateClient(d, policy, uris)
      PROVE  Keeps
  BY <1>1, <1>4 DEF UpdateClient, TypeInv, TypeOK, ClientRow, Absent
<1>5. ASSUME NEW d \in Clients, DeleteClient(d) PROVE Keeps
  BY <1>1, <1>5 DEF DeleteClient, TypeInv, TypeOK, ClientRow, Absent
<1>6. ASSUME NEW u \in Users, AdminDeleteUserCommit(u) PROVE Keeps
  BY <1>1, <1>6 DEF AdminDeleteUserCommit, TypeInv, TypeOK, ClientRow, Absent
<1>7. ASSUME NEW d \in Clients, RegenerateClientSecret(d)
      PROVE  /\ client'[c] # Absent /\ client'[c].owner = client[c].owner
             /\ c # d => Keeps
  BY <1>1, <1>7 DEF RegenerateClientSecret, TypeInv, TypeOK, ClientRow, Absent
<1>8. UNCHANGED client => Keeps
  BY <1>2
<1>9. (\E r \in RevokeRequests : CutCommit(r)) \/ Restart => Keeps
  BY <1>8 DEF CutCommit, Restart
<1>10. ASSUME NEW d \in Clients, ClientAdmin(d)
       PROVE  Keeps \/ RegenerateClientSecret(d)
  BY <1>3, <1>4, <1>5, <1>10 DEF ClientAdmin
<1>11. Keeps \/ \E d \in Clients : RegenerateClientSecret(d)
  BY <1>6, <1>8, <1>9, <1>10, ClientSteps
<1> HIDE DEF Keeps
<1>12. Keeps => /\ client'[c] # Absent /\ client'[c].owner = client[c].owner
                /\ client'[c].secret = client[c].secret
  BY DEF Keeps
<1> QED BY <1>7, <1>11, <1>12

LEMMA SecretStep == SecretInv /\ [Next]_vars => SecretInv'
<1> SUFFICES ASSUME SecretInv, [Next]_vars PROVE SecretInv'
  OBVIOUS
<1>1. /\ TypeInv /\ TypeInv' /\ PresentedKnown /\ LockedAuthentic
      /\ PresentedKnown' /\ LockedAuthentic'
  BY TypeStep, PresentedStep, LockedAuthenticStep DEF SecretInv
<1>2. ASSUME NEW t \in LiveTokens'
      PROVE  /\ client'[token'[t].client] # Absent
             /\ token'[t].secret = client'[token'[t].client].secret
  <2>1. CASE Issued(t)
    BY <1>1, <2>1 DEF Issued, LockedAuthentic, ClientAuthentic, Absent
  <2>2. CASE t \in LiveTokens /\ token'[t] = token[t]
    <3> DEFINE c == token[t].client
    <3>1. c \in Clients
      BY <1>1, <2>2, LiveRows DEF TypeInv, TokenRow
    <3>2. client[c] # Absent /\ token[t].secret = client[c].secret
      BY <2>2 DEF SecretInv, LiveClientKnown, LiveTokenHasCurrentSecret
    <3>3. ~RegenerateClientSecret(c)
      BY <1>1, ClientPurged DEF RegenerateClientSecret
    <3> QED BY <1>1, <2>2, <3>1, <3>2, <3>3, ClientKeeps
  <2> QED BY <1>1, <2>1, <2>2, LiveTokenSteps
<1> QED BY <1>1, <1>2 DEF SecretInv, LiveClientKnown, LiveTokenHasCurrentSecret

LEMMA SecretInit == Init => SecretInv
  BY InitType
  DEF Init, SecretInv, PresentedKnown, LockedAuthentic, LiveClientKnown,
      LiveTokenHasCurrentSecret, LiveTokens, Absent, Idle

\* No live token was issued under a client secret that has been replaced,
\* whatever token requests the old one had let in (RegenerateClientSecret).
THEOREM SecretSafe == Spec => []LiveTokenHasCurrentSecret
<1>1. SecretInv => LiveTokenHasCurrentSecret
  BY DEF SecretInv
<1> QED BY <1>1, SecretInit, SecretStep, PTL DEF Spec

-----------------------------------------------------------------------------
(* assign[c, u] is assign[<<c, u>>].                                       *)

ProtectedOwner(c) == client[c].st = "active" /\ client[c].policy = "assigned_only"

LEMMA OwnerForm ==
  /\ OwnerStaysAdmitted <=>
       \A c \in Clients : ProtectedOwner(c) => assign[<<c, client[c].owner>>] = "active"
  /\ OwnerStaysAdmitted' <=>
       \A c \in Clients : ProtectedOwner(c)' => assign'[<<c, client'[c].owner>>] = "active"
  BY Zenon DEF OwnerStaysAdmitted, ProtectedOwner

LEMMA AccessForm ==
  ASSUME NEW c, NEW u
  PROVE  /\ Access(c, u) <=>
              /\ client[c].st = "active"
              /\ assign[<<c, u>>] = "active" \/ client[c].policy = "all_active_users"
         /\ Access(c, u)' <=>
              /\ client'[c].st = "active"
              /\ assign'[<<c, u>>] = "active" \/ client'[c].policy = "all_active_users"
  BY Zenon DEF Access

-----------------------------------------------------------------------------
(* The owner's own admission.                                              *)

\* What AdminDeleteUser selected is all the user owns.
RemovalCoversClients ==
  \A u \in Users : removal[u] # Idle => OwnedClients(u) \subseteq removal[u].clients

\* Unassigning found the user not to be the owner the policy protects.
UnassignSparesOwner ==
  \A r \in RevokeRequests :
    LocksClient(r) => /\ client[cut[r].client] # Absent
                      /\ cut[r].kind = "unassign" =>
                           ~(/\ client[cut[r].client].policy = "assigned_only"
                             /\ client[cut[r].client].owner = cut[r].user)
OwnerInv ==
  /\ TypeInv /\ RemovalCoversClients /\ UnassignSparesOwner /\ OwnerStaysAdmitted

LEMMA OwnedClientsGrow ==
  ASSUME TypeInv, [Next]_vars, NEW u \in Users, UserLocked(u)
  PROVE  OwnedClients(u)' \subseteq OwnedClients(u)
<1> SUFFICES ASSUME NEW c \in Clients, client'[c] # Absent, client'[c].owner = u
             PROVE  client[c] # Absent /\ client[c].owner = u
  BY DEF OwnedClients
<1>1. CASE client[c] # Absent
  BY <1>1, ClientKeeps
<1>2. CASE client[c] = Absent
  <2>1. ~(client[c].st = "active")
    BY <1>2 DEF Absent
  <2>2. ASSUME NEW d \in Clients, ClientAdmin(d) PROVE FALSE
    <3>1. PICK v \in Users, policy \in Policies, uris \in SUBSET Redirects :
            CreateClient(d, v, policy, uris)
      BY <1>2, <2>1, <2>2
      DEF ClientAdmin, UpdateClient, RegenerateClientSecret, DeleteClient, TypeInv, TypeOK
    <3>2. c = d /\ client'[c].owner = v
      BY <1>2, <3>1 DEF CreateClient, TypeInv, TypeOK
    <3> QED BY <3>1, <3>2 DEF CreateClient
  <2>3. ASSUME NEW v \in Users, AdminDeleteUserCommit(v) PROVE FALSE
    BY <1>2, <2>3 DEF AdminDeleteUserCommit, TypeInv, RowsKnown
  <2> QED BY <1>2, <2>2, <2>3, ClientSteps DEF CutCommit, Restart
<1> QED BY <1>1, <1>2

LEMMA RemovalCoversClientsStep ==
  ASSUME TypeInv, RemovalCoversClients, [Next]_vars
  PROVE  RemovalCoversClients'
<1> SUFFICES ASSUME NEW u \in Users, removal'[u] # Idle
             PROVE  OwnedClients(u)' \subseteq removal'[u].clients
  BY DEF RemovalCoversClients
<1>1. CASE AdminDeleteUserStart(u)
  BY <1>1 DEF AdminDeleteUserStart, OwnedClients, stores, TypeInv, TypeOK
<1>2. CASE removal'[u] = removal[u]
  BY <1>2, OwnedClientsGrow DEF UserLocked, RemovalCoversClients
<1> QED BY <1>1, <1>2, RemovalSteps

LEMMA UnassignSparesOwnerStep ==
  ASSUME TypeInv, UnassignSparesOwner, [Next]_vars
  PROVE  UnassignSparesOwner'
<1> SUFFICES ASSUME NEW q \in RevokeRequests, LocksClient(q)'
             PROVE  /\ client'[cut'[q].client] # Absent
                    /\ cut'[q].kind = "unassign" =>
                         ~(/\ client'[cut'[q].client].policy = "assigned_only"
                           /\ client'[cut'[q].client].owner = cut'[q].user)
  BY DEF UnassignSparesOwner
<1>1. CASE LocksClient(q) /\ SameCut(q)
  <2> DEFINE c == cut[q].client
  <2>1. c \in Clients
    BY <1>1, CutShape DEF LocksClient, AssignmentWritten, CutReq, AssignReq, TypeInv
  <2>2. client[c] # Absent
    BY <1>1 DEF UnassignSparesOwner
  <2>3. client'[c] = client[c]
    BY <1>1, <2>1, <2>2, LockedClientStays DEF ClientLocked
  <2> QED BY <1>1, <2>3 DEF SameCut, UnassignSparesOwner
<1>2. ASSUME NEW c \in Clients, NEW u \in Users,
             AssignStart(q, c, u) \/ UnassignStart(q, c, u),
             cut'[q].kind = "unassign" => UnassignStart(q, c, u),
             cut'[q].client = c, cut'[q].user = u, UNCHANGED stores
      PROVE  /\ client'[cut'[q].client] # Absent
             /\ cut'[q].kind = "unassign" =>
                  ~(/\ client'[cut'[q].client].policy = "assigned_only"
                    /\ client'[cut'[q].client].owner = cut'[q].user)
  <2>1. client' = client /\ client[c].st = "active"
    BY <1>2 DEF stores, AssignStart, UnassignStart
  <2>2. client[c] # Absent
    BY <2>1 DEF Absent
  <2>3. cut'[q].kind = "unassign" => UnassignStart(q, c, u)
    BY <1>2
  <2> QED BY <1>2, <2>1, <2>2, <2>3 DEF UnassignStart
<1> QED BY <1>1, <1>2, LockedCut

LEMMA OwnerStep == OwnerInv /\ [Next]_vars => OwnerInv'
<1> SUFFICES ASSUME OwnerInv, [Next]_vars PROVE OwnerInv'
  OBVIOUS
<1>1. TypeInv /\ TypeInv' /\ RemovalCoversClients' /\ UnassignSparesOwner'
  BY TypeStep, RemovalCoversClientsStep, UnassignSparesOwnerStep DEF OwnerInv
<1>2. ASSUME NEW c \in Clients, client'[c].st = "active", client'[c].policy = "assigned_only"
      PROVE  assign'[<<c, client'[c].owner>>] = "active"
  <2> DEFINE own == <<c, client[c].owner>>
             Goal == assign'[<<c, client'[c].owner>>] = "active"
  <2>0. client'[c] = client[c] => own \in Pairs /\ assign[own] = "active"
    BY <1>1, <1>2, LiveRows, OwnerForm
    DEF OwnerInv, ProtectedOwner, TypeInv, TypeOK, ClientRow, Pairs
  <2>1. client'[c] = client[c] /\ assign'[own] = assign[own] => Goal
    BY <2>0
  <2>2. UNCHANGED <<client, assign>> => Goal
    BY <2>1
  <2>3. ASSUME NEW r \in RevokeRequests, CutCommit(r) PROVE Goal
    <3>1. client' = client /\ cut[r].pc = "codes"
      BY <2>3 DEF CutCommit
    <3>2. CASE cut[r].kind = "unassign"
      <4>1. ~(c = cut[r].client /\ client[c].owner = cut[r].user)
        BY <1>2, <3>1, <3>2 DEF OwnerInv, UnassignSparesOwner, LocksClient, AssignmentWritten
      <4>2. assign' = [assign EXCEPT ![<<cut[r].client, cut[r].user>>] = "deleted"]
        BY <2>3, <3>2 DEF CutCommit
      <4>3. assign'[own] = assign[own]
        BY <1>1, <2>0, <3>1, <4>1, <4>2 DEF TypeInv, TypeOK, Pairs
      <4> QED BY <2>1, <3>1, <4>3
    <3>3. CASE cut[r].kind # "unassign"
      <4>1. assign' \in {assign, [assign EXCEPT ![<<cut[r].client, cut[r].user>>] = "active"]}
        BY <2>3, <3>3 DEF CutCommit
      <4> QED BY <1>1, <2>0, <3>1, <4>1 DEF TypeInv, TypeOK, Pairs
    <3> QED BY <3>2, <3>3
  <2>4. ASSUME NEW d \in Clients, NEW u \in Users, NEW policy, NEW uris,
               CreateClient(d, u, policy, uris)
        PROVE  Goal
    <3>1. CASE c = d
      BY <1>1, <2>4, <3>1 DEF CreateClient, TypeInv, TypeOK, Pairs
    <3>2. CASE c # d
      BY <1>1, <2>0, <2>1, <2>4, <3>2 DEF CreateClient, TypeInv, TypeOK, Pairs
    <3> QED BY <3>1, <3>2
  <2>5. ASSUME NEW d \in Clients, NEW policy, NEW uris, UpdateClient(d, policy, uris)
        PROVE  Goal
    <3>0. client[d] \in ClientRow
      BY <1>1, <2>5, LiveRows DEF UpdateClient, TypeInv
    <3>1. CASE c = d
      <4>1. client'[c].policy = policy /\ client'[c].owner = client[c].owner
        BY <1>1, <2>5, <3>0, <3>1 DEF UpdateClient, TypeInv, TypeOK, ClientRow
      <4>2. assign' = [assign EXCEPT ![<<c, client[c].owner>>] = "active"]
        BY <1>2, <2>5, <3>1, <4>1 DEF UpdateClient
      <4> QED BY <1>1, <3>0, <3>1, <4>1, <4>2 DEF TypeInv, TypeOK, Pairs, ClientRow
    <3>2. CASE c # d
      <4>1. client'[c] = client[c]
        BY <1>1, <2>5, <3>2 DEF UpdateClient, TypeInv, TypeOK
      <4>2. assign' \in {assign, [assign EXCEPT ![<<d, client[d].owner>>] = "active"]}
        BY <2>5 DEF UpdateClient
      <4> QED BY <1>1, <2>0, <3>2, <4>1, <4>2 DEF TypeInv, TypeOK, Pairs
    <3> QED BY <3>1, <3>2
  <2>6. ASSUME NEW d \in Clients, RegenerateClientSecret(d) PROVE Goal
    <3>1. client[d] \in ClientRow
      BY <1>1, <2>6, LiveRows DEF RegenerateClientSecret, TypeInv
    <3>2. /\ client'[c].owner = client[c].owner /\ client'[c].st = client[c].st
          /\ client'[c].policy = client[c].policy
      BY <1>1, <2>6, <3>1 DEF RegenerateClientSecret, TypeInv, TypeOK, ClientRow
    <3> QED BY <1>2, <2>6, <3>2, OwnerForm DEF RegenerateClientSecret, OwnerInv, ProtectedOwner
  <2>7. ASSUME NEW d \in Clients, DeleteClient(d) PROVE Goal
    <3>1. client[d] \in ClientRow
      BY <1>1, <2>7, LiveRows DEF DeleteClient, TypeInv
    <3>2. c # d /\ client'[c] = client[c]
      BY <1>1, <1>2, <2>7, <3>1 DEF DeleteClient, TypeInv, TypeOK, ClientRow
    <3> QED BY <1>1, <2>0, <2>7, <3>2 DEF DeleteClient, TypeInv, TypeOK, Pairs
  <2>8. ASSUME NEW v \in Users, AdminDeleteUserCommit(v) PROVE Goal
    <3>1. \A d \in removal[v].clients : d \in Clients => client'[d].st = "purged"
      BY <1>1, <2>8 DEF AdminDeleteUserCommit, TypeInv, TypeOK, RowsKnown, ClientRow
    <3>2. c \notin removal[v].clients /\ client'[c] = client[c]
      BY <1>2, <2>8, <3>1 DEF AdminDeleteUserCommit
    <3>3. client[c] # Absent
      BY <1>2, <3>2 DEF Absent
    <3>4. client[c].owner # v
      BY <2>8, <3>2, <3>3 DEF AdminDeleteUserCommit, OwnedClients, OwnerInv, RemovalCoversClients
    <3>5. assign' = [p \in Pairs |-> IF p[1] \in removal[v].clients \/ p[2] = v
                                     THEN "none" ELSE assign[p]]
      BY <2>8 DEF AdminDeleteUserCommit
    <3> QED BY <2>0, <3>2, <3>4, <3>5 DEF Pairs
  <2>9. ASSUME Restart PROVE Goal
    BY <1>1, <2>0, <2>9 DEF Restart, Pairs
  <2> QED BY <2>1, <2>2, <2>3, <2>4, <2>5, <2>6, <2>7, <2>8, <2>9, ClientSteps DEF ClientAdmin
<1> QED BY <1>1, <1>2, OwnerForm DEF OwnerInv, ProtectedOwner

LEMMA OwnerInit == Init => OwnerInv
  BY InitType, OwnerForm
  DEF Init, OwnerInv, RemovalCoversClients, UnassignSparesOwner, LocksClient,
      AssignmentWritten,
      ProtectedOwner, Absent, Idle

\* Under assigned_only the owner of a client stays admitted, although the
\* unassignment, the change of the policy and the deletion of accounts
\* overlap (DeleteClientAssignment, UpdateClient).
THEOREM OwnerSafe == Spec => []OwnerStaysAdmitted
<1>1. OwnerInv => OwnerStaysAdmitted
  BY DEF OwnerInv
<1> QED BY <1>1, OwnerInit, OwnerStep, PTL DEF Spec

-----------------------------------------------------------------------------
(* Admission of the users of live tokens.                                  *)

\* Assigning and unassigning revoke all live tokens of the pair: nothing was
\* issued since their snapshot, for they hold the client's lock.
CutCovers ==
  \A r \in RevokeRequests :
    AssignmentWritten(r) => GrantTokens(cut[r].client, cut[r].user) \subseteq cut[r].tokens
AdmissionInv ==
  /\ DisabledInv /\ SecretInv /\ LockExclusive /\ CutCovers /\ LiveTokenIsAdmitted

LEMMA CutCoversStep ==
  ASSUME TypeInv, TypeInv', PresentedKnown, LockExclusive, CutCovers, [Next]_vars
  PROVE  CutCovers'
<1> SUFFICES ASSUME NEW q \in RevokeRequests, AssignmentWritten(q)',
                    NEW t \in LiveTokens',
                    token'[t].client = cut'[q].client, token'[t].user = cut'[q].user
             PROVE  t \in cut'[q].tokens
  BY DEF CutCovers, GrantTokens, UserTokens, ClientTokens
<1>1. CASE AssignmentWritten(q) /\ SameCut(q) /\ cut'[q].tokens = cut[q].tokens
  <2>1. ~Issued(t)
    BY <1>1 DEF Issued, LockExclusive, SameCut, LocksClient
  <2>2. t \in LiveTokens /\ token'[t] = token[t]
    BY <2>1, LiveTokenSteps
  <2>3. t \in GrantTokens(cut[q].client, cut[q].user)
    BY <1>1, <2>2 DEF SameCut, GrantTokens, UserTokens, ClientTokens
  <2> QED BY <1>1, <2>3 DEF CutCovers, SameCut
<1>2. ASSUME NEW c \in Clients, NEW u \in Users,
             cut'[q].client = c, cut'[q].user = u, cut'[q].tokens = GrantTokens(c, u),
             UNCHANGED stores
      PROVE  t \in cut'[q].tokens
  BY <1>2 DEF stores, GrantTokens, UserTokens, ClientTokens, LiveTokens
<1> QED BY <1>1, <1>2, WrittenCut

\* A step keeps the admission of a user whose token it leaves live.
LEMMA AdmissionKept ==
  ASSUME AdmissionInv, TypeInv', [Next]_vars,
         NEW t \in LiveTokens, t \in LiveTokens', token'[t] = token[t],
         NEW c, NEW u, c = token[t].client, u = token[t].user, Access(c, u)
  PROVE  client'[c].st = "purged" \/ Access(c, u)'
<1> DEFINE Goal == client'[c].st = "purged" \/ Access(c, u)'
<1>1. /\ TypeInv /\ token[t] \in TokenRow /\ t \in Tokens
      /\ c \in Clients /\ u \in Users /\ <<c, u>> \in Pairs
  BY LiveRows DEF AdmissionInv, SecretInv, TypeInv, TokenRow, Pairs
<1>2. /\ client[c].st = "active" /\ client[c] \in ClientRow
      /\ assign[<<c, u>>] = "active" \/ client[c].policy = "all_active_users"
  BY <1>1, AccessForm, LiveRows DEF TypeInv
<1>3. ASSUME client'[c].st = client[c].st, client'[c].policy = client[c].policy,
             assign[<<c, u>>] = "active" => assign'[<<c, u>>] = "active"
      PROVE  Goal
  BY <1>2, <1>3, AccessForm
<1>4. UNCHANGED <<client, assign>> => Goal
  BY <1>3
<1>5. ASSUME NEW r \in RevokeRequests, CutCommit(r) PROVE Goal
  <2>1. client' = client /\ cut[r].pc = "codes" /\ RevokeTokens(cut[r].tokens)
    BY <1>5 DEF CutCommit
  <2>2. CASE cut[r].kind = "unassign"
    <3>1. t \notin cut[r].tokens
      <4>1. t \in cut[r].tokens => token'[t] = [token[t] EXCEPT !.st = "revoked"]
        BY <1>1, <2>1 DEF RevokeTokens
      <4> QED BY <1>1, <4>1 DEF TokenRow, LiveTokens
    <3>2. ~(c = cut[r].client /\ u = cut[r].user)
      <4>1. AssignmentWritten(r)
        BY <2>1, <2>2 DEF AssignmentWritten
      <4> QED BY <3>1, <4>1 DEF AdmissionInv, CutCovers, GrantTokens, UserTokens, ClientTokens
    <3>3. assign' = [assign EXCEPT ![<<cut[r].client, cut[r].user>>] = "deleted"]
      BY <1>5, <2>2 DEF CutCommit
    <3>4. assign'[<<c, u>>] = assign[<<c, u>>]
      BY <1>1, <3>2, <3>3 DEF TypeInv, TypeOK, Pairs
    <3> QED BY <1>3, <2>1, <3>4
  <2>3. CASE cut[r].kind # "unassign"
    <3>1. assign' \in {assign, [assign EXCEPT ![<<cut[r].client, cut[r].user>>] = "active"]}
      BY <1>5, <2>3 DEF CutCommit
    <3>2. assign[<<c, u>>] = "active" => assign'[<<c, u>>] = "active"
      BY <1>1, <3>1 DEF TypeInv, TypeOK, Pairs
    <3> QED BY <1>3, <2>1, <3>2
  <2> QED BY <2>2, <2>3
<1>6. ASSUME NEW d \in Clients, NEW v \in Users, NEW policy, NEW uris,
             CreateClient(d, v, policy, uris)
      PROVE  Goal
  <2>1. client[d] = Absent /\ c # d
    BY <1>2, <1>6 DEF CreateClient, Absent
  <2>2. client'[c] = client[c] /\ assign'[<<c, u>>] = assign[<<c, u>>]
    BY <1>1, <1>6, <2>1 DEF CreateClient, TypeInv, TypeOK, Pairs
  <2> QED BY <1>3, <2>2
<1>7. ASSUME NEW d \in Clients, NEW policy, NEW uris, UpdateClient(d, policy, uris)
      PROVE  Goal
  <2>1. c = d => policy = client[c].policy
    <3>1. SUFFICES ASSUME c = d, policy # client[c].policy PROVE FALSE
      OBVIOUS
    <3>2. RevokeTokens(ClientTokens(c))
      BY <1>7, <3>1 DEF UpdateClient
    <3> QED BY <1>1, <3>2, ClientPurged
  <2>2. client'[c].st = client[c].st /\ client'[c].policy = client[c].policy
    BY <1>1, <1>2, <1>7, <2>1 DEF UpdateClient, TypeInv, TypeOK, ClientRow
  <2>3. assign' \in {assign, [assign EXCEPT ![<<d, client[d].owner>>] = "active"]}
    BY <1>7 DEF UpdateClient
  <2>4. assign[<<c, u>>] = "active" => assign'[<<c, u>>] = "active"
    BY <1>1, <2>3 DEF TypeInv, TypeOK, Pairs
  <2> QED BY <1>3, <2>2, <2>4
<1>8. ASSUME NEW d \in Clients, RegenerateClientSecret(d) PROVE Goal
  <2>1. c # d
    BY <1>1, <1>8, ClientPurged DEF RegenerateClientSecret
  <2> QED BY <1>1, <1>3, <1>8, <2>1 DEF RegenerateClientSecret, TypeInv, TypeOK
<1>9. ASSUME NEW d \in Clients, DeleteClient(d) PROVE Goal
  <2>1. c # d
    BY <1>1, <1>9, ClientPurged DEF DeleteClient
  <2>2. client'[c] = client[c]
    BY <1>1, <1>9, <2>1 DEF DeleteClient, TypeInv, TypeOK
  <2>3. assign'[<<c, u>>] = assign[<<c, u>>]
    BY <1>1, <1>9, <2>1 DEF DeleteClient, TypeInv, TypeOK, Pairs
  <2> QED BY <1>3, <2>2, <2>3
<1>10. ASSUME NEW v \in Users, AdminDeleteUserCommit(v) PROVE Goal
  <2>1. c \in removal[v].clients => client'[c].st = "purged"
    BY <1>1, <1>2, <1>10 DEF AdminDeleteUserCommit, ClientRow
  <2>2. u # v
    <3>1. t \notin removal[v].tokens
      BY <1>1, <1>10 DEF AdminDeleteUserCommit, LiveTokens, TokenRow, Gone
    <3>2. UserTokens(v) \subseteq removal[v].tokens
      BY <1>10 DEF AdminDeleteUserCommit, AdmissionInv, DisabledInv, RemovalCovers
    <3> QED BY <3>1, <3>2 DEF UserTokens
  <2>3. CASE c \notin removal[v].clients
    <3>1. client'[c] = client[c]
      BY <1>1, <1>10, <2>3 DEF AdminDeleteUserCommit
    <3>2. assign' = [p \in Pairs |-> IF p[1] \in removal[v].clients \/ p[2] = v
                                     THEN "none" ELSE assign[p]]
      BY <1>10 DEF AdminDeleteUserCommit
    <3>3. assign'[<<c, u>>] = assign[<<c, u>>]
      BY <1>1, <2>2, <2>3, <3>2 DEF Pairs
    <3> QED BY <1>3, <3>1, <3>3
  <2> QED BY <2>1, <2>3
<1>11. ASSUME Restart PROVE Goal
  <2>1. assign[<<c, u>>] = "active" => assign'[<<c, u>>] = "active"
    BY <1>1, <1>11 DEF Restart
  <2>2. client' = client
    BY <1>11 DEF Restart
  <2> QED BY <1>3, <2>1, <2>2
<1> HIDE DEF Goal
<1>12. Goal
  BY <1>4, <1>5, <1>6, <1>7, <1>8, <1>9, <1>10, <1>11, ClientSteps DEF ClientAdmin
<1> QED BY <1>12 DEF Goal

\* A client purged with its owner stays purged.
LEMMA PurgedStays ==
  ASSUME TypeInv, [Next]_vars, NEW c \in Clients, client[c].st = "purged"
  PROVE  client'[c].st = "purged"
<1>1. client[c] \in ClientRow /\ client[c] # Absent
  BY DEF TypeInv, TypeOK, Absent
<1>2. ASSUME NEW d \in Clients, ClientAdmin(d) PROVE client'[c] = client[c]
  BY <1>1, <1>2
  DEF ClientAdmin, CreateClient, UpdateClient, RegenerateClientSecret, DeleteClient, TypeInv, TypeOK
<1>3. ASSUME NEW v \in Users, AdminDeleteUserCommit(v) PROVE client'[c].st = "purged"
  BY <1>1, <1>3 DEF AdminDeleteUserCommit, ClientRow
<1> QED BY <1>2, <1>3, ClientSteps DEF CutCommit, Restart

LEMMA AdmissionStep == AdmissionInv /\ [Next]_vars => AdmissionInv'
<1> SUFFICES ASSUME AdmissionInv, [Next]_vars PROVE AdmissionInv'
  OBVIOUS
<1>1. /\ TypeInv /\ TypeInv' /\ PresentedKnown
      /\ DisabledInv' /\ SecretInv' /\ LockExclusive' /\ CutCovers'
  BY TypeStep, DisabledStep, SecretStep, LockExclusiveStep, CutCoversStep
  DEF AdmissionInv, SecretInv
<1>2. ASSUME NEW t \in LiveTokens', NEW c, NEW u, c = token'[t].client, u = token'[t].user
      PROVE  client'[c].st = "purged" \/ Access(c, u)'
  <2>1. CASE Issued(t)
    <3>1. Access(c, u) /\ UNCHANGED <<client, assign>>
      BY <1>2, <2>1 DEF Issued
    <3> QED BY <3>1, AccessForm
  <2>2. CASE t \in LiveTokens /\ token'[t] = token[t]
    <3>1. c \in Clients
      BY <1>1, <1>2, <2>2, LiveRows DEF TypeInv, TokenRow
    <3>2. client[c].st = "purged" \/ Access(c, u)
      BY <1>2, <2>2 DEF AdmissionInv, LiveTokenIsAdmitted
    <3>3. client[c].st = "purged" => client'[c].st = "purged"
      BY <1>1, <3>1, PurgedStays
    <3>4. Access(c, u) => client'[c].st = "purged" \/ Access(c, u)'
      BY <1>1, <1>2, <2>2, AdmissionKept
    <3> QED BY <3>2, <3>3, <3>4
  <2> QED BY <1>1, <2>1, <2>2, LiveTokenSteps
<1>3. LiveTokenIsAdmitted'
  BY <1>2 DEF LiveTokenIsAdmitted
<1> QED BY <1>1, <1>3 DEF AdmissionInv

LEMMA AdmissionInit == Init => AdmissionInv
  BY InitType, DisabledInit, SecretInit
  DEF Init, AdmissionInv, LockExclusive, CutCovers, LocksClient, AssignmentWritten,
      LiveTokenIsAdmitted,
      LiveTokens, Absent, Idle

\* A live token belongs to a user the client still admits and to a client
\* that still stands, or was purged with its owner, whatever token requests
\* were in flight when the admission was taken away.
THEOREM AdmissionSafe == Spec => []LiveTokenIsAdmitted
<1>1. AdmissionInv => LiveTokenIsAdmitted
  BY DEF AdmissionInv
<1> QED BY <1>1, AdmissionInit, AdmissionStep, PTL DEF Spec

-----------------------------------------------------------------------------
(* AdminDeleteUser leaves nothing: no session, code, token, consent or     *)
(* assignment names a deleted account.                                     *)
(*                                                                         *)
(* Each kind of row has its own reason.  Sessions, codes and tokens are    *)
(* only added for accounts that are usable and not locked; consents come   *)
(* with a code, or at a start with a live token; assignments come from the *)
(* administration, which holds the user or read under the client's lock    *)
(* that the account stands, and from the owner of a client, whose clients  *)
(* are purged with the account.                                            *)

(* Which rows may come to name an account.                                 *)

LEMMA DeletedForm ==
  /\ DeletedUserLeavesNothing <=>
       \A u \in Users : user[u] = "deleted" =>
         /\ \A s \in Sessions : session[s] \notin {Absent, Gone} => session[s].user # u
         /\ UserCodes(u) = {}
         /\ \A t \in Tokens : token[t] \notin {Absent, Gone} => token[t].user # u
         /\ \A c \in Clients : consent[<<c, u>>] = Absent /\ assign[<<c, u>>] = "none"
  /\ DeletedUserLeavesNothing' <=>
       \A u \in Users : user'[u] = "deleted" =>
         /\ \A s \in Sessions : session'[s] \notin {Absent, Gone} => session'[s].user # u
         /\ UserCodes(u)' = {}
         /\ \A t \in Tokens : token'[t] \notin {Absent, Gone} => token'[t].user # u
         /\ \A c \in Clients : consent'[<<c, u>>] = Absent /\ assign'[<<c, u>>] = "none"
  BY Zenon DEF DeletedUserLeavesNothing

\* A stored session keeps its user; only a login stores one.
LEMMA SessionUsers ==
  ASSUME TypeInv, [Next]_vars, NEW s \in Sessions, session'[s] \notin {Absent, Gone}
  PROVE  \/ session[s] \notin {Absent, Gone} /\ session'[s].user = session[s].user
         \/ \E r \in AccountRequests : LoginCommit(r) /\ session'[s].user = acct[r].user
<1> DEFINE Keeps == session[s] \notin {Absent, Gone} /\ session'[s].user = session[s].user
<1>1. session'[s] = session[s] => Keeps
  OBVIOUS
<1>2. ASSUME NEW st, session[s] \in SessionRow, session'[s] = [session[s] EXCEPT !.st = st]
      PROVE  Keeps
  BY <1>2 DEF SessionRow, Absent, Gone
<1>3. UNCHANGED session => Keeps
  BY <1>1
<1>4. ASSUME NEW S, EndSessions(S), \A i \in S : i \in Sessions => session[i].st = "live"
      PROVE  Keeps
  <2>1. s \in S => session[s] \in SessionRow
    BY <1>4, LiveRows DEF TypeInv
  <2> QED BY <1>1, <1>2, <1>4, <2>1 DEF EndSessions
<1>5. ASSUME NEW r \in AccountRequests, LoginCommit(r)
      PROVE  Keeps \/ session'[s].user = acct[r].user
  <2>1. PICK n \in Sessions :
          session' = [session EXCEPT ![n] =
            [st |-> "live", user |-> acct[r].user, cred |-> acct[r].cred]]
    BY <1>5 DEF LoginCommit
  <2>2. s = n => session'[s].user = acct[r].user
    BY <2>1 DEF TypeInv, TypeOK
  <2>3. s # n => session'[s] = session[s]
    BY <2>1 DEF TypeInv, TypeOK
  <2> QED BY <1>1, <2>2, <2>3
<1>6. ASSUME NEW r \in AccountRequests, ChangePasswordCommit(r) PROVE Keeps
  <2>1. CASE s = acct[r].session
    <3>1. session[s] \in SessionRow
      BY <1>6, <2>1, LiveRows DEF ChangePasswordCommit, SessionStillLive, TypeInv
    <3>2. session'[s] = [session[s] EXCEPT !.cred = cred[acct[r].user] + 1]
      BY <1>6, <2>1 DEF ChangePasswordCommit
    <3> QED BY <3>1, <3>2 DEF SessionRow, Absent, Gone
  <2>2. CASE s # acct[r].session /\ s \in UserSessions(acct[r].user)
    <3>1. session[s] \in SessionRow
      BY <2>2, LiveRows DEF UserSessions, TypeInv
    <3>2. session'[s] = [session[s] EXCEPT !.st = "revoked"]
      BY <1>6, <2>2 DEF ChangePasswordCommit
    <3> QED BY <1>2, <3>1, <3>2
  <2>3. CASE s # acct[r].session /\ s \notin UserSessions(acct[r].user)
    BY <1>1, <1>6, <2>3 DEF ChangePasswordCommit
  <2> QED BY <2>1, <2>2, <2>3
<1>7. ASSUME NEW r \in AccountRequests,
             AccountRequest(r) \/ AccountStep(r), ~LoginCommit(r), ~ChangePasswordCommit(r)
      PROVE  UNCHANGED session
  BY <1>7 DEF AccountRequest, AccountStep, LoginStart, ChangePasswordStart, AccountRefused, stores
<1>8. ASSUME NEW r \in AuthorizeRequests, AuthorizeRequest(r) \/ AuthorizeStep(r)
      PROVE  UNCHANGED session
  <2>1. AuthorizeRequest(r) => UNCHANGED session
    BY DEF AuthorizeRequest, AuthorizeCheck
  <2>2. AuthorizeStep(r) => UNCHANGED session
    BY DEF AuthorizeStep, AuthorizeCommit, AuthorizeRefused, stores
  <2> QED BY <1>8, <2>1, <2>2
<1>9. ASSUME NEW r \in TokenRequests, TokenRequest(r) \/ TokenStep(r) PROVE UNCHANGED session
  BY <1>9
  DEF TokenRequest, TokenStep, ExchangeStart, RotateStart, LockClient, LockClientRefused,
      Exchange, Rotate, RefreshReuse, TokenRefused, stores
<1>10. ASSUME NEW r \in RevokeRequests, RevokeRequest(r) \/ RevokeStep(r) PROVE UNCHANGED session
  BY <1>10
  DEF RevokeRequest, RevokeStep, RevokeConnectionStart, AssignStart, UnassignStart, StartCut,
      RevokeEndpointStart, BearerStart, AssignWrite, AssignRefused, CutTokens,
      CutCommit, CutAborted, RevokeEndpointCommit, BearerDecide, BearerRevoke, stores
<1>11. ASSUME NEW u \in Users, AdminDeleteUserCommit(u) PROVE Keeps
  BY <1>1, <1>11 DEF AdminDeleteUserCommit
<1>12. ASSUME NEW u, EndSessions(UserSessions(u)) PROVE Keeps
  BY <1>4, <1>12 DEF UserSessions
<1>13. ASSUME NEW u \in Users, AccountAdmin(u) \/ RemovalStep(u), ~AdminDeleteUserCommit(u)
       PROVE  Keeps
  BY <1>3, <1>12, <1>13
  DEF AccountAdmin, RemovalStep, ConfirmPasswordReset, AdminUpdateStatus, AdminUpdateRole,
      AdminDeleteUserStart, AdminDeleteUserAborted, stores
<1>14. ASSUME NEW c \in Clients, ClientAdmin(c) PROVE UNCHANGED session
  BY <1>14 DEF ClientAdmin, CreateClient, UpdateClient, RegenerateClientSecret, DeleteClient
<1>15. ASSUME NEW i \in Sessions, Logout(i) PROVE Keeps
  BY <1>4, <1>15 DEF Logout
<1>16. (\E k \in Codes : ExpireCode(k)) \/ Restart \/ UNCHANGED vars => UNCHANGED session
  BY DEF ExpireCode, Restart, vars, stores
<1> HIDE DEF Keeps
<1>17. Keeps \/ \E r \in AccountRequests : LoginCommit(r) /\ session'[s].user = acct[r].user
  BY <1>3, <1>5, <1>6, <1>7, <1>8, <1>9, <1>10, <1>11, <1>13, <1>14, <1>15, <1>16, AdminAssumption
  DEF Next, Clock
<1> QED BY <1>17 DEF Keeps

\* A stored token keeps its user; a new one is live.
LEMMA TokenUsers ==
  ASSUME TypeInv, TypeInv', [Next]_vars, NEW t \in Tokens, token'[t] \in TokenRow
  PROVE  \/ token[t] \in TokenRow /\ token'[t].user = token[t].user
         \/ t \in LiveTokens' /\ t \notin LiveTokens
<1>1. CASE token[t] # Absent
  BY <1>1, TokensStay
<1>2. CASE token[t] = Absent
  <2>1. t \notin LiveTokens
    BY <1>2 DEF LiveTokens, Absent
  <2>2. ~TokensOnlyEnd
    <3>1. token'[t] # Absent /\ token'[t] # Gone
      BY DEF TokenRow, Absent, Gone
    <3>2. token[t].st # "live"
      BY <1>2 DEF Absent
    <3> QED BY <1>2, <3>1, <3>2 DEF TokensOnlyEnd
  <2>3. ASSUME NEW r \in TokenRequests, Exchange(r) PROVE token'[t].st = "live"
    BY <1>2, <2>3, ExchangeEffect DEF TokenRow, Absent
  <2>4. ASSUME NEW r \in TokenRequests, Rotate(r) PROVE token'[t].st = "live"
    <3>1. grant[r].token \in LiveTokens
      BY <2>4, RotateEffect
    <3>2. t # grant[r].token
      BY <2>1, <3>1
    <3>3. PICK n \in Tokens : /\ \A i \in Tokens \ {grant[r].token, n} : token'[i] = token[i]
                              /\ token'[n].st = "live"
      BY <2>4, RotateEffect
    <3>4. token'[t] # token[t]
      BY <1>2 DEF TokenRow, Absent
    <3> QED BY <3>2, <3>3, <3>4
  <2> QED BY <2>1, <2>2, <2>3, <2>4, TokenSteps DEF LiveTokens
<1> QED BY <1>1, <1>2

\* A consent comes from an authorization of a usable account, or at a start
\* from a live token.
LEMMA ConsentSteps ==
  ASSUME TypeInv, [Next]_vars, NEW c \in Clients, NEW u \in Users,
         consent[<<c, u>>] = Absent, consent'[<<c, u>>] # Absent
  PROVE  Usable(u) \/ UserTokens(u) # {}
<1>1. <<c, u>> \in Pairs
  BY DEF Pairs
<1>2. ASSUME NEW r \in AuthorizeRequests, AuthorizeCommit(r) PROVE Usable(u)
  <2>1. consent' = [consent EXCEPT ![<<authz[r].client, authz[r].user>>] =
                      MergedConsent(authz[r].client, authz[r].user, authz[r].scope)]
    BY <1>2 DEF AuthorizeCommit
  <2>2. <<authz[r].client, authz[r].user>> = <<c, u>>
    BY <1>1, <2>1 DEF TypeInv, TypeOK
  <2>3. authz[r].user = u
    BY <2>2
  <2> QED BY <1>2, <2>3, AuthorizeEffect
<1>3. ASSUME Restart PROVE UserTokens(u) # {}
  <2>1. consent' = [p \in Pairs |->
           IF consent[p] = Absent /\ GrantTokens(p[1], p[2]) # {}
           THEN [st |-> "active", scope |-> UNION {token[t].scope : t \in GrantTokens(p[1], p[2])}]
           ELSE consent[p]]
    BY <1>3 DEF Restart
  <2>2. GrantTokens(c, u) # {}
    BY <1>1, <2>1
  <2> QED BY <2>2 DEF GrantTokens
<1>4. ASSUME NEW r \in RevokeRequests, CutCommit(r) PROVE FALSE
  <2> DEFINE p == <<cut[r].client, cut[r].user>>
  <2>1. \/ consent' = consent
        \/ consent[p].st = "active" /\ consent' = [consent EXCEPT ![p].st = "revoked"]
    BY <1>4, Zenon DEF CutCommit
  <2>2. consent[p].st = "active" => p # <<c, u>>
    BY DEF Absent
  <2> HIDE DEF p
  <2> QED BY <1>1, <2>1, <2>2 DEF TypeInv, TypeOK
<1>5. ASSUME NEW d, DeleteClient(d) PROVE FALSE
  <2>1. consent' = [p \in Pairs |-> IF p[1] = d THEN Absent ELSE consent[p]]
    BY <1>5 DEF DeleteClient
  <2> QED BY <1>1, <2>1
<1>6. ASSUME NEW v, AdminDeleteUserCommit(v) PROVE FALSE
  <2>1. consent' = [p \in Pairs |-> IF p[1] \in removal[v].clients \/ p[2] = v
                                    THEN Absent ELSE consent[p]]
    BY <1>6 DEF AdminDeleteUserCommit
  <2> QED BY <1>1, <2>1
<1>7. ASSUME NEW r \in AccountRequests, AccountRequest(r) \/ AccountStep(r) PROVE UNCHANGED consent
  BY <1>7
  DEF AccountRequest, AccountStep, LoginStart, ChangePasswordStart, LoginCommit,
      ChangePasswordCommit, AccountRefused, stores
<1>8. ASSUME NEW r \in AuthorizeRequests, AuthorizeRequest(r) \/ AuthorizeRefused(r)
      PROVE  UNCHANGED consent
  <2>1. AuthorizeRequest(r) => UNCHANGED consent
    BY DEF AuthorizeRequest, AuthorizeCheck
  <2>2. AuthorizeRefused(r) => UNCHANGED consent
    BY DEF AuthorizeRefused, stores
  <2> QED BY <1>8, <2>1, <2>2
<1>9. ASSUME NEW r \in TokenRequests, TokenRequest(r) \/ TokenStep(r) PROVE UNCHANGED consent
  BY <1>9
  DEF TokenRequest, TokenStep, ExchangeStart, RotateStart, LockClient, LockClientRefused,
      Exchange, Rotate, RefreshReuse, TokenRefused, stores
<1>10. ASSUME NEW r \in RevokeRequests, RevokeRequest(r) \/ RevokeStep(r), ~CutCommit(r)
       PROVE  UNCHANGED consent
  BY <1>10
  DEF RevokeRequest, RevokeStep, RevokeConnectionStart, AssignStart, UnassignStart, StartCut,
      RevokeEndpointStart, BearerStart, AssignWrite, AssignRefused, CutTokens,
      CutAborted, RevokeEndpointCommit, BearerDecide, BearerRevoke, stores
<1>11. ASSUME NEW v \in Users, AccountAdmin(v) \/ RemovalStep(v), ~AdminDeleteUserCommit(v)
       PROVE  UNCHANGED consent
  BY <1>11
  DEF AccountAdmin, RemovalStep, ConfirmPasswordReset, AdminUpdateStatus, AdminUpdateRole,
      AdminDeleteUserStart, AdminDeleteUserAborted, stores
<1>12. ASSUME NEW d \in Clients, ClientAdmin(d), ~DeleteClient(d) PROVE UNCHANGED consent
  BY <1>12 DEF ClientAdmin, CreateClient, UpdateClient, RegenerateClientSecret
<1>13. Clock \/ UNCHANGED vars => UNCHANGED consent
  BY DEF Clock, Logout, ExpireCode, vars, stores
<1>14. ~UNCHANGED consent
  OBVIOUS
<1> QED BY <1>2, <1>3, <1>4, <1>5, <1>6, <1>7, <1>8, <1>9, <1>10, <1>11, <1>12, <1>13, <1>14,
           AdminAssumption
        DEF Next, AuthorizeStep

-----------------------------------------------------------------------------
(* Who is deleted, who owns a client, for whom an assignment is written.   *)

LEMMA DeletedSteps ==
  ASSUME TypeInv, [Next]_vars, NEW u \in Users, user'[u] = "deleted"
  PROVE  user[u] = "deleted" \/ AdminDeleteUserCommit(u)
<1>1. ASSUME NEW v \in Users, NEW active \in BOOLEAN, AdminUpdateStatus(v, active)
      PROVE  user[u] = "deleted"
  BY <1>1 DEF AdminUpdateStatus, TypeInv, TypeOK
<1>2. ASSUME NEW v \in Users, AdminDeleteUserCommit(v), v # u PROVE user[u] = "deleted"
  BY <1>2 DEF AdminDeleteUserCommit, TypeInv, TypeOK
<1>3. ASSUME NEW v \in Users, AdminDeleteUserStart(v) \/ AdminDeleteUserAborted(v)
      PROVE  user[u] = "deleted"
  BY <1>3 DEF AdminDeleteUserStart, AdminDeleteUserAborted, stores
<1>4. Restart \/ UNCHANGED <<user, removal>> => user[u] = "deleted"
  BY DEF Restart
<1> QED BY <1>1, <1>2, <1>3, <1>4, AccountSteps

LEMMA ActiveClientSteps ==
  ASSUME TypeInv, [Next]_vars, NEW c \in Clients, client'[c].st = "active"
  PROVE  \/ client[c].st = "active"
         \/ \E u \in Users : \E policy, uris : CreateClient(c, u, policy, uris)
<1>1. client'[c] = client[c] => client[c].st = "active"
  OBVIOUS
<1>2. ASSUME NEW d \in Clients, NEW u \in Users, NEW policy, NEW uris,
             CreateClient(d, u, policy, uris), d # c
      PROVE  client'[c] = client[c]
  BY <1>2 DEF CreateClient, TypeInv, TypeOK
<1>3. ASSUME NEW d \in Clients, NEW policy, NEW uris,
             \/ UpdateClient(d, policy, uris)
             \/ RegenerateClientSecret(d) \/ DeleteClient(d)
      PROVE  client[c].st = "active"
  <2>1. CASE d = c
    BY <1>3, <2>1 DEF UpdateClient, RegenerateClientSecret, DeleteClient
  <2>2. CASE d # c
    BY <1>1, <1>3, <2>2
    DEF UpdateClient, RegenerateClientSecret, DeleteClient, TypeInv, TypeOK
  <2> QED BY <2>1, <2>2
<1>4. ASSUME NEW v \in Users, AdminDeleteUserCommit(v) PROVE client[c].st = "active"
  <2>1. CASE c \in removal[v].clients
    <3>1. client'[c] = [client[c] EXCEPT !.st = "purged"]
      BY <1>4, <2>1 DEF AdminDeleteUserCommit
    <3>2. client'[c].st # "active"
      BY <3>1 DEF TypeInv, TypeOK, ClientRow, Absent
    <3> QED BY <3>2
  <2>2. CASE c \notin removal[v].clients
    BY <1>1, <1>4, <2>2 DEF AdminDeleteUserCommit
  <2> QED BY <2>1, <2>2
<1>5. UNCHANGED client => client[c].st = "active"
  BY <1>1
<1>6. ASSUME NEW d \in Clients, ClientAdmin(d)
      PROVE  \/ client[c].st = "active"
             \/ \E u \in Users : \E policy, uris : CreateClient(c, u, policy, uris)
  BY <1>1, <1>2, <1>3, <1>6 DEF ClientAdmin
<1>7. (\E r \in RevokeRequests : CutCommit(r)) \/ Restart => client[c].st = "active"
  BY <1>5 DEF CutCommit, Restart
<1> QED BY <1>4, <1>5, <1>6, <1>7, ClientSteps

\* AdminDeleteUser takes every token of the account, revoked ones included.
RemovalTakesTokens ==
  \A u \in Users : removal[u] # Idle =>
    \A t \in Tokens : token[t] \in TokenRow /\ token[t].user = u => t \in removal[u].tokens

\* Once the assignment is written, or removed, the account stands and no
\* deletion can take it before the commit.
CutUserStands ==
  \A r \in RevokeRequests :
    AssignmentWritten(r) => user[cut[r].user] # "deleted" /\ ~UserLocked(cut[r].user)

\* The owner of a usable client stands.
OwnerExists ==
  \A c \in Clients : client[c].st = "active" => user[client[c].owner] # "deleted"

DeletedInv ==
  /\ DisabledInv /\ OwnerInv /\ RemovalTakesTokens /\ CutUserStands /\ OwnerExists
  /\ DeletedUserLeavesNothing

LEMMA RemovalTakesTokensStep ==
  ASSUME TypeInv, TypeInv', RemovalTakesTokens, [Next]_vars
  PROVE  RemovalTakesTokens'
<1> SUFFICES ASSUME NEW u \in Users, removal'[u] # Idle,
                    NEW t \in Tokens, token'[t] \in TokenRow, token'[t].user = u
             PROVE  t \in removal'[u].tokens
  BY DEF RemovalTakesTokens
<1>1. CASE AdminDeleteUserStart(u)
  <2>1. removal'[u].tokens = {i \in Tokens : token[i].st \in {"live", "revoked"} /\
                (token[i].user = u \/ token[i].client \in OwnedClients(u))}
    BY <1>1 DEF AdminDeleteUserStart, TypeInv, TypeOK
  <2>2. token' = token
    BY <1>1 DEF AdminDeleteUserStart, stores
  <2> QED BY <2>1, <2>2 DEF TokenRow
<1>2. CASE removal'[u] = removal[u]
  <2>1. UserTokens(u)' \subseteq UserTokens(u)
    BY <1>2, UserTokensGrow DEF MayGrow, UserLocked
  <2>2. ~(t \in LiveTokens' /\ t \notin LiveTokens)
    BY <2>1 DEF UserTokens
  <2>3. token[t] \in TokenRow /\ token[t].user = u
    BY <2>2, TokenUsers
  <2> QED BY <1>2, <2>3 DEF RemovalTakesTokens
<1> QED BY <1>1, <1>2, RemovalSteps

LEMMA CutUserStandsStep ==
  ASSUME TypeInv, TypeInv', CutUserStands, DeletedUserLeavesNothing, [Next]_vars
  PROVE  CutUserStands'
<1> SUFFICES ASSUME NEW q \in RevokeRequests, AssignmentWritten(q)',
                    NEW u \in Users, u = cut'[q].user
             PROVE  user'[u] # "deleted" /\ removal'[u] = Idle
  <2>1. ASSUME NEW q \in RevokeRequests, AssignmentWritten(q)' PROVE cut'[q].user \in Users
    BY <2>1 DEF TypeInv, TypeOK, AssignmentWritten, CutReq, AssignReq, FamilyReq, BearerReq, Idle
  <2> QED BY <2>1 DEF CutUserStands, UserLocked
<1>1. CASE AssignmentWritten(q) /\ SameCut(q)
  <2>1. cut[q].user = u /\ user[u] # "deleted" /\ removal[u] = Idle
    BY <1>1 DEF SameCut, CutUserStands, UserLocked
  <2>2. ~AdminDeleteUserCommit(u) /\ ~AdminDeleteUserStart(u)
    BY <1>1, <2>1 DEF AdminDeleteUserCommit, AdminDeleteUserStart
  <2> QED BY <2>1, <2>2, DeletedSteps, RemovalSteps
<1>2. ASSUME NEW c \in Clients, NEW v \in Users,
             AssignWrite(q) \/ UnassignStart(q, c, v),
             cut'[q].user = v, UNCHANGED <<stores, grant, removal>>
      PROVE  user'[u] # "deleted" /\ removal'[u] = Idle
  <2>1. UNCHANGED <<user, removal>> /\ u = v
    BY <1>2 DEF stores
  <2>2. AssignWrite(q) => cut[q].user = u
    BY <1>2, <2>1, AssignWrites DEF SameCut
  <2>3. removal[u] = Idle /\ (AssignWrite(q) => user[u] # "deleted")
    BY <1>2, <2>1, <2>2 DEF AssignWrite, UnassignStart, PairHeld, UserLocked
  <2>4. UnassignStart(q, c, v) => assign[<<c, u>>] = "active"
    BY <2>1, Zenon DEF UnassignStart
  <2>5. user[u] = "deleted" => assign[<<c, u>>] = "none"
    BY DeletedForm
  <2> QED BY <1>2, <2>1, <2>2, <2>3, <2>4, <2>5
<1> QED BY <1>1, <1>2, WrittenCut

LEMMA OwnerExistsStep ==
  ASSUME TypeInv, RemovalCoversClients, OwnerExists, [Next]_vars
  PROVE  OwnerExists'
<1> SUFFICES ASSUME NEW c \in Clients, client'[c].st = "active"
             PROVE  user'[client'[c].owner] # "deleted"
  BY DEF OwnerExists
<1>1. CASE client[c].st = "active"
  <2> DEFINE o == client[c].owner
  <2>1. client[c] # Absent /\ client[c] \in ClientRow
    BY <1>1, LiveRows DEF TypeInv, Absent
  <2>2. o \in Users /\ user[o] # "deleted" /\ client'[c].owner = o
    BY <1>1, <2>1, ClientKeeps DEF OwnerExists, ClientRow
  <2>3. ~AdminDeleteUserCommit(o)
    <3>1. SUFFICES ASSUME AdminDeleteUserCommit(o) PROVE FALSE
      OBVIOUS
    <3>2. c \in removal[o].clients
      BY <2>1, <2>2, <3>1 DEF RemovalCoversClients, AdminDeleteUserCommit, OwnedClients
    <3>3. client'[c].st = "purged"
      BY <2>1, <3>1, <3>2 DEF AdminDeleteUserCommit, ClientRow
    <3> QED BY <3>3
  <2> QED BY <2>2, <2>3, DeletedSteps
<1>2. ASSUME NEW u \in Users, NEW policy, NEW uris, CreateClient(c, u, policy, uris)
      PROVE  user'[client'[c].owner] # "deleted"
  BY <1>2 DEF CreateClient, TypeInv, TypeOK
<1> QED BY <1>1, <1>2, ActiveClientSteps

-----------------------------------------------------------------------------
(* Nothing comes back for a deleted account.                               *)

LEMMA NoNewAssignment ==
  ASSUME DeletedInv, [Next]_vars, NEW c \in Clients, NEW u \in Users,
         user[u] = "deleted", assign[<<c, u>>] = "none"
  PROVE  assign'[<<c, u>>] = "none"
<1>1. TypeInv /\ <<c, u>> \in Pairs
  BY DEF DeletedInv, OwnerInv, Pairs
<1>2. UNCHANGED assign => assign'[<<c, u>>] = "none"
  OBVIOUS
<1>3. ASSUME NEW d, NEW v, v # u, NEW st,
             assign' = assign \/ assign' = [assign EXCEPT ![<<d, v>>] = st]
      PROVE  assign'[<<c, u>>] = "none"
  BY <1>1, <1>3 DEF TypeInv, TypeOK
<1>4. ASSUME NEW d \in Clients, client[d].st = "active" PROVE client[d].owner # u
  BY <1>4 DEF DeletedInv, OwnerExists
<1>5. ASSUME NEW r \in RevokeRequests, CutCommit(r) PROVE assign'[<<c, u>>] = "none"
  <2>1. CASE AssignmentWritten(r)
    <3>1. cut[r].user # u
      BY <2>1 DEF DeletedInv, CutUserStands
    <3>2. \/ assign' = assign
          \/ assign' = [assign EXCEPT ![<<cut[r].client, cut[r].user>>] = "active"]
          \/ assign' = [assign EXCEPT ![<<cut[r].client, cut[r].user>>] = "deleted"]
      BY <1>5 DEF CutCommit
    <3> QED BY <1>3, <3>1, <3>2
  <2>2. CASE ~AssignmentWritten(r)
    <3>1. cut[r].kind = "disconnect"
      BY <1>5, <2>2 DEF CutCommit, AssignmentWritten
    <3> QED BY <1>2, <1>5, <3>1 DEF CutCommit
  <2> QED BY <2>1, <2>2
<1>6. ASSUME NEW d \in Clients, NEW v \in Users, NEW policy, NEW uris,
             CreateClient(d, v, policy, uris)
      PROVE  assign'[<<c, u>>] = "none"
  BY <1>3, <1>6 DEF CreateClient
<1>7. ASSUME NEW d \in Clients, NEW policy, NEW uris, UpdateClient(d, policy, uris)
      PROVE  assign'[<<c, u>>] = "none"
  BY <1>3, <1>4, <1>7 DEF UpdateClient
<1>8. ASSUME NEW d \in Clients, DeleteClient(d) PROVE assign'[<<c, u>>] = "none"
  BY <1>1, <1>8 DEF DeleteClient
<1>9. ASSUME NEW v \in Users, AdminDeleteUserCommit(v) PROVE assign'[<<c, u>>] = "none"
  BY <1>1, <1>9 DEF AdminDeleteUserCommit
<1>10. ASSUME Restart PROVE assign'[<<c, u>>] = "none"
  <2>1. assign' = [p \in Pairs |->
           IF client[p[1]].st = "active" /\ client[p[1]].owner = p[2]
                /\ \A v \in Users : assign[<<p[1], v>>] = "none"
           THEN "active" ELSE assign[p]]
    BY <1>10, Zenon DEF Restart
  <2> QED BY <1>1, <1>4, <2>1
<1>11. ASSUME NEW d \in Clients, ClientAdmin(d) PROVE assign'[<<c, u>>] = "none"
  BY <1>2, <1>6, <1>7, <1>8, <1>11 DEF ClientAdmin, RegenerateClientSecret
<1> QED BY <1>2, <1>5, <1>9, <1>10, <1>11, ClientSteps

LEMMA DeletedStep == DeletedInv /\ [Next]_vars => DeletedInv'
<1> SUFFICES ASSUME DeletedInv, [Next]_vars PROVE DeletedInv'
  OBVIOUS
<1>1. /\ TypeInv /\ TypeInv' /\ DisabledInv /\ DisabledInv' /\ OwnerInv'
      /\ RemovalTakesTokens' /\ CutUserStands' /\ OwnerExists'
  BY TypeStep, DisabledStep, OwnerStep, RemovalTakesTokensStep, CutUserStandsStep,
     OwnerExistsStep
  DEF DeletedInv, OwnerInv
<1>2. ASSUME NEW t \in Tokens PROVE token'[t] \notin {Absent, Gone} <=> token'[t] \in TokenRow
  BY <1>1 DEF TypeInv, TypeOK, TokenRow, Absent, Gone
<1>3. ASSUME NEW u \in Users, user'[u] = "deleted" PROVE UserTokens(u)' = {} /\ UserCodes(u)' = {}
  BY <1>1, <1>3 DEF DisabledInv, DisabledUserHasNoGrant, Usable
<1>4. ASSUME NEW u \in Users, AdminDeleteUserCommit(u)
      PROVE  /\ \A s \in Sessions : session'[s] \notin {Absent, Gone} => session'[s].user # u
             /\ \A t \in Tokens : token'[t] \notin {Absent, Gone} => token'[t].user # u
             /\ \A c \in Clients : consent'[<<c, u>>] = Absent /\ assign'[<<c, u>>] = "none"
  <2>1. \A s \in Sessions : session'[s] =
          IF session[s] # Absent /\ session[s] # Gone /\ session[s].user = u
          THEN Gone ELSE session[s]
    BY <1>4 DEF AdminDeleteUserCommit
  <2>2. \A t \in Tokens : token'[t] = IF t \in removal[u].tokens THEN Gone ELSE token[t]
    BY <1>4 DEF AdminDeleteUserCommit
  <2>3. \A t \in Tokens : token[t] \in TokenRow /\ token[t].user = u => t \in removal[u].tokens
    BY <1>4 DEF AdminDeleteUserCommit, DeletedInv, RemovalTakesTokens
  <2>4. \A t \in Tokens : token'[t] \notin {Absent, Gone} => token'[t].user # u
    BY <1>2, <2>2, <2>3
  <2>5. \A c \in Clients : consent'[<<c, u>>] = Absent /\ assign'[<<c, u>>] = "none"
    BY <1>4 DEF AdminDeleteUserCommit, Pairs
  <2> QED BY <2>1, <2>4, <2>5
<1>5. ASSUME NEW u \in Users, user[u] = "deleted", user'[u] = "deleted"
      PROVE  /\ \A s \in Sessions : session'[s] \notin {Absent, Gone} => session'[s].user # u
             /\ \A t \in Tokens : token'[t] \notin {Absent, Gone} => token'[t].user # u
             /\ \A c \in Clients : consent'[<<c, u>>] = Absent /\ assign'[<<c, u>>] = "none"
  <2>1. /\ \A s \in Sessions : session[s] \notin {Absent, Gone} => session[s].user # u
        /\ \A t \in Tokens : token[t] \notin {Absent, Gone} => token[t].user # u
        /\ \A c \in Clients : consent[<<c, u>>] = Absent /\ assign[<<c, u>>] = "none"
    BY <1>5, DeletedForm DEF DeletedInv
  <2>2. ~Usable(u) /\ UserTokens(u) = {}
    BY <1>1, <1>5 DEF DisabledInv, DisabledUserHasNoGrant, Usable
  <2>3. ASSUME NEW s \in Sessions, session'[s] \notin {Absent, Gone} PROVE session'[s].user # u
    <3>1. ASSUME NEW r \in AccountRequests, LoginCommit(r) PROVE acct[r].user # u
      BY <2>2, <3>1 DEF LoginCommit, SameCredentials
    <3> QED BY <1>1, <2>1, <2>3, <3>1, SessionUsers
  <2>4. ASSUME NEW t \in Tokens, token'[t] \in TokenRow PROVE token'[t].user # u
    <3>1. t \in LiveTokens' => token'[t].user # u
      BY <1>3, <1>5 DEF UserTokens
    <3>2. token[t] \in TokenRow => token[t].user # u
      BY <2>1 DEF TokenRow, Absent, Gone
    <3> QED BY <1>1, <2>4, <3>1, <3>2, TokenUsers
  <2>5. ASSUME NEW c \in Clients PROVE consent'[<<c, u>>] = Absent /\ assign'[<<c, u>>] = "none"
    BY <1>1, <1>5, <2>1, <2>2, ConsentSteps, NoNewAssignment
  <2> QED BY <1>2, <2>3, <2>4, <2>5
<1>6. DeletedUserLeavesNothing'
  <2>1. \A u \in Users : user'[u] = "deleted" => user[u] = "deleted" \/ AdminDeleteUserCommit(u)
    BY <1>1, DeletedSteps
  <2> QED BY <1>3, <1>4, <1>5, <2>1, DeletedForm
<1> QED BY <1>1, <1>6 DEF DeletedInv

LEMMA DeletedInit == Init => DeletedInv
<1>1. Init => DisabledInv /\ OwnerInv
  BY DisabledInit, OwnerInit
<1>2. Init => RemovalTakesTokens /\ CutUserStands /\ OwnerExists
  BY DEF Init, RemovalTakesTokens, CutUserStands, AssignmentWritten, OwnerExists, Absent, Idle
<1>3. Init => DeletedUserLeavesNothing
  BY DeletedForm DEF Init
<1> QED BY <1>1, <1>2, <1>3 DEF DeletedInv

\* Nothing of a deleted account is left or comes back: whatever login,
\* authorization, token request, assignment or start overlapped its deletion
\* (AdminDeleteUser).
THEOREM DeletedSafe == Spec => []DeletedUserLeavesNothing
<1>1. DeletedInv => DeletedUserLeavesNothing
  BY DEF DeletedInv
<1> QED BY <1>1, DeletedInit, DeletedStep, PTL DEF Spec
=============================================================================
