------------------------ MODULE ProvisioningAnnounced ------------------------
(***************************************************************************)
(* Whoever may use the client has been announced.                          *)
(*                                                                         *)
(* A handler dates its events before it commits, and two handlers on one   *)
(* user commit in either order: the lock of the client keeps assigning and *)
(* unassigning apart, the lock of the user keeps the changes of an account *)
(* apart, and nothing keeps one of the first from one of the second.  What *)
(* holds then is that a handler on the account announces only a user it    *)
(* saw assigned, and that an assignment that is to be made is dated after  *)
(* whatever withdrew the user before (AssignIsNewest), as an activation is *)
(* or an assignment committed in the meantime (ActivationAnnounces).       *)
(***************************************************************************)
EXTENDS ProvisioningProofs, WellFoundedInduction

Written(r) == req[r].pc = "written"

Withdrawals(u) == {e \in EventsOf(u) : event[e].kind = "unassigned"}
Admissions(u) == {e \in EventsOf(u) : event[e].kind = "assigned"}

\* The staged events that withdraw the user.
Withdrawing(r, u) == {s \in req[r].staged : s.kind = "unassigned" /\ s.user = u}

(* The row locks, from Begin to the end of the handler.                    *)
ClientLock ==
  \A r, q \in Requests :
    Open(r) /\ Open(q) /\ req[r].op \in OnClient /\ req[q].op \in OnClient => r = q
UserLock ==
  \A r, q \in Requests :
    /\ Open(r) /\ Open(q) /\ req[r].op \in OnUser /\ req[q].op \in OnUser
    /\ req[r].user = req[q].user
    => r = q
LockedUserStays ==
  \A r \in Requests : Open(r) /\ req[r].op \in OnUser => account[req[r].user] # "deleted"
DownIsIdle == ~up => \A r \in Requests : req[r] = Idle

LocksHeld == ClientLock /\ UserLock /\ LockedUserStays /\ DownIsIdle

(* A handler that found no assignment row to change leaves none behind.    *)
RowFound ==
  \A r \in Requests :
    Written(r) /\ req[r].op \in {"assign", "unassign"} /\ ~req[r].hits
      => req[r].user \notin Assigned

(* What a handler has staged speaks of its own user, except where a client *)
(* goes.                                                                   *)
RemovesClient(r) ==
  req[r].op = "removeClient" \/ (req[r].op = "removeUser" /\ req[r].user = Owner)
StagedSubject ==
  \A r \in Requests : Written(r) =>
    /\ \A s \in req[r].staged : s.kind = KindOf(req[r].op)
    /\ ~RemovesClient(r) => \A s \in req[r].staged : s.user = req[r].user
    /\ req[r].op = "assign" => req[r].staged # {}

(* An assignment to be made is dated after every withdrawal of the user,   *)
(* those to be made included.                                              *)
AssignIsNewest ==
  client = "active" =>
    \A r \in Requests, u \in Users :
      /\ Written(r) /\ req[r].op = "assign" /\ req[r].user = u
      /\ account[u] # "deleted" /\ u \notin Assigned
      => \A s \in req[r].staged :
           /\ \A d \in Withdrawals(u) : d < s.id
           /\ \A q \in Requests : Written(q) => \A t \in Withdrawing(q, u) : t.id < s.id

(* An account about to come back announces itself, or was announced        *)
(* already, if the user is assigned.                                       *)
ActivationAnnounces ==
  client = "active" =>
    \A r \in Requests, u \in Assigned :
      Written(r) /\ req[r].op = "activate" /\ req[r].user = u
        => \A d \in Withdrawals(u) : \/ \E a \in Admissions(u) : d < a
                                     \/ \E s \in req[r].staged : d < s.id

AdmittedCovered ==
  client = "active" =>
    \A u \in Assigned : account[u] = "active" =>
      \A d \in Withdrawals(u) : \E a \in Admissions(u) : d < a

AnnouncedInv ==
  LocksHeld /\ RowFound /\ StagedSubject /\ AssignIsNewest /\ ActivationAnnounces /\ AdmittedCovered

-----------------------------------------------------------------------------
(* What the steps do to the history and to the store.                      *)

LEMMA OpenIsRequest ==
  ASSUME TypeOK, NEW r \in Requests, Open(r)
  PROVE  req[r] \in Req /\ req[r].user \in Users /\ req[r].op \in Operations
<1>1. req[r] \in Req
  BY DEF TypeOK, Open, Idle
<1> QED BY <1>1 DEF Req

\* Storing adds to the history what is staged, and nothing else.
LEMMA StoreHistory ==
  ASSUME TypeOK, NEW staged \in SUBSET Staged, NEW initial, Store(staged, initial),
         \A s \in staged : event[s.id] = None, NEW u \in Users
  PROVE  /\ Admissions(u) \subseteq Admissions(u)'
         /\ \A d \in Withdrawals(u)' : \/ d \in Withdrawals(u)
                                       \/ \E s \in staged : /\ s.id = d /\ s.user = u
                                                            /\ s.kind = "unassigned"
         /\ (\A t \in staged : t.kind = "assigned" /\ t.user = u)
              => \A s \in staged : s.id \in Admissions(u)'
<1> DEFINE ids == {s.id : s \in staged}
           Of(e) == CHOOSE s \in staged : s.id = e
           new(e) == [kind |-> Of(e).kind, user |-> Of(e).user]
<1>1. event' = [e \in Ids |-> IF e \in ids THEN new(e) ELSE event[e]]
  BY DEF Store
<1>2. \A e \in ids : Of(e) \in staged /\ Of(e).id = e
  OBVIOUS
<1>3. \A e \in ids : e \in Ids /\ new(e) \in Event /\ event[e] = None
  BY <1>2 DEF Staged, Event
<1>4. None \notin Event
  BY DEF None, Event
<1>5. \A e \in ids : new(e).kind = Of(e).kind /\ new(e).user = Of(e).user
  OBVIOUS
<1> HIDE DEF new, Of
<1>6. \A e \in Ids \ ids : event'[e] = event[e]
  BY <1>1
<1>7. \A e \in ids : event'[e] # None /\ event'[e].kind = Of(e).kind /\ event'[e].user = Of(e).user
  BY <1>1, <1>3, <1>4, <1>5
<1>8. Admissions(u) \subseteq Admissions(u)'
  BY <1>3, <1>6 DEF Admissions, EventsOf
<1>9. \A d \in Withdrawals(u)' : \/ d \in Withdrawals(u)
                                 \/ \E s \in staged : /\ s.id = d /\ s.user = u
                                                      /\ s.kind = "unassigned"
  BY <1>2, <1>6, <1>7 DEF Withdrawals, EventsOf
<1>10. ASSUME \A t \in staged : t.kind = "assigned" /\ t.user = u, NEW s \in staged
       PROVE  s.id \in Admissions(u)'
  BY <1>2, <1>3, <1>7, <1>10 DEF Admissions, EventsOf
<1> QED BY <1>8, <1>9, <1>10

\* A step that stores nothing leaves the history as it is.
LEMMA HistoryKept ==
  ASSUME UNCHANGED event, NEW u
  PROVE  Withdrawals(u)' = Withdrawals(u) /\ Admissions(u)' = Admissions(u)
BY DEF Withdrawals, Admissions, EventsOf

\* Whom a handler on an account, or one that removes a client, announces is
\* assigned.
LEMMA SubjectsAreAssigned ==
  ASSUME TypeOK, NEW r \in Requests, req[r] \in Req, req[r].op \notin {"assign", "unassign"},
         NEW us \in Subjects(r)
  PROVE  us \in Seq(Assigned)
<1> DEFINE op == req[r].op
           u == req[r].user
<1>1. op \in Operations /\ u \in Users
  BY DEF Req
<1>2. ForUser(op, u) \in Seq(Assigned)
  BY DEF ForUser
<1>3. \A s \in Orders(Assigned) : s \in Seq(Assigned)
  <2>1. Assigned \in SUBSET Users
    BY DEF Assigned
  <2>2. IsFiniteSet(Assigned)
    BY <2>1, UsersAssumption, FS_Subset
  <2>3. Cardinality(Assigned) \in Nat
    BY <2>2, FS_CardinalityType
  <2>4. \A s \in Orders(Assigned) : s \in [1 .. Cardinality(Assigned) -> Assigned]
    BY DEF Orders
  <2> QED BY <2>3, <2>4
<1>4. CASE op \in {"activate", "deactivate", "profile"}
  BY <1>2, <1>4 DEF Subjects
<1>5. CASE op = "removeUser" /\ u = Owner
  <2>1. PICK s \in Orders(Assigned) : us = ForUser(op, u) \o s
    BY <1>5 DEF Subjects
  <2> QED BY <2>1, <1>2, <1>3
<1>6. CASE op = "removeUser" /\ u # Owner
  BY <1>2, <1>6 DEF Subjects
<1>7. CASE op = "removeClient"
  BY <1>3, <1>7 DEF Subjects
<1> QED BY <1>1, <1>4, <1>5, <1>6, <1>7 DEF Operations

\* A handler on one account, other than the owner's removal, announces its
\* own user or nobody.
LEMMA OwnSubject ==
  ASSUME TypeOK, NEW r \in Requests, req[r] \in Req, ~RemovesClient(r), NEW us \in Subjects(r)
  PROVE  us = <<req[r].user>> \/ (us = <<>> /\ req[r].op # "assign")
<1>1. req[r].op \in Operations
  BY DEF Req
<1>2. CASE req[r].op \in {"assign", "unassign"}
  BY <1>2 DEF Subjects
<1>3. CASE req[r].op \in {"activate", "deactivate", "profile"}
  BY <1>3 DEF Subjects, ForUser
<1>4. CASE req[r].op = "removeUser"
  BY <1>4 DEF Subjects, ForUser, RemovesClient
<1> QED BY <1>1, <1>2, <1>3, <1>4 DEF Operations, RemovesClient

\* What Write leaves in the request.
LEMMA WriteStages ==
  ASSUME IInv, NEW r \in Requests, Write(r)
  PROVE  /\ req[r].pc = "begun" /\ req[r] \in Req
         /\ \A q \in Requests : q # r => req'[q] = req[q]
         /\ req'[r].pc = "written" /\ req'[r].op = req[r].op /\ req'[r].user = req[r].user
         /\ ~req'[r].hits => assign[req[r].user] = "none"
         /\ \A s \in req'[r].staged : s.kind = KindOf(req[r].op) /\ s.id \in Nat /\ clock < s.id
         /\ req[r].op \notin {"assign", "unassign"} =>
              \A s \in req'[r].staged : s.user \in Assigned
         /\ ~RemovesClient(r) => \A s \in req'[r].staged : s.user = req[r].user
         /\ req[r].op = "assign" => req'[r].staged # {}
         /\ req[r].op = "activate" /\ req[r].user \in Assigned => req'[r].staged # {}
         /\ UNCHANGED <<up, client, account, assign, event>>
<1> DEFINE events(us) == {[id |-> clock + i, kind |-> KindOf(req[r].op), user |-> us[i]] :
                            i \in 1 .. Len(us)}
           inserts == req[r].op = "assign" /\ ~req[r].hits
           hits == inserts \/ assign[req[r].user] # "none"
<1>1. req[r].pc = "begun" /\ req[r] \in Req
  <2>1. req[r].pc = "begun"
    BY DEF Write
  <2> QED BY <2>1 DEF IInv, TypeInv, TypeOK, Idle
<1>2. PICK us \in Subjects(r) :
         req' = [req EXCEPT ![r].pc = "written", ![r].hits = hits,
                            ![r].inserts = inserts, ![r].staged = events(us)]
  BY Zenon DEF Write
<1>3. UNCHANGED <<up, client, account, assign, event>>
  BY DEF Write, store
<1>4. /\ req'[r].pc = "written" /\ req'[r].op = req[r].op /\ req'[r].user = req[r].user
      /\ req'[r].hits = hits /\ req'[r].staged = events(us)
      /\ \A q \in Requests : q # r => req'[q] = req[q]
  <2> HIDE DEF events, inserts, hits
  <2> QED BY <1>1, <1>2 DEF IInv, TypeInv, TypeOK, Req
<1>5. ~req'[r].hits => assign[req[r].user] = "none"
  BY <1>4
<1>6. us \in Seq(Users)
  BY <1>1, SubjectsAreUsers DEF IInv, TypeInv
<1>7. clock \in Nat /\ Len(us) \in Nat
  BY <1>6, BoundsAssumption DEF IInv, TypeInv, TypeOK
<1>8. \A s \in req'[r].staged : s.kind = KindOf(req[r].op) /\ s.id \in Nat /\ clock < s.id
  BY <1>4, <1>7
<1>9. req[r].op \notin {"assign", "unassign"} => \A s \in req'[r].staged : s.user \in Assigned
  <2>1. req[r].op \notin {"assign", "unassign"} => us \in Seq(Assigned)
    BY <1>1, SubjectsAreAssigned DEF IInv, TypeInv
  <2>2. us \in Seq(Assigned) => \A i \in 1 .. Len(us) : us[i] \in Assigned
    OBVIOUS
  <2> QED BY <1>4, <2>1, <2>2
<1>10. ~RemovesClient(r) => us = <<req[r].user>> \/ (us = <<>> /\ req[r].op # "assign")
  BY <1>1, OwnSubject DEF IInv, TypeInv
<1>11. ~RemovesClient(r) => \A s \in req'[r].staged : s.user = req[r].user
  BY <1>4, <1>10
<1>12. us = <<req[r].user>> => req'[r].staged # {}
  <2> SUFFICES ASSUME us = <<req[r].user>> PROVE req'[r].staged # {}
    OBVIOUS
  <2>1. 1 \in 1 .. Len(us)
    OBVIOUS
  <2>2. [id |-> clock + 1, kind |-> KindOf(req[r].op), user |-> us[1]] \in events(us)
    BY <2>1
  <2> QED BY <2>2, <1>4
<1>13. /\ req[r].op = "assign" => us = <<req[r].user>>
       /\ req[r].op = "activate" /\ req[r].user \in Assigned => us = <<req[r].user>>
  BY <1>10 DEF Subjects, ForUser, RemovesClient
<1> QED BY <1>1, <1>3, <1>4, <1>5, <1>8, <1>9, <1>11, <1>12, <1>13

\* What a commit changes in the store.
LEMMA ChangeEffects ==
  ASSUME TypeOK, NEW r \in Requests, Open(r), Change(r), NEW u \in Users
  PROVE  /\ u \in Assigned' /\ u \notin Assigned =>
              req[r].op = "assign" /\ req[r].hits /\ req[r].user = u
         /\ u \in Assigned /\ u \notin Assigned' =>
              \/ req[r].op = "unassign" /\ req[r].user = u
              \/ req[r].op = "removeUser" /\ req[r].user = u
              \/ RemovesClient(r)
         /\ account'[u] # account[u] =>
              req[r].op \in {"activate", "deactivate", "removeUser"} /\ req[r].user = u
         /\ client' = "active" => client = "active" /\ ~RemovesClient(r)
         /\ req[r].op = "deactivate" /\ req[r].user = u => account'[u] = "inactive"
         /\ req[r].op = "removeUser" /\ req[r].user = u => account'[u] = "deleted"
         /\ req[r].op = "unassign" /\ req[r].hits /\ req[r].user = u => u \notin Assigned'
<1>1. req[r].user \in Users /\ req[r].op \in Operations
  BY OpenIsRequest
<1>2. /\ account \in [Users -> {"active", "inactive", "deleted"}]
      /\ assign \in [Users -> {"none", "active", "deleted"}]
      /\ client \in {"active", "deleted"}
  BY DEF TypeOK
<1>3. client' = "active" => client = "active" /\ ~RemovesClient(r)
  BY <1>2 DEF Change, RemovesClient
<1>4. CASE req[r].op = "assign"
  BY <1>1, <1>2, <1>3, <1>4 DEF Change, Assigned
<1>5. CASE req[r].op = "unassign"
  BY <1>1, <1>2, <1>3, <1>5 DEF Change, Assigned
<1>6. CASE req[r].op = "activate"
  BY <1>1, <1>2, <1>3, <1>6 DEF Change, Assigned
<1>7. CASE req[r].op = "deactivate"
  BY <1>1, <1>2, <1>3, <1>7 DEF Change, Assigned
<1>8. CASE req[r].op = "profile"
  BY <1>1, <1>2, <1>3, <1>8 DEF Change, Assigned
<1>9. CASE req[r].op = "removeUser"
  BY <1>1, <1>2, <1>3, <1>9 DEF Change, Assigned, RemovesClient
<1>10. CASE req[r].op = "removeClient"
  BY <1>1, <1>2, <1>3, <1>10 DEF Change, Assigned, RemovesClient
<1> QED BY <1>1, <1>4, <1>5, <1>6, <1>7, <1>8, <1>9, <1>10 DEF Operations

-----------------------------------------------------------------------------
(* The invariant, step by step.                                            *)

\* Steps that leave the store and the history alone, and begin nothing.
LEMMA QuietKept ==
  ASSUME AnnouncedInv, UNCHANGED <<client, account, assign, event>>,
         \A r \in Requests : Open(r)' => req'[r] = req[r],
         ~up' => \A r \in Requests : req'[r] = Idle
  PROVE  AnnouncedInv'
<1>1. \A r \in Requests : Open(r)' => Open(r) /\ req'[r] = req[r]
  BY DEF Open
<1>2. \A r \in Requests : Written(r)' => Written(r) /\ req'[r] = req[r]
  BY DEF Open, Written
<1>3. Assigned' = Assigned
  BY DEF Assigned
<1>4. \A u : Withdrawals(u)' = Withdrawals(u) /\ Admissions(u)' = Admissions(u)
  BY DEF Withdrawals, Admissions, EventsOf
<1>5. LocksHeld'
  BY <1>1 DEF AnnouncedInv, LocksHeld, ClientLock, UserLock, LockedUserStays, DownIsIdle
<1>6. RowFound' /\ StagedSubject'
  BY <1>2, <1>3 DEF AnnouncedInv, RowFound, StagedSubject, RemovesClient
<1>7. AssignIsNewest'
  BY <1>2, <1>3, <1>4 DEF AnnouncedInv, AssignIsNewest, Withdrawing
<1>8. ActivationAnnounces'
  BY <1>2, <1>3, <1>4 DEF AnnouncedInv, ActivationAnnounces
<1>9. AdmittedCovered'
  BY <1>3, <1>4 DEF AnnouncedInv, AdmittedCovered
<1> QED BY <1>5, <1>6, <1>7, <1>8, <1>9 DEF AnnouncedInv

\* Every request takes its lock.
LEMMA EveryRequestLocks ==
  ASSUME NEW r \in Requests, Request(r)
  PROVE  \E op \in Operations, u \in Users :
           /\ Begin(r, op, u)
           /\ op \in OnClient => ~ClientLocked
           /\ op \in OnUser => account[u] # "deleted" /\ ~UserLocked(u)
<1>1. CASE \E u \in Users : AssignClientUser(r, u)
  BY <1>1 DEF AssignClientUser, Operations, OnUser
<1>2. CASE \E u \in Users : DeleteClientAssignment(r, u)
  BY <1>2 DEF DeleteClientAssignment, Operations, OnUser
<1>3. CASE \E u \in Users, op \in {"activate", "deactivate"} : AdminUpdateStatus(r, u, op)
  BY <1>3 DEF AdminUpdateStatus, Operations, OnClient
<1>4. CASE \E u \in Users : UpdateProfile(r, u)
  BY <1>4 DEF UpdateProfile, Operations, OnClient
<1>5. CASE \E u \in Users : AdminDeleteUser(r, u)
  BY <1>5 DEF AdminDeleteUser, Operations, OnClient
<1>6. CASE DeleteClient(r)
  <2>1. (CHOOSE u \in Users : TRUE) \in Users
    BY UsersAssumption
  <2> QED BY <1>6, <2>1 DEF DeleteClient, Operations, OnUser
<1> QED BY <1>1, <1>2, <1>3, <1>4, <1>5, <1>6 DEF Request

LEMMA BeginAnnounced ==
  ASSUME IInv, AnnouncedInv, NEW r \in Requests, Request(r)
  PROVE  AnnouncedInv'
<1>1. PICK op \in Operations, u \in Users :
         /\ Begin(r, op, u)
         /\ op \in OnClient => ~ClientLocked
         /\ op \in OnUser => account[u] # "deleted" /\ ~UserLocked(u)
  BY EveryRequestLocks
<1>2. /\ UNCHANGED <<up, client, account, assign, event>>
      /\ up
      /\ req'[r].pc = "begun" /\ req'[r].op = op /\ req'[r].user = u
      /\ \A q \in Requests : q # r => req'[q] = req[q]
  BY <1>1 DEF Begin, store, outbox, IInv, TypeInv, TypeOK
<1>3. \A q \in Requests : Written(q)' => Written(q) /\ req'[q] = req[q]
  BY <1>2 DEF Written
<1>4. \A q \in Requests : q # r /\ Open(q)' => Open(q) /\ req'[q] = req[q]
  BY <1>2 DEF Open
<1>5. Assigned' = Assigned
  BY <1>2 DEF Assigned
<1>6. \A v : Withdrawals(v)' = Withdrawals(v) /\ Admissions(v)' = Admissions(v)
  BY <1>2 DEF Withdrawals, Admissions, EventsOf
<1>7. ClientLock'
  <2> SUFFICES ASSUME NEW p \in Requests, NEW q \in Requests, p # q,
                      Open(p)', Open(q)', req'[p].op \in OnClient, req'[q].op \in OnClient
               PROVE  FALSE
    BY DEF ClientLock
  <2>1. CASE p # r /\ q # r
    BY <2>1, <1>4 DEF AnnouncedInv, LocksHeld, ClientLock
  <2>2. CASE p = r \/ q = r
    BY <2>2, <1>1, <1>2, <1>4 DEF ClientLocked
  <2> QED BY <2>1, <2>2
<1>8. UserLock'
  <2> SUFFICES ASSUME NEW p \in Requests, NEW q \in Requests, p # q,
                      Open(p)', Open(q)', req'[p].op \in OnUser, req'[q].op \in OnUser,
                      req'[p].user = req'[q].user
               PROVE  FALSE
    BY DEF UserLock
  <2>1. CASE p # r /\ q # r
    BY <2>1, <1>4 DEF AnnouncedInv, LocksHeld, UserLock
  <2>2. CASE p = r \/ q = r
    BY <2>2, <1>1, <1>2, <1>4 DEF UserLocked, UserLockedBy
  <2> QED BY <2>1, <2>2
<1>9. LockedUserStays' /\ DownIsIdle'
  BY <1>1, <1>2, <1>4 DEF AnnouncedInv, LocksHeld, LockedUserStays, DownIsIdle
<1>10. RowFound' /\ StagedSubject'
  BY <1>3, <1>5 DEF AnnouncedInv, RowFound, StagedSubject, RemovesClient
<1>11. AssignIsNewest'
  BY <1>2, <1>3, <1>5, <1>6 DEF AnnouncedInv, AssignIsNewest, Withdrawing
<1>12. ActivationAnnounces'
  BY <1>2, <1>3, <1>5, <1>6 DEF AnnouncedInv, ActivationAnnounces
<1>13. AdmittedCovered'
  BY <1>2, <1>5, <1>6 DEF AnnouncedInv, AdmittedCovered
<1> QED BY <1>7, <1>8, <1>9, <1>10, <1>11, <1>12, <1>13 DEF AnnouncedInv, LocksHeld

\* Dates committed or staged so far are not beyond the clock.
LEMMA DatesPast ==
  ASSUME IInv
  PROVE  /\ clock \in Nat
         /\ \A u : \A d \in Withdrawals(u) : d \in Nat /\ d <= clock
         /\ \A u : \A a \in Admissions(u) : a \in Nat /\ a <= clock
         /\ \A r \in Requests : Written(r) =>
              /\ req[r].staged \in SUBSET Staged
              /\ \A s \in req[r].staged : s.id \in Nat /\ s.id <= clock /\ event[s.id] = None
<1>1. clock \in Nat /\ MaxEvents \in Nat
  BY BoundsAssumption DEF IInv, TypeInv, TypeOK
<1>2. \A e \in Ids : e \in Nat /\ (event[e] # None => e <= clock)
  BY <1>1 DEF IInv, EventsKnown, Ids
<1>3. \A r \in Requests : Written(r) => req[r].staged \in SUBSET Staged
  <2> SUFFICES ASSUME NEW r \in Requests, Written(r) PROVE req[r].staged \in SUBSET Staged
    OBVIOUS
  <2>1. req[r] \in Req
    BY OpenIsRequest DEF IInv, TypeInv, Written, Open
  <2> QED BY <2>1 DEF Req
<1>4. \A r \in Requests : Written(r) => \A s \in req[r].staged :
         s.id \in Nat /\ s.id <= clock /\ event[s.id] = None
  BY <1>2, <1>3 DEF IInv, EventsKnown, Written, Staged
<1> QED BY <1>1, <1>2, <1>3, <1>4 DEF Withdrawals, Admissions, EventsOf

LEMMA WriteAnnounced ==
  ASSUME IInv, AnnouncedInv, NEW r \in Requests, Write(r)
  PROVE  AnnouncedInv'
<1> DEFINE op == req[r].op
           u == req[r].user
           new == req'[r]
<1>1. /\ req[r].pc = "begun" /\ req[r] \in Req
      /\ \A q \in Requests : q # r => req'[q] = req[q]
      /\ new.pc = "written" /\ new.op = op /\ new.user = u
      /\ ~new.hits => assign[u] = "none"
      /\ \A s \in new.staged : s.kind = KindOf(op) /\ s.id \in Nat /\ clock < s.id
      /\ op \notin {"assign", "unassign"} => \A s \in new.staged : s.user \in Assigned
      /\ ~RemovesClient(r) => \A s \in new.staged : s.user = u
      /\ op = "assign" => new.staged # {}
      /\ op = "activate" /\ u \in Assigned => new.staged # {}
      /\ UNCHANGED <<up, client, account, assign, event>>
  BY WriteStages
<1> HIDE DEF new
<1>2. /\ clock \in Nat
      /\ \A v : \A d \in Withdrawals(v) : d \in Nat /\ d <= clock
      /\ \A q \in Requests : Written(q) =>
           \A s \in req[q].staged : s.id \in Nat /\ s.id <= clock
  BY DatesPast
<1>3. Assigned' = Assigned
  BY <1>1 DEF Assigned
<1>4. \A v : Withdrawals(v)' = Withdrawals(v) /\ Admissions(v)' = Admissions(v)
  BY <1>1 DEF Withdrawals, Admissions, EventsOf
<1>5. \A q \in Requests : q # r /\ Written(q)' => Written(q) /\ req'[q] = req[q]
  BY <1>1 DEF Written
<1>6. Open(r) /\ \A q \in Requests : Open(q)' => Open(q) /\ req'[q].op = req[q].op
                                              /\ req'[q].user = req[q].user
  BY <1>1 DEF Open, new
<1>7. LocksHeld'
  BY <1>1, <1>6 DEF AnnouncedInv, LocksHeld, ClientLock, UserLock, LockedUserStays,
                    DownIsIdle, Open, Idle
<1>8. RowFound'
  BY <1>1, <1>3, <1>5 DEF AnnouncedInv, RowFound, new, Assigned, Written
<1>9. RemovesClient(r)' = RemovesClient(r)
  BY <1>1 DEF RemovesClient, new
<1>10. StagedSubject'
  <2> SUFFICES ASSUME NEW q \in Requests, Written(q)'
               PROVE  /\ \A s \in req'[q].staged : s.kind = KindOf(req'[q].op)
                      /\ ~RemovesClient(q)' => \A s \in req'[q].staged : s.user = req'[q].user
                      /\ req'[q].op = "assign" => req'[q].staged # {}
    BY DEF StagedSubject
  <2>1. CASE q = r
    BY <2>1, <1>1, <1>9 DEF new
  <2>2. CASE q # r
    BY <2>2, <1>5 DEF AnnouncedInv, StagedSubject, RemovesClient
  <2> QED BY <2>1, <2>2
<1>11. AssignIsNewest'
  <2> SUFFICES ASSUME client' = "active", NEW p \in Requests, NEW v \in Users, Written(p)',
                      req'[p].op = "assign", req'[p].user = v, account'[v] # "deleted",
                      v \notin Assigned', NEW s \in req'[p].staged
               PROVE  /\ \A d \in Withdrawals(v)' : d < s.id
                      /\ \A q \in Requests : Written(q)' =>
                           \A t \in Withdrawing(q, v)' : t.id < s.id
    BY DEF AssignIsNewest
  <2>1. CASE p = r
    <3>1. s.id \in Nat /\ clock < s.id
      BY <2>1, <1>1 DEF new
    <3>2. \A d \in Withdrawals(v)' : d < s.id
      BY <3>1, <1>2, <1>4
    <3>3. \A t \in Withdrawing(r, v)' : t.id < s.id
      BY <2>1, <1>1 DEF Withdrawing, KindOf, new
    <3>4. \A q \in Requests : q # r /\ Written(q)' =>
            \A t \in Withdrawing(q, v)' : t.id < s.id
      BY <3>1, <1>2, <1>5 DEF Withdrawing
    <3> QED BY <3>2, <3>3, <3>4
  <2>2. CASE p # r
    <3>1. Written(p) /\ req'[p] = req[p]
      BY <2>2, <1>5
    <3>2. /\ \A d \in Withdrawals(v) : d < s.id
          /\ \A q \in Requests : Written(q) => \A t \in Withdrawing(q, v) : t.id < s.id
      BY <3>1, <1>1, <1>3 DEF AnnouncedInv, AssignIsNewest
    <3>3. \A t \in Withdrawing(r, v)' : FALSE
      <4>1. op \notin OnClient
        BY <2>2, <3>1, <1>6 DEF AnnouncedInv, LocksHeld, ClientLock, Written, Open, OnClient
      <4>2. \A t \in new.staged : t.user \in Assigned
        BY <4>1, <1>1 DEF OnClient
      <4> QED BY <4>2, <1>3 DEF Withdrawing, new
    <3>4. \A q \in Requests : q # r /\ Written(q)' =>
            \A t \in Withdrawing(q, v)' : t.id < s.id
      BY <3>2, <1>5 DEF Withdrawing
    <3> QED BY <3>2, <3>3, <3>4, <1>4
  <2> QED BY <2>1, <2>2
<1>12. ActivationAnnounces'
  <2> SUFFICES ASSUME client' = "active", NEW p \in Requests, NEW v \in Assigned',
                      Written(p)', req'[p].op = "activate", req'[p].user = v,
                      NEW d \in Withdrawals(v)'
               PROVE  \/ \E a \in Admissions(v)' : d < a
                      \/ \E s \in req'[p].staged : d < s.id
    BY DEF ActivationAnnounces
  <2>1. CASE p = r
    <3>1. new.staged # {}
      BY <2>1, <1>1, <1>3 DEF new
    <3> QED BY <2>1, <3>1, <1>1, <1>2, <1>4 DEF new
  <2>2. CASE p # r
    BY <2>2, <1>1, <1>3, <1>4, <1>5 DEF AnnouncedInv, ActivationAnnounces
  <2> QED BY <2>1, <2>2
<1>13. AdmittedCovered'
  BY <1>1, <1>3, <1>4 DEF AnnouncedInv, AdmittedCovered
<1> QED BY <1>7, <1>8, <1>10, <1>11, <1>12, <1>13 DEF AnnouncedInv

\* What a commit does to the history.
LEMMA CommitHistory ==
  ASSUME IInv, NEW r \in Requests, Commit(r), NEW u \in Users
  PROVE  /\ Admissions(u) \subseteq Admissions(u)'
         /\ \A d \in Withdrawals(u)' :
              d \in Withdrawals(u) \/ \E s \in Withdrawing(r, u) : s.id = d
         /\ (\A t \in req[r].staged : t.kind = "assigned" /\ t.user = u)
              => \A s \in req[r].staged : s.id \in Admissions(u)'
<1>1. Written(r) /\ Store(req[r].staged, FALSE)
  BY DEF Commit, Written
<1> DEFINE staged == req[r].staged
<1>2. staged \in SUBSET Staged /\ \A s \in staged : event[s.id] = None
  BY <1>1, DatesPast
<1>3. TypeOK
  BY DEF IInv, TypeInv
<1>4. Store(staged, FALSE)
  BY <1>1
<1>5. Withdrawing(r, u) = {s \in staged : s.kind = "unassigned" /\ s.user = u}
  BY DEF Withdrawing
<1> HIDE DEF staged
<1>6. /\ Admissions(u) \subseteq Admissions(u)'
      /\ \A d \in Withdrawals(u)' : \/ d \in Withdrawals(u)
                                    \/ \E s \in staged : /\ s.id = d /\ s.user = u
                                                         /\ s.kind = "unassigned"
      /\ (\A t \in staged : t.kind = "assigned" /\ t.user = u)
           => \A s \in staged : s.id \in Admissions(u)'
  BY <1>2, <1>3, <1>4, StoreHistory
<1>7. \A d \in Withdrawals(u)' : d \in Withdrawals(u) \/ \E s \in Withdrawing(r, u) : s.id = d
  BY <1>5, <1>6
<1> QED BY <1>6, <1>7 DEF staged

\* What is committed that withdraws an admitted user of a client that is
\* there withdraws nobody: the account or the assignment ends with it.
LEMMA WithdrawnIsNotAdmitted ==
  ASSUME IInv, AnnouncedInv, NEW r \in Requests, Commit(r), NEW u \in Users,
         Withdrawing(r, u) # {}, client' = "active"
  PROVE  \/ u \notin Assigned'
         \/ req[r].op \in {"deactivate", "removeUser"} /\ req[r].user = u
<1>1. Written(r) /\ Open(r) /\ Change(r)
  BY DEF Commit, Written, Open
<1>2. req[r].op \in Operations
  BY <1>1, OpenIsRequest DEF IInv, TypeInv
<1>3. ~RemovesClient(r)
  BY <1>1, ChangeEffects DEF IInv, TypeInv
<1>4. KindOf(req[r].op) = "unassigned" /\ req[r].user = u
  BY <1>1, <1>3 DEF AnnouncedInv, StagedSubject, Withdrawing
<1>5. req[r].op \in {"unassign", "deactivate", "removeUser"}
  BY <1>2, <1>3, <1>4 DEF KindOf, Operations, RemovesClient
<1>6. CASE req[r].op = "unassign"
  <2>1. ~req[r].hits => u \notin Assigned
    BY <1>1, <1>4, <1>6 DEF AnnouncedInv, RowFound
  <2> QED BY <2>1, <1>1, <1>4, <1>6, ChangeEffects DEF IInv, TypeInv
<1> QED BY <1>4, <1>5, <1>6

LEMMA CommitAnnounced ==
  ASSUME IInv, AnnouncedInv, NEW r \in Requests, Commit(r)
  PROVE  AnnouncedInv'
<1> DEFINE op == req[r].op
<1>1. Written(r) /\ Open(r) /\ Change(r)
  BY DEF Commit, Written, Open
<1>2. req[r].user \in Users /\ op \in Operations
  BY <1>1, OpenIsRequest DEF IInv, TypeInv
<1>3. \A q \in Requests : Open(q)' => q # r /\ Open(q) /\ req'[q] = req[q]
  BY DEF Commit, IInv, TypeInv, TypeOK, Open
<1>4. \A q \in Requests : Written(q)' => q # r /\ Written(q) /\ Open(q) /\ req'[q] = req[q]
  BY <1>3 DEF Written, Open
<1>5. client' = "active" => client = "active" /\ ~RemovesClient(r)
  BY <1>1, <1>2, ChangeEffects DEF IInv, TypeInv
<1>6. \A u \in Users :
        /\ u \in Assigned' /\ u \notin Assigned => op = "assign" /\ req[r].hits /\ req[r].user = u
        /\ u \in Assigned /\ u \notin Assigned' =>
             \/ op = "unassign" /\ req[r].user = u
             \/ op = "removeUser" /\ req[r].user = u
             \/ RemovesClient(r)
        /\ account'[u] # account[u] =>
             op \in {"activate", "deactivate", "removeUser"} /\ req[r].user = u
        /\ op = "deactivate" /\ req[r].user = u => account'[u] = "inactive"
        /\ op = "removeUser" /\ req[r].user = u => account'[u] = "deleted"
  BY <1>1, ChangeEffects DEF IInv, TypeInv
<1>7. \A u \in Users :
        /\ Admissions(u) \subseteq Admissions(u)'
        /\ \A d \in Withdrawals(u)' :
             d \in Withdrawals(u) \/ \E s \in Withdrawing(r, u) : s.id = d
        /\ (\A t \in req[r].staged : t.kind = "assigned" /\ t.user = u)
             => \A s \in req[r].staged : s.id \in Admissions(u)'
  BY CommitHistory
<1>8. \A u \in Users : client' = "active" /\ Withdrawing(r, u) # {} =>
        u \notin Assigned' \/ (op \in {"deactivate", "removeUser"} /\ req[r].user = u)
  BY WithdrawnIsNotAdmitted
<1>9. op \in {"assign", "activate"} =>
        \A t \in req[r].staged : t.kind = "assigned" /\ t.user = req[r].user
  BY <1>1 DEF AnnouncedInv, StagedSubject, KindOf, RemovesClient
<1>10. LocksHeld'
  <2>1. up /\ up' = up
    BY <1>1 DEF Commit, AnnouncedInv, LocksHeld, DownIsIdle, Open, Idle
  <2>2. ClientLock' /\ UserLock'
    BY <1>3 DEF AnnouncedInv, LocksHeld, ClientLock, UserLock
  <2>3. LockedUserStays'
    <3> SUFFICES ASSUME NEW q \in Requests, Open(q)', req'[q].op \in OnUser
                 PROVE  account'[req'[q].user] # "deleted"
      BY DEF LockedUserStays
    <3>1. q # r /\ Open(q) /\ req'[q] = req[q]
      BY <1>3
    <3>2. req[q].user \in Users
      BY <3>1, OpenIsRequest DEF IInv, TypeInv
    <3>3. account[req[q].user] # "deleted"
      BY <3>1 DEF AnnouncedInv, LocksHeld, LockedUserStays
    <3>4. account'[req[q].user] = account[req[q].user]
      BY <3>1, <3>2, <1>1, <1>6 DEF AnnouncedInv, LocksHeld, UserLock, OnUser
    <3> QED BY <3>1, <3>3, <3>4
  <2> QED BY <2>1, <2>2, <2>3 DEF LocksHeld, DownIsIdle
<1>11. RowFound'
  <2> SUFFICES ASSUME NEW q \in Requests, Written(q)', req'[q].op \in {"assign", "unassign"},
                      ~req'[q].hits
               PROVE  req'[q].user \notin Assigned'
    BY DEF RowFound
  <2>1. q # r /\ Written(q) /\ Open(q) /\ req'[q] = req[q]
    BY <1>4
  <2>2. req[q].user \in Users /\ req[q].user \notin Assigned
    BY <2>1, OpenIsRequest DEF AnnouncedInv, RowFound, IInv, TypeInv
  <2>3. op # "assign"
    BY <2>1, <1>1 DEF AnnouncedInv, LocksHeld, ClientLock, OnClient
  <2> QED BY <2>1, <2>2, <2>3, <1>6
<1>12. StagedSubject'
  BY <1>4 DEF AnnouncedInv, StagedSubject, RemovesClient
<1>13. AssignIsNewest'
  <2> SUFFICES ASSUME client' = "active", NEW p \in Requests, NEW v \in Users, Written(p)',
                      req'[p].op = "assign", req'[p].user = v, account'[v] # "deleted",
                      v \notin Assigned', NEW s \in req'[p].staged
               PROVE  /\ \A d \in Withdrawals(v)' : d < s.id
                      /\ \A q \in Requests : Written(q)' =>
                           \A t \in Withdrawing(q, v)' : t.id < s.id
    BY DEF AssignIsNewest
  <2>1. p # r /\ Written(p) /\ Open(p) /\ req'[p] = req[p]
    BY <1>4
  <2>2. op \notin OnClient
    BY <2>1, <1>1 DEF AnnouncedInv, LocksHeld, ClientLock, OnClient
  <2>3. v \notin Assigned
    BY <2>2, <1>5, <1>6 DEF OnClient
  <2>4. account[v] # "deleted"
    <3> SUFFICES ASSUME account'[v] # account[v] PROVE account[v] # "deleted"
      OBVIOUS
    <3>1. op \in OnUser /\ req[r].user = v
      BY <1>6 DEF OnUser
    <3> QED BY <3>1, <1>1 DEF AnnouncedInv, LocksHeld, LockedUserStays
  <2>5. /\ \A d \in Withdrawals(v) : d < s.id
        /\ \A q \in Requests : Written(q) => \A t \in Withdrawing(q, v) : t.id < s.id
    BY <2>1, <2>3, <2>4, <1>5 DEF AnnouncedInv, AssignIsNewest
  <2>6. \A q \in Requests : Written(q)' => \A t \in Withdrawing(q, v)' : t.id < s.id
    BY <2>5, <1>4 DEF Withdrawing
  <2> QED BY <2>5, <2>6, <1>1, <1>7
<1>14. ASSUME client' = "active", NEW u \in Users, u \in Assigned', account'[u] # "deleted",
              account[u] # "deleted", op = "assign", req[r].user = u, u \notin Assigned,
              NEW d \in Withdrawals(u)
       PROVE  \E a \in Admissions(u)' : d < a
  <2>1. PICK s \in req[r].staged : TRUE
    BY <1>1, <1>14 DEF AnnouncedInv, StagedSubject
  <2>2. d < s.id
    BY <2>1, <1>1, <1>5, <1>14 DEF AnnouncedInv, AssignIsNewest
  <2>3. s.id \in Admissions(u)'
    BY <2>1, <1>7, <1>9, <1>14
  <2> QED BY <2>2, <2>3
<1>15. ActivationAnnounces'
  <2> SUFFICES ASSUME client' = "active", NEW p \in Requests, NEW v \in Assigned',
                      Written(p)', req'[p].op = "activate", req'[p].user = v,
                      NEW d \in Withdrawals(v)'
               PROVE  \/ \E a \in Admissions(v)' : d < a
                      \/ \E s \in req'[p].staged : d < s.id
    BY DEF ActivationAnnounces
  <2>1. p # r /\ Written(p) /\ Open(p) /\ req'[p] = req[p]
    BY <1>4
  <2>2. v \in Users
    BY <2>1, OpenIsRequest DEF IInv, TypeInv
  <2>3. ~(op \in OnUser /\ req[r].user = v)
    BY <2>1, <1>1 DEF AnnouncedInv, LocksHeld, UserLock, OnUser
  <2>4. Withdrawing(r, v) = {}
    BY <2>2, <2>3, <1>8 DEF OnUser
  <2>5. d \in Withdrawals(v)
    BY <2>2, <2>4, <1>7
  <2>6. account[v] # "deleted" /\ account'[v] = account[v]
    BY <2>1, <2>2, <2>3, <1>6 DEF AnnouncedInv, LocksHeld, LockedUserStays, OnUser
  <2>7. CASE v \notin Assigned
    BY <2>2, <2>5, <2>6, <2>7, <1>6, <1>14
  <2>8. CASE v \in Assigned
    <3>1. (\E a \in Admissions(v) : d < a) \/ (\E s \in req[p].staged : d < s.id)
      BY <2>1, <2>5, <2>8, <1>5 DEF AnnouncedInv, ActivationAnnounces
    <3> QED BY <3>1, <2>1, <2>2, <1>7
  <2> QED BY <2>7, <2>8
<1>16. AdmittedCovered'
  <2> SUFFICES ASSUME client' = "active", NEW u \in Assigned', account'[u] = "active",
                      NEW d \in Withdrawals(u)'
               PROVE  \E a \in Admissions(u)' : d < a
    BY DEF AdmittedCovered
  <2>1. u \in Users
    BY DEF Assigned
  <2>2. ~(op \in {"deactivate", "removeUser"} /\ req[r].user = u)
    BY <2>1, <1>6
  <2>3. d \in Withdrawals(u)
    BY <2>1, <2>2, <1>7, <1>8
  <2>4. CASE op = "activate" /\ req[r].user = u
    <3>1. u \in Assigned
      BY <2>1, <2>4, <1>6
    <3>2. (\E a \in Admissions(u) : d < a) \/ (\E s \in req[r].staged : d < s.id)
      BY <2>3, <2>4, <3>1, <1>1, <1>5 DEF AnnouncedInv, ActivationAnnounces
    <3>3. \A s \in req[r].staged : s.id \in Admissions(u)'
      BY <2>1, <2>4, <1>7, <1>9
    <3> QED BY <2>1, <3>2, <3>3, <1>7
  <2>5. CASE ~(op = "activate" /\ req[r].user = u)
    <3>1. account[u] = "active"
      BY <2>1, <2>2, <2>5, <1>6
    <3>2. CASE u \notin Assigned
      BY <2>1, <2>3, <3>1, <3>2, <1>6, <1>14
    <3>3. CASE u \in Assigned
      <4>1. \E a \in Admissions(u) : d < a
        BY <2>3, <3>1, <3>3, <1>5 DEF AnnouncedInv, AdmittedCovered
      <4> QED BY <4>1, <2>1, <1>7
    <3> QED BY <3>2, <3>3
  <2> QED BY <2>4, <2>5
<1> QED BY <1>10, <1>11, <1>12, <1>13, <1>15, <1>16 DEF AnnouncedInv

\* A start adds announcements only, and finds no handler in flight.
LEMMA StartAnnounced ==
  ASSUME IInv, AnnouncedInv, Start
  PROVE  AnnouncedInv'
<1> DEFINE events(us) == {[id |-> clock + i, kind |-> "assigned", user |-> us[i]] :
                            i \in 1 .. Len(us)}
<1>1. PICK us \in Orders(Assigned \ Snapshot) :
         clock + Len(us) <= MaxEvents /\ clock' = clock + Len(us) /\ Store(events(us), TRUE)
  BY DEF Start
<1>2. us \in Seq(Users)
  <2>1. Assigned \ Snapshot \in SUBSET Users
    BY DEF Assigned
  <2> QED BY <2>1, OrdersAreSequences
<1>3. clock \in Nat /\ Len(us) \in Nat /\ clock + Len(us) \in 0 .. MaxEvents
  BY <1>1, <1>2, BoundsAssumption DEF IInv, TypeInv, TypeOK
<1>4. events(us) \in SUBSET Staged
  BY <1>2, <1>3, StagedType DEF IInv, TypeInv, Kinds
<1>5. \A s \in events(us) : event[s.id] = None
  <2> SUFFICES ASSUME NEW s \in events(us) PROVE event[s.id] = None
    OBVIOUS
  <2>1. s.id \in Ids /\ clock < s.id
    BY <1>3, <1>4 DEF Staged
  <2> QED BY <2>1, <1>3, BoundsAssumption DEF IInv, EventsKnown, Ids
<1>6. \A s \in events(us) : s.kind # "unassigned"
  OBVIOUS
<1> DEFINE staged == events(us)
<1> HIDE DEF events
<1>7. \A u \in Users :
        Admissions(u) \subseteq Admissions(u)' /\ Withdrawals(u)' \subseteq Withdrawals(u)
  <2> SUFFICES ASSUME NEW u \in Users
               PROVE  Admissions(u) \subseteq Admissions(u)'
                      /\ Withdrawals(u)' \subseteq Withdrawals(u)
    OBVIOUS
  <2>1. TypeOK /\ Store(staged, TRUE) /\ staged \in SUBSET Staged
    BY <1>1, <1>4 DEF IInv, TypeInv
  <2>2. \A s \in staged : event[s.id] = None /\ s.kind # "unassigned"
    BY <1>5, <1>6
  <2> HIDE DEF staged
  <2>3. /\ Admissions(u) \subseteq Admissions(u)'
        /\ \A d \in Withdrawals(u)' : \/ d \in Withdrawals(u)
                                      \/ \E s \in staged : /\ s.id = d /\ s.user = u
                                                           /\ s.kind = "unassigned"
    BY <2>1, <2>2, StoreHistory
  <2> QED BY <2>2, <2>3
<1>8. UNCHANGED <<client, account, assign, req>> /\ up'
  BY DEF Start, store
<1>9. \A r \in Requests : req[r] = Idle
  BY DEF Start, AnnouncedInv, LocksHeld, DownIsIdle
<1>10. \A r \in Requests : ~Open(r)' /\ ~Written(r)'
  BY <1>8, <1>9 DEF Open, Written, Idle
<1>11. AdmittedCovered'
  <2>1. Assigned' = Assigned /\ Assigned \in SUBSET Users
    BY <1>8 DEF Assigned
  <2> QED BY <2>1, <1>7, <1>8 DEF AnnouncedInv, AdmittedCovered
<1> QED BY <1>8, <1>10, <1>11 DEF AnnouncedInv, LocksHeld, ClientLock, UserLock,
           LockedUserStays, DownIsIdle, RowFound, StagedSubject, AssignIsNewest,
           ActivationAnnounces

LEMMA InitAnnounced == Init => AnnouncedInv
<1> SUFFICES ASSUME Init PROVE AnnouncedInv
  OBVIOUS
<1>1. \A r \in Requests : req[r] = Idle
  BY DEF Init
<1>2. \A r \in Requests : ~Open(r) /\ ~Written(r)
  BY <1>1 DEF Open, Written, Idle
<1>3. \A u : Withdrawals(u) = {}
  BY DEF Withdrawals, EventsOf, Init
<1> QED BY <1>1, <1>2, <1>3 DEF AnnouncedInv, LocksHeld, ClientLock, UserLock,
           LockedUserStays, DownIsIdle, RowFound, StagedSubject, AssignIsNewest,
           ActivationAnnounces, AdmittedCovered

LEMMA StepAnnounced ==
  ASSUME IInv, AnnouncedInv, [Next]_vars
  PROVE  AnnouncedInv'
<1>1. CASE \E r \in Requests : Request(r)
  BY <1>1, BeginAnnounced
<1>2. CASE \E r \in Requests : Write(r)
  BY <1>2, WriteAnnounced
<1>3. CASE \E r \in Requests : Commit(r)
  BY <1>3, CommitAnnounced
<1>4. CASE \E r \in Requests : Abort(r) \/ Notify(r)
  <2>1. UNCHANGED <<up, client, account, assign, event>>
    BY <1>4 DEF Abort, Notify, store, outbox
  <2>2. PICK r \in Requests : req' = [req EXCEPT ![r] = Idle]
    BY <1>4 DEF Abort, Notify
  <2>3. \A q \in Requests : req'[q] = req[q] \/ req'[q] = Idle
    BY <2>2 DEF IInv, TypeInv, TypeOK
  <2> QED BY <2>1, <2>3, QuietKept DEF AnnouncedInv, LocksHeld, DownIsIdle, Open, Idle
<1>5. CASE RoundStart \/ \E w \in Workers : Dispatch(w)
  <2>1. UNCHANGED <<up, client, account, assign, event, req>>
    BY <1>5 DEF RoundStart, Dispatch, ClaimOne, BatchEnds, Post, Accepted, Refused,
       Record, Finish, Fail, RecordLost, store, outbox
  <2> QED BY <2>1, QuietKept DEF AnnouncedInv, LocksHeld, DownIsIdle
<1>6. CASE \E e \in Ids : \/ LateArrival(e) \/ LeaseLapses(e) \/ BackoffElapses(e)
                          \/ AdminRetry(e) \/ Cleanup(e)
  <2>1. UNCHANGED <<up, client, account, assign, event, req>>
    BY <1>6 DEF LateArrival, LeaseLapses, BackoffElapses, AdminRetry, Cleanup, store, outbox
  <2> QED BY <2>1, QuietKept DEF AnnouncedInv, LocksHeld, DownIsIdle
<1>7. CASE Crash
  <2>1. UNCHANGED <<client, account, assign, event>> /\ \A r \in Requests : req'[r] = Idle
    BY <1>7 DEF Crash, store, outbox
  <2> QED BY <2>1, QuietKept DEF Open, Idle
<1>8. CASE Start
  BY <1>8, StartAnnounced
<1>9. CASE UNCHANGED vars
  <2>1. UNCHANGED <<up, client, account, assign, event, req>>
    BY <1>9 DEF vars, store, outbox
  <2> QED BY <2>1, QuietKept DEF AnnouncedInv, LocksHeld, DownIsIdle
<1> QED BY <1>1, <1>2, <1>3, <1>4, <1>5, <1>6, <1>7, <1>8, <1>9 DEF Next, Handle

\* Newest is what it says, for dates up to a bound.
LEMMA BoundedHasNewest ==
  ASSUME NEW S \in SUBSET Nat, S # {}, NEW n \in Nat, \A e \in S : e <= n
  PROVE  Newest(S) \in S /\ \A e \in S : e <= Newest(S)
<1> DEFINE T == {n - e : e \in S}
           R == {p \in Nat \X Nat : p[1] < p[2]}
<1>1. T \subseteq Nat /\ T # {}
  <2>1. \A e \in S : n - e \in Nat
    OBVIOUS
  <2> QED BY <2>1
<1>2. PICK x \in T : \A y \in T : ~ (<<y, x>> \in R)
  <2> HIDE DEF T, R
  <2>1. IsWellFoundedOn(R, Nat)
    BY NatLessThanWellFounded, Zenon DEF R, OpToRel
  <2> QED BY <1>1, <2>1, WFMin
<1>3. \A y \in T : ~ (y < x)
  <2> SUFFICES ASSUME NEW y \in T, y < x PROVE FALSE
    OBVIOUS
  <2>1. <<y, x>> \in Nat \X Nat
    BY <1>1, <1>2
  <2> QED BY <2>1, <1>2
<1>4. PICK m \in S : x = n - m
  BY <1>2
<1>5. \A e \in S : e <= m
  <2> SUFFICES ASSUME NEW e \in S PROVE e <= m
    OBVIOUS
  <2>1. n - e \in T
    OBVIOUS
  <2>2. ~ (n - e < n - m)
    BY <2>1, <1>3, <1>4
  <2>3. e \in Nat /\ m \in Nat
    OBVIOUS
  <2> QED BY <2>2, <2>3
<1>6. \E e \in S : \A d \in S : d <= e
  BY <1>5
<1> QED BY <1>6, Zenon DEF Newest

\* A newest membership event that is newer than every withdrawal announces.
LEMMA CoveredIsAnnounced ==
  ASSUME IInv, AnnouncedInv
  PROVE  AdmittedIsAnnounced
<1> SUFFICES ASSUME client = "active", NEW u \in Assigned, account[u] = "active",
                    MembershipEvents(u) # {}
             PROVE  event[Newest(MembershipEvents(u))].kind = "assigned"
  BY DEF AdmittedIsAnnounced
<1> DEFINE M == MembershipEvents(u)
<1>3. M # {}
  OBVIOUS
<1>1. M \in SUBSET Nat /\ \A e \in M : e <= clock /\ event[e].kind \in {"assigned", "unassigned"}
  BY BoundsAssumption DEF IInv, TypeInv, TypeOK, EventsKnown, MembershipEvents, EventsOf, Ids,
     Event, Kinds
<1>2. clock \in Nat
  BY DatesPast
<1>4. Newest(M) \in M /\ \A e \in M : e <= Newest(M)
  <2> HIDE DEF M
  <2> QED BY <1>1, <1>2, <1>3, BoundedHasNewest
<1>5. SUFFICES ASSUME Newest(M) \in Withdrawals(u) PROVE FALSE
  BY <1>1, <1>4 DEF Withdrawals, MembershipEvents
<1>6. PICK a \in Admissions(u) : Newest(M) < a
  BY <1>5 DEF AnnouncedInv, AdmittedCovered
<1>7. a \in M
  BY DEF Admissions, MembershipEvents
<1> QED BY <1>1, <1>4, <1>6, <1>7

-----------------------------------------------------------------------------
(* The theorem.                                                            *)

\* Whoever may use the client was announced last as assigned, for every
\* number of users and of handlers in flight, in whatever order the
\* transactions of client_assignment.go, client.go, admin.go and user.go
\* commit, and over every crash and start.
THEOREM AnnouncedSafe == Spec => []AdmittedIsAnnounced
<1>1. Init => AnnouncedInv
  BY InitAnnounced
<1>2. IInv /\ AnnouncedInv /\ [Next]_vars => AnnouncedInv'
  BY StepAnnounced
<1>3. IInv /\ AnnouncedInv => AdmittedIsAnnounced
  BY CoveredIsAnnounced
<1> QED BY <1>1, <1>2, <1>3, InvariantHolds, PTL DEF Spec
=============================================================================
