------------------------- MODULE ProvisioningProofs -------------------------
(***************************************************************************)
(* Theorems about Provisioning: type correctness, no event loses its       *)
(* payload before it is delivered, and the newest event of a user decides. *)
(***************************************************************************)
EXTENDS Provisioning, FiniteSetTheorems, TLAPS

(* A row that may be claimed, and a worker that works on one, have attempts *)
(* left: this keeps the counter within its bound.                          *)
AttemptsLeft ==
  /\ \A e \in Ids : row[e].st \in {"pending", "processing"} => row[e].attempts < MaxAttempts
  /\ \A w \in Workers : worker[w].pc \in {"send", "accepted", "failed"}
                          => worker[w].attempts < MaxAttempts

TypeInv == TypeOK /\ AttemptsLeft

Busy(w) == worker[w].pc \in {"send", "accepted", "failed"}

(* What is stored or in a worker's hands is a committed event; what is     *)
(* staged is not committed yet and has a date of its own.                  *)
EventsKnown ==
  /\ \A e \in Ids : row[e] # None => event[e] # None
  /\ \A e \in Ids : event[e] # None => e <= clock
  /\ \A r \in Requests : req[r].pc = "written" =>
       \A s \in req[r].staged : s.id <= clock /\ event[s.id] = None
  /\ \A r, q \in Requests : req[r].pc = "written" /\ req[q].pc = "written" /\ r # q =>
       \A s \in req[r].staged, t \in req[q].staged : s.id # t.id
  /\ \A w \in Workers : Busy(w) => event[worker[w].ev] # None

(* The receiver stands at one of the user's events and follows it; it has  *)
(* seen everything that is settled, and everything a worker was told it    *)
(* accepted.                                                               *)
StandsAtLast(u) ==
  last[u] # 0 =>
    /\ last[u] \in EventsOf(u)
    /\ event[last[u]].kind # "updated" => member[u] = (event[last[u]].kind = "assigned")

ReceiverKnown ==
  /\ \A u \in Users : StandsAtLast(u)
  /\ \A e \in Ids : event[e] # None /\ Settled(e) => e <= last[event[e].user]
  /\ \A w \in Workers : worker[w].pc = "accepted" =>
       worker[w].ev <= last[event[worker[w].ev].user]

IInv == TypeInv /\ EventsKnown /\ ReceiverKnown /\ UndeliveredKeepsPayload

-----------------------------------------------------------------------------
(* What the actions come down to.                                          *)

\* Every request starts with Begin, for one of the seven operations.
LEMMA EveryRequestBegins ==
  ASSUME NEW r \in Requests, Request(r)
  PROVE  \E op \in Operations, u \in Users : Begin(r, op, u)
<1>1. CASE \E u \in Users : AssignClientUser(r, u)
  BY <1>1 DEF AssignClientUser, Operations
<1>2. CASE \E u \in Users : DeleteClientAssignment(r, u)
  BY <1>2 DEF DeleteClientAssignment, Operations
<1>3. CASE \E u \in Users, op \in {"activate", "deactivate"} : AdminUpdateStatus(r, u, op)
  BY <1>3 DEF AdminUpdateStatus, Operations
<1>4. CASE \E u \in Users : UpdateProfile(r, u)
  BY <1>4 DEF UpdateProfile, Operations
<1>5. CASE \E u \in Users : AdminDeleteUser(r, u)
  BY <1>5 DEF AdminDeleteUser, Operations
<1>6. CASE DeleteClient(r)
  <2>1. (CHOOSE u \in Users : TRUE) \in Users
    BY UsersAssumption
  <2> QED BY <1>6, <2>1 DEF DeleteClient, Operations
<1> QED BY <1>1, <1>2, <1>3, <1>4, <1>5, <1>6 DEF Request

\* The orders of a finite set are sequences of its members.
LEMMA OrdersAreSequences ==
  ASSUME NEW U \in SUBSET Users, NEW s \in Orders(U)
  PROVE  s \in Seq(Users)
<1>1. IsFiniteSet(U)
  BY UsersAssumption, FS_Subset
<1>2. Cardinality(U) \in Nat
  BY <1>1, FS_CardinalityType
<1>3. s \in [1 .. Cardinality(U) -> Users]
  BY DEF Orders
<1> QED BY <1>2, <1>3

\* Whom a handler announces is a sequence of users.
LEMMA SubjectsAreUsers ==
  ASSUME TypeOK, NEW r \in Requests, req[r].pc = "begun", NEW us \in Subjects(r)
  PROVE  us \in Seq(Users)
<1>1. req[r] \in Req
  BY DEF TypeOK, Idle
<1>2. req[r].user \in Users /\ req[r].op \in Operations
  BY <1>1 DEF Req
<1> DEFINE op == req[r].op
           u == req[r].user
<1>3. ForUser(op, u) \in Seq(Users)
  BY <1>2 DEF ForUser
<1>4. Assigned \in SUBSET Users
  BY DEF Assigned
<1>5. CASE op \in {"assign", "unassign"}
  <2>1. us = <<u>>
    BY <1>5 DEF Subjects
  <2> QED BY <2>1, <1>2
<1>6. CASE op \in {"activate", "deactivate", "profile"}
  BY <1>6, <1>3 DEF Subjects
<1>7. CASE op = "removeUser" /\ u = Owner
  <2>1. PICK s \in Orders(Assigned) : us = ForUser(op, u) \o s
    BY <1>7 DEF Subjects
  <2>2. s \in Seq(Users)
    BY <1>4, OrdersAreSequences
  <2> QED BY <2>1, <2>2, <1>3
<1>8. CASE op = "removeUser" /\ u # Owner
  BY <1>8, <1>3 DEF Subjects
<1>9. CASE op = "removeClient"
  <2>1. us \in Orders(Assigned)
    BY <1>9 DEF Subjects
  <2> QED BY <2>1, <1>4, OrdersAreSequences
<1> QED BY <1>2, <1>5, <1>6, <1>7, <1>8, <1>9 DEF Operations

LEMMA KindsAreKinds ==
  ASSUME NEW op
  PROVE  KindOf(op) \in Kinds
BY DEF KindOf, Kinds

\* Storing staged events keeps the types of the two tables.
LEMMA StoreTypes ==
  ASSUME event \in [Ids -> Event \cup {None}], row \in [Ids -> Row \cup {None}],
         NEW staged \in SUBSET Staged, NEW initial \in BOOLEAN, Store(staged, initial)
  PROVE  /\ event' \in [Ids -> Event \cup {None}]
         /\ row' \in [Ids -> Row \cup {None}]
<1> DEFINE ids == {s.id : s \in staged}
           Of(e) == CHOOSE s \in staged : s.id = e
<1>1. \A e \in ids : Of(e) \in Staged
  OBVIOUS
<1>2. \A e \in ids : [kind |-> Of(e).kind, user |-> Of(e).user] \in Event
  BY <1>1 DEF Staged, Event
<1>3. Fresh(initial) \in Row
  BY BoundsAssumption DEF Fresh, Row
<1>4. event' = [e \in Ids |-> IF e \in ids
                  THEN [kind |-> Of(e).kind, user |-> Of(e).user] ELSE event[e]]
  BY DEF Store
<1>5. row' = [e \in Ids |-> IF e \in ids THEN Fresh(initial) ELSE row[e]]
  BY DEF Store
<1>6. event' \in [Ids -> Event \cup {None}]
  BY <1>2, <1>4
<1> QED BY <1>3, <1>5, <1>6

\* Rows stored are fresh; all others stay.
LEMMA StoreRows ==
  ASSUME NEW staged, NEW initial, Store(staged, initial), NEW e \in Ids
  PROVE  row'[e] = row[e] \/ row'[e] = Fresh(initial)
BY DEF Store

-----------------------------------------------------------------------------
(* Type correctness.                                                       *)

LEMMA BeginType ==
  ASSUME TypeInv, NEW r \in Requests, NEW op \in Operations, NEW u \in Users,
         Begin(r, op, u)
  PROVE  TypeInv'
<1>1. [pc |-> "begun", op |-> op, user |-> u, hits |-> assign[u] # "none",
        inserts |-> FALSE, staged |-> {}] \in Req
  BY DEF Req
<1>2. req' \in [Requests -> Req \cup {Idle, [pc |-> "notify"]}]
  BY <1>1 DEF TypeInv, TypeOK, Begin
<1>3. UNCHANGED <<up, client, account, assign, clock, event, row, woken, worker,
                  last, member, interventions>>
  BY DEF Begin, store, outbox, receiver
<1> QED BY <1>2, <1>3 DEF TypeInv, TypeOK, AttemptsLeft

\* The bound on events leaves room for what is staged.
LEMMA RoomIsRoom ==
  ASSUME TypeOK, NEW n \in Nat, HasRoom(n)
  PROVE  clock + n \in 0 .. MaxEvents
<1>1. IsFiniteSet(Users \ Snapshot)
  BY UsersAssumption, FS_Difference
<1>2. Cardinality(Users \ Snapshot) \in Nat
  BY <1>1, FS_CardinalityType
<1>3. clock \in Nat /\ MaxEvents \in Nat
  BY BoundsAssumption DEF TypeOK
<1>4. clock + n + Cardinality(Users \ Snapshot) <= MaxEvents
  BY DEF HasRoom
<1> QED BY <1>2, <1>3, <1>4

\* Consecutive dates after the clock make well-formed staged events.
LEMMA StagedType ==
  ASSUME TypeOK, NEW us \in Seq(Users), clock + Len(us) \in 0 .. MaxEvents,
         NEW kind \in Kinds
  PROVE  {[id |-> clock + i, kind |-> kind, user |-> us[i]] : i \in 1 .. Len(us)}
           \in SUBSET Staged
<1> SUFFICES ASSUME NEW i \in 1 .. Len(us)
             PROVE  [id |-> clock + i, kind |-> kind, user |-> us[i]] \in Staged
  OBVIOUS
<1>1. clock \in Nat /\ MaxEvents \in Nat /\ Len(us) \in Nat
  BY BoundsAssumption DEF TypeOK
<1>2. clock + i \in Ids
  BY <1>1 DEF Ids
<1>3. us[i] \in Users
  OBVIOUS
<1> QED BY <1>2, <1>3 DEF Staged

LEMMA WriteType ==
  ASSUME TypeInv, NEW r \in Requests, Write(r)
  PROVE  TypeInv'
<1> DEFINE inserts == req[r].op = "assign" /\ ~req[r].hits
           events(us) == {[id |-> clock + i, kind |-> KindOf(req[r].op), user |-> us[i]] :
                            i \in 1 .. Len(us)}
<1>1. PICK us \in Subjects(r) :
         /\ HasRoom(Len(us))
         /\ clock' = clock + Len(us)
         /\ req' = [req EXCEPT ![r].pc = "written",
                               ![r].hits = inserts \/ assign[req[r].user] # "none",
                               ![r].inserts = inserts,
                               ![r].staged = events(us)]
  BY Zenon DEF Write
<1>2. req[r].pc = "begun" /\ req[r] \in Req
  <2>1. req[r].pc = "begun"
    BY DEF Write
  <2> QED BY <2>1 DEF TypeInv, TypeOK, Idle
<1>3. us \in Seq(Users)
  BY <1>2, SubjectsAreUsers DEF TypeInv
<1>4. clock' \in 0 .. MaxEvents
  <2>1. Len(us) \in Nat
    BY <1>3
  <2> QED BY <1>1, <2>1, RoomIsRoom DEF TypeInv
<1>5. events(us) \in SUBSET Staged
  BY <1>1, <1>3, <1>4, StagedType, KindsAreKinds DEF TypeInv
<1>6. [req[r] EXCEPT !.pc = "written", !.hits = inserts \/ assign[req[r].user] # "none",
                     !.inserts = inserts, !.staged = events(us)] \in Req
  <2>1. inserts \in BOOLEAN /\ (inserts \/ assign[req[r].user] # "none") \in BOOLEAN
    OBVIOUS
  <2> HIDE DEF inserts, events
  <2> QED BY <1>2, <1>5, <2>1 DEF Req
<1>7. req' \in [Requests -> Req \cup {Idle, [pc |-> "notify"]}]
  <2>1. req' = [req EXCEPT ![r] =
          [req[r] EXCEPT !.pc = "written", !.hits = inserts \/ assign[req[r].user] # "none",
                         !.inserts = inserts, !.staged = events(us)]]
    <3> HIDE DEF inserts, events
    <3> QED BY <1>1, <1>2 DEF TypeInv, TypeOK
  <2> HIDE DEF inserts, events
  <2> QED BY <2>1, <1>6 DEF TypeInv, TypeOK
<1>8. UNCHANGED <<up, client, account, assign, event, row, woken, worker,
                  last, member, interventions>>
  BY DEF Write, store, receiver
<1> QED BY <1>4, <1>7, <1>8 DEF TypeInv, TypeOK, AttemptsLeft

LEMMA CommitType ==
  ASSUME TypeInv, NEW r \in Requests, Commit(r)
  PROVE  TypeInv'
<1>1. req[r] \in Req
  BY DEF Commit, TypeInv, TypeOK, Idle
<1>2. req[r].staged \in SUBSET Staged /\ req[r].user \in Users
  BY <1>1 DEF Req
<1>3. Store(req[r].staged, FALSE)
  BY DEF Commit
<1>4. event' \in [Ids -> Event \cup {None}] /\ row' \in [Ids -> Row \cup {None}]
  BY <1>2, <1>3, StoreTypes DEF TypeInv, TypeOK
<1>5. Change(r)
  BY DEF Commit
<1>6. account' \in [Users -> {"active", "inactive", "deleted"}]
  BY <1>2, <1>5 DEF Change, TypeInv, TypeOK
<1>7. assign' \in [Users -> {"none", "active", "deleted"}]
  BY <1>2, <1>5 DEF Change, TypeInv, TypeOK
<1>8. client' \in {"active", "deleted"}
  BY <1>5 DEF Change, TypeInv, TypeOK
<1>9. req' \in [Requests -> Req \cup {Idle, [pc |-> "notify"]}]
  BY DEF Commit, TypeInv, TypeOK
<1>10. UNCHANGED <<up, clock, woken, worker, last, member, interventions>>
  BY DEF Commit, receiver
<1>11. AttemptsLeft'
  <2>1. \A e \in Ids : row'[e] = row[e] \/ row'[e] = Fresh(FALSE)
    BY <1>3, StoreRows
  <2>2. Fresh(FALSE).attempts < MaxAttempts
    BY BoundsAssumption DEF Fresh
  <2> QED BY <2>1, <2>2, <1>10 DEF AttemptsLeft, TypeInv
<1> QED BY <1>4, <1>6, <1>7, <1>8, <1>9, <1>10, <1>11 DEF TypeInv, TypeOK

LEMMA HandlerEndType ==
  ASSUME TypeInv, NEW r \in Requests, Abort(r) \/ Notify(r)
  PROVE  TypeInv'
<1>1. req' \in [Requests -> Req \cup {Idle, [pc |-> "notify"]}] /\ woken' \in BOOLEAN
  BY DEF Abort, Notify, TypeInv, TypeOK
<1>2. UNCHANGED <<up, client, account, assign, clock, event, row, worker,
                  last, member, interventions>>
  BY DEF Abort, Notify, store, outbox, receiver
<1> QED BY <1>1, <1>2 DEF TypeInv, TypeOK, AttemptsLeft

\* What the receiver does keeps the types of what it stores.
LEMMA ReceiveType ==
  ASSUME TypeOK, NEW e \in Ids, event[e] # None, Receive(e)
  PROVE  last' \in [Users -> 0 .. MaxEvents] /\ member' \in [Users -> BOOLEAN]
<1>1. event[e] \in Event
  BY DEF TypeOK
<1>2. event[e].user \in Users
  BY <1>1 DEF Event
<1>3. e \in 0 .. MaxEvents
  BY BoundsAssumption DEF Ids
<1>4. last' = last \/ last' = [last EXCEPT ![event[e].user] = e]
  BY DEF Receive, receiver
<1>5. member' = member \/ member' = [member EXCEPT ![event[e].user] = event[e].kind = "assigned"]
  BY DEF Receive, receiver
<1>6. last' \in [Users -> 0 .. MaxEvents]
  BY <1>2, <1>3, <1>4 DEF TypeOK
<1>7. member' \in [Users -> BOOLEAN]
  BY <1>2, <1>5 DEF TypeOK
<1> QED BY <1>6, <1>7

\* A row that is there is a Row, a busy worker is a Worker.
LEMMA RowsAreRows ==
  ASSUME TypeOK
  PROVE  /\ \A e \in Ids : row[e] # None => row[e] \in Row
         /\ \A e \in Ids : row[e].st # "none" => row[e] \in Row
         /\ \A w \in Workers : worker[w].pc \in {"send", "accepted", "failed"}
                                 => worker[w] \in Worker
BY DEF TypeOK, None, Off

(* One worker and at most one row change.                                  *)
LEMMA WorkerRowType ==
  ASSUME TypeInv, NEW w \in Workers, NEW e \in Ids, NEW newRow, NEW newWorker,
         newRow \in Row \cup {None},
         newRow.st \in {"pending", "processing"} => newRow.attempts < MaxAttempts,
         newWorker \in Worker \cup {Off, [pc |-> "scan"]},
         newWorker.pc \in {"send", "accepted", "failed"} => newWorker.attempts < MaxAttempts,
         row' = row \/ row' = [row EXCEPT ![e] = newRow],
         worker' = worker \/ worker' = [worker EXCEPT ![w] = newWorker],
         UNCHANGED <<up, store, req, clock, event, receiver>>,
         woken' \in BOOLEAN, interventions' \in 0 .. MaxInterventions
  PROVE  TypeInv'
<1>1. row' \in [Ids -> Row \cup {None}]
  BY DEF TypeInv, TypeOK
<1>2. worker' \in [Workers -> Worker \cup {Off, [pc |-> "scan"]}]
  BY DEF TypeInv, TypeOK
<1>3. \A d \in Ids : row'[d] = row[d] \/ row'[d] = newRow
  BY DEF TypeInv, TypeOK
<1>4. \A v \in Workers : worker'[v] = worker[v] \/ worker'[v] = newWorker
  BY DEF TypeInv, TypeOK
<1>5. AttemptsLeft'
  BY <1>3, <1>4 DEF TypeInv, AttemptsLeft
<1> QED BY <1>1, <1>2, <1>5 DEF TypeInv, TypeOK, store, receiver

LEMMA RoundStartType ==
  ASSUME TypeInv, RoundStart
  PROVE  TypeInv'
<1>1. worker' = [w \in Workers |-> [pc |-> "scan"]] /\ woken' \in BOOLEAN
  BY DEF RoundStart, TypeInv, TypeOK
<1>2. UNCHANGED <<up, client, account, assign, req, clock, event, row, last, member,
                  interventions>>
  BY DEF RoundStart, store, outbox, receiver
<1>3. worker' \in [Workers -> Worker \cup {Off, [pc |-> "scan"]}]
  BY <1>1
<1>4. AttemptsLeft'
  BY <1>1, <1>2 DEF TypeInv, AttemptsLeft
<1> QED BY <1>1, <1>2, <1>3, <1>4 DEF TypeInv, TypeOK

LEMMA ClaimOneType ==
  ASSUME TypeInv, NEW w \in Workers, ClaimOne(w)
  PROVE  TypeInv'
<1>1. PICK e \in Ids :
         /\ Claimable(e)
         /\ row' = [row EXCEPT ![e].st = "processing", ![e].leased = TRUE]
         /\ worker' = [worker EXCEPT ![w] = [pc |-> "send", ev |-> e, attempts |-> row[e].attempts]]
  BY DEF ClaimOne
<1> DEFINE newRow == [row[e] EXCEPT !.st = "processing", !.leased = TRUE]
           newWorker == [pc |-> "send", ev |-> e, attempts |-> row[e].attempts]
<1>2. row[e] \in Row /\ row[e].st \in {"pending", "processing"}
  BY <1>1, RowsAreRows DEF Claimable, TypeInv
<1>3. row[e].attempts < MaxAttempts /\ row[e].attempts \in 0 .. MaxAttempts
  BY <1>2 DEF TypeInv, AttemptsLeft, Row
<1>4. newRow \in Row /\ newRow.attempts < MaxAttempts
  BY <1>2, <1>3 DEF Row
<1>5. newWorker \in Worker /\ newWorker.attempts < MaxAttempts
  BY <1>3 DEF Worker
<1>6. row' = [row EXCEPT ![e] = newRow]
  BY <1>1, <1>2 DEF Row, TypeInv, TypeOK
<1>7. UNCHANGED <<up, store, req, clock, event, woken, receiver, interventions>>
  BY DEF ClaimOne
<1>8. woken' \in BOOLEAN /\ interventions' \in 0 .. MaxInterventions
  BY <1>7 DEF TypeInv, TypeOK
<1> HIDE DEF newRow, newWorker
<1> QED BY <1>1, <1>4, <1>5, <1>6, <1>7, <1>8, WorkerRowType DEF newWorker

LEMMA BatchEndsType ==
  ASSUME TypeInv, NEW w \in Workers, BatchEnds(w)
  PROVE  TypeInv'
<1>1. worker' = [worker EXCEPT ![w] = Off]
  BY DEF BatchEnds
<1>2. UNCHANGED <<up, client, account, assign, req, clock, event, row, woken, last, member,
                  interventions>>
  BY DEF BatchEnds, store, outbox, receiver
<1>3. worker' \in [Workers -> Worker \cup {Off, [pc |-> "scan"]}]
  BY <1>1 DEF TypeInv, TypeOK
<1>4. AttemptsLeft'
  BY <1>1, <1>2 DEF TypeInv, TypeOK, AttemptsLeft, Off
<1> QED BY <1>2, <1>3, <1>4 DEF TypeInv, TypeOK

\* Events in the hands of a worker are known: EventsKnown below says so.
LEMMA PostType ==
  ASSUME TypeInv, NEW w \in Workers, Post(w),
         worker[w].pc = "send" => event[worker[w].ev] # None
  PROVE  TypeInv'
<1>1. worker[w].pc = "send"
  BY DEF Post, Accepted, Refused
<1>2. worker[w] \in Worker
  BY <1>1, RowsAreRows DEF TypeInv
<1>3. PICK pc \in {"accepted", "failed"} : worker' = [worker EXCEPT ![w].pc = pc]
  BY DEF Post, Accepted, Refused, Answer
<1>4. UNCHANGED <<up, client, account, assign, req, clock, event, row, woken, interventions>>
  BY DEF Post, Accepted, Refused, store, outbox
<1>5. last' \in [Users -> 0 .. MaxEvents] /\ member' \in [Users -> BOOLEAN]
  <2>1. CASE Accepted(w)
    <3>1. worker[w].ev \in Ids /\ Receive(worker[w].ev)
      BY <2>1, <1>2 DEF Accepted, Worker
    <3> QED BY <3>1, <1>1, ReceiveType DEF TypeInv
  <2>2. CASE Refused(w)
    BY <2>2 DEF Refused, receiver, TypeInv, TypeOK
  <2> QED BY <2>1, <2>2 DEF Post
<1>6. worker' \in [Workers -> Worker \cup {Off, [pc |-> "scan"]}]
  <2>1. [worker[w] EXCEPT !.pc = pc] \in Worker
    BY <1>2, <1>3 DEF Worker
  <2> QED BY <2>1, <1>3 DEF TypeInv, TypeOK
<1>7. AttemptsLeft'
  <2>1. \A v \in Workers :
          \/ worker'[v] = worker[v]
          \/ v = w /\ worker'[v].attempts = worker[v].attempts
    BY <1>2, <1>3 DEF TypeInv, TypeOK, Worker
  <2>2. worker[w].attempts < MaxAttempts
    BY <1>1 DEF TypeInv, AttemptsLeft
  <2> QED BY <2>1, <2>2, <1>4 DEF TypeInv, AttemptsLeft
<1> QED BY <1>4, <1>5, <1>6, <1>7 DEF TypeInv, TypeOK

LEMMA RecordType ==
  ASSUME TypeInv, NEW w \in Workers, Record(w) \/ RecordLost(w)
  PROVE  TypeInv'
<1> DEFINE e == worker[w].ev
           scan == [pc |-> "scan"]
<1>1. worker[w].pc \in {"accepted", "failed"}
  BY DEF Record, Finish, Fail, RecordLost
<1>2. worker[w] \in Worker /\ worker[w].attempts < MaxAttempts
  BY <1>1, RowsAreRows DEF TypeInv, AttemptsLeft
<1>3. e \in Ids /\ worker[w].attempts \in 0 .. MaxAttempts
  BY <1>2 DEF Worker
<1>4. worker' = [worker EXCEPT ![w] = scan]
  BY DEF Record, Finish, Fail, RecordLost
<1>5. UNCHANGED <<up, store, req, clock, event, woken, receiver, interventions>>
  BY DEF Record, Finish, Fail, RecordLost, outbox
<1>6. woken' \in BOOLEAN /\ interventions' \in 0 .. MaxInterventions
  BY <1>5 DEF TypeInv, TypeOK
<1>7. PICK newRow \in Row \cup {None} :
         /\ newRow.st \in {"pending", "processing"} => newRow.attempts < MaxAttempts
         /\ row' = [row EXCEPT ![e] = newRow]
  <2>1. CASE row' = row
    <3>1. row[e] \in Row \cup {None} /\ row' = [row EXCEPT ![e] = row[e]]
      BY <2>1, <1>3 DEF TypeInv, TypeOK
    <3>2. row[e].st \in {"pending", "processing"} => row[e].attempts < MaxAttempts
      BY <1>3 DEF TypeInv, AttemptsLeft
    <3> QED BY <3>1, <3>2
  <2>2. CASE Finish(w) /\ Processing(e)
    <3> DEFINE done == [row[e] EXCEPT !.st = "delivered", !.leased = FALSE, !.full = FALSE]
    <3>1. row[e] \in Row
      BY <2>2, <1>3, RowsAreRows DEF Processing, TypeInv
    <3>2. done \in Row /\ done.st = "delivered"
      BY <3>1 DEF Row
    <3>3. row' = [row EXCEPT ![e].st = "delivered", ![e].leased = FALSE, ![e].full = FALSE]
      BY <2>2 DEF Finish
    <3>4. row' = [row EXCEPT ![e] = done]
      BY <3>1, <3>3 DEF Row, TypeInv, TypeOK
    <3> HIDE DEF done
    <3> QED BY <3>2, <3>4
  <2>3. CASE Fail(w) /\ StillProcessing(e)
    <3> DEFINE attempts == worker[w].attempts + 1
               st == IF Exhausted(attempts) THEN "dead" ELSE "pending"
               back == [row[e] EXCEPT !.st = st, !.attempts = attempts, !.due = FALSE,
                                      !.leased = FALSE]
    <3>1. row[e] \in Row
      BY <2>3, <1>3, RowsAreRows DEF StillProcessing, Processing, TypeInv
    <3>2. attempts \in 0 .. MaxAttempts /\ st \in {"dead", "pending"}
      BY <1>2, <1>3, BoundsAssumption
    <3>3. back \in Row /\ back.st = st /\ back.attempts = attempts
      <4> HIDE DEF attempts, st
      <4> QED BY <3>1, <3>2 DEF Row
    <3>4. st = "pending" => attempts < MaxAttempts
      BY <3>2, BoundsAssumption DEF Exhausted
    <3>5. row' = [row EXCEPT ![e].st = st, ![e].attempts = attempts, ![e].due = FALSE,
                             ![e].leased = FALSE]
      BY <2>3 DEF Fail
    <3>6. row' = [row EXCEPT ![e] = back]
      <4> HIDE DEF attempts, st
      <4> QED BY <3>1, <3>5 DEF Row, TypeInv, TypeOK
    <3> HIDE DEF back
    <3>7. back.st \in {"pending", "processing"} => back.attempts < MaxAttempts
      BY <3>2, <3>3, <3>4
    <3> QED BY <3>3, <3>6, <3>7
  <2> QED BY <2>1, <2>2, <2>3 DEF Record, Finish, Fail, RecordLost, outbox
<1> QED BY <1>3, <1>4, <1>5, <1>6, <1>7, WorkerRowType

LEMMA TimeType ==
  ASSUME TypeInv, NEW e \in Ids,
         LeaseLapses(e) \/ BackoffElapses(e) \/ AdminRetry(e) \/ Cleanup(e)
  PROVE  TypeInv'
<1>1. row[e] # None /\ row[e] \in Row
  BY RowsAreRows DEF LeaseLapses, BackoffElapses, AdminRetry, Cleanup, Processing, TypeInv
<1>2. UNCHANGED <<up, client, account, assign, req, clock, event, worker, last, member>>
  BY DEF LeaseLapses, BackoffElapses, AdminRetry, Cleanup, store, receiver
<1>3. woken' \in BOOLEAN /\ interventions' \in 0 .. MaxInterventions
  <2>1. CASE AdminRetry(e)
    <3>1. /\ interventions \in 0 .. MaxInterventions /\ interventions < MaxInterventions
          /\ interventions' = interventions + 1 /\ woken' = TRUE
      BY <2>1 DEF AdminRetry, TypeInv, TypeOK
    <3> QED BY <3>1, BoundsAssumption
  <2>2. CASE UNCHANGED <<woken, interventions>>
    BY <2>2 DEF TypeInv, TypeOK
  <2> QED BY <2>1, <2>2 DEF LeaseLapses, BackoffElapses, Cleanup
<1>4. PICK newRow \in Row \cup {None} :
         /\ newRow.st \in {"pending", "processing"} => newRow.attempts < MaxAttempts
         /\ row' = [row EXCEPT ![e] = newRow]
  <2>1. CASE LeaseLapses(e)
    <3> DEFINE new == [row[e] EXCEPT !.leased = FALSE]
    <3>1. new \in Row /\ new.st = row[e].st /\ new.attempts = row[e].attempts
      BY <1>1 DEF Row
    <3>2. row' = [row EXCEPT ![e] = new]
      BY <2>1, <1>1 DEF LeaseLapses, TypeInv, TypeOK, Row
    <3> QED BY <3>1, <3>2 DEF TypeInv, AttemptsLeft
  <2>2. CASE BackoffElapses(e)
    <3> DEFINE new == [row[e] EXCEPT !.due = TRUE]
    <3>1. new \in Row /\ new.st = row[e].st /\ new.attempts = row[e].attempts
      BY <1>1 DEF Row
    <3>2. row' = [row EXCEPT ![e] = new]
      BY <2>2, <1>1 DEF BackoffElapses, TypeInv, TypeOK, Row
    <3> QED BY <3>1, <3>2 DEF TypeInv, AttemptsLeft
  <2>3. CASE AdminRetry(e)
    <3> DEFINE new == [row[e] EXCEPT !.st = "pending", !.attempts = 0, !.due = TRUE]
    <3>1. 0 \in 0 .. MaxAttempts /\ 0 < MaxAttempts
      BY BoundsAssumption
    <3>3. new \in Row /\ new.attempts = 0
      BY <1>1, <3>1 DEF Row
    <3>2. row' = [row EXCEPT ![e] = new]
      BY <2>3, <1>1 DEF AdminRetry, TypeInv, TypeOK, Row
    <3> HIDE DEF new
    <3> QED BY <3>1, <3>2, <3>3
  <2>4. CASE Cleanup(e)
    BY <2>4 DEF Cleanup, None
  <2> QED BY <2>1, <2>2, <2>3, <2>4
<1>5. row' \in [Ids -> Row \cup {None}]
  BY <1>4 DEF TypeInv, TypeOK
<1>6. AttemptsLeft'
  <2>1. \A d \in Ids : row'[d] = row[d] \/ row'[d] = newRow
    BY <1>4 DEF TypeInv, TypeOK
  <2> QED BY <2>1, <1>2, <1>4 DEF TypeInv, AttemptsLeft
<1> QED BY <1>2, <1>3, <1>5, <1>6 DEF TypeInv, TypeOK

LEMMA CrashType ==
  ASSUME TypeInv, Crash
  PROVE  TypeInv'
<1>1. /\ up' = FALSE /\ woken' = FALSE
      /\ req' = [r \in Requests |-> Idle]
      /\ worker' = [w \in Workers |-> Off]
      /\ interventions < MaxInterventions /\ interventions' = interventions + 1
  BY DEF Crash
<1>2. UNCHANGED <<client, account, assign, clock, event, row, last, member>>
  BY DEF Crash, store, outbox, receiver
<1>3. interventions' \in 0 .. MaxInterventions
  BY <1>1, BoundsAssumption DEF TypeInv, TypeOK
<1>4. AttemptsLeft'
  BY <1>1, <1>2 DEF TypeInv, AttemptsLeft, Off
<1> QED BY <1>1, <1>2, <1>3, <1>4 DEF TypeInv, TypeOK

LEMMA StartType ==
  ASSUME TypeInv, Start
  PROVE  TypeInv'
<1> DEFINE events(us) == {[id |-> clock + i, kind |-> "assigned", user |-> us[i]] :
                            i \in 1 .. Len(us)}
<1>1. PICK us \in Orders(Assigned \ Snapshot) :
         clock + Len(us) <= MaxEvents /\ clock' = clock + Len(us) /\ Store(events(us), TRUE)
  BY DEF Start
<1>2. us \in Seq(Users)
  <2>1. Assigned \ Snapshot \in SUBSET Users
    BY DEF Assigned
  <2> QED BY <2>1, OrdersAreSequences
<1>3. clock' \in 0 .. MaxEvents
  BY <1>1, <1>2, BoundsAssumption DEF TypeInv, TypeOK
<1>4. events(us) \in SUBSET Staged
  BY <1>1, <1>2, <1>3, StagedType DEF TypeInv, Kinds
<1> HIDE DEF events
<1>5. event' \in [Ids -> Event \cup {None}] /\ row' \in [Ids -> Row \cup {None}]
  BY <1>1, <1>4, StoreTypes DEF TypeInv, TypeOK
<1>6. up' = TRUE
  BY DEF Start
<1>7. UNCHANGED <<client, account, assign, req, woken, worker, last, member, interventions>>
  BY DEF Start, store, receiver
<1>8. AttemptsLeft'
  <2>1. \A e \in Ids : row'[e] = row[e] \/ row'[e] = Fresh(TRUE)
    BY <1>1, StoreRows
  <2>2. Fresh(TRUE).attempts < MaxAttempts
    BY BoundsAssumption DEF Fresh
  <2> QED BY <2>1, <2>2, <1>7 DEF AttemptsLeft, TypeInv
<1> QED BY <1>3, <1>5, <1>6, <1>7, <1>8 DEF TypeInv, TypeOK

-----------------------------------------------------------------------------
(* Committed and staged events.                                            *)

\* Steps that store and stage nothing.
LEMMA KnownKept ==
  ASSUME EventsKnown, UNCHANGED <<event, clock>>,
         \A e \in Ids : row'[e] # None => row[e] # None,
         \A r \in Requests : req'[r].pc = "written" => req'[r] = req[r],
         \A w \in Workers : Busy(w)' => event[worker'[w].ev] # None
  PROVE  EventsKnown'
BY DEF EventsKnown

LEMMA WriteKnown ==
  ASSUME TypeInv, EventsKnown, NEW r \in Requests, Write(r)
  PROVE  EventsKnown'
<1> DEFINE events(us) == {[id |-> clock + i, kind |-> KindOf(req[r].op), user |-> us[i]] :
                            i \in 1 .. Len(us)}
<1>1. req[r].pc = "begun" /\ req[r] \in Req
  <2>1. req[r].pc = "begun"
    BY DEF Write
  <2> QED BY <2>1 DEF TypeInv, TypeOK, Idle
<1>2. PICK us \in Subjects(r) :
         /\ clock' = clock + Len(us)
         /\ req'[r].staged = events(us)
  <2> DEFINE inserts == req[r].op = "assign" /\ ~req[r].hits
             hits == inserts \/ assign[req[r].user] # "none"
  <2>1. PICK us \in Subjects(r) :
           /\ clock' = clock + Len(us)
           /\ req' = [req EXCEPT ![r].pc = "written", ![r].hits = hits,
                                 ![r].inserts = inserts, ![r].staged = events(us)]
    BY Zenon DEF Write
  <2> HIDE DEF inserts, hits, events
  <2>2. req'[r].staged = events(us)
    BY <1>1, <2>1 DEF TypeInv, TypeOK, Req
  <2> QED BY <2>1, <2>2
<1>3. us \in Seq(Users)
  BY <1>1, SubjectsAreUsers DEF TypeInv
<1>4. clock \in Nat /\ Len(us) \in Nat
  BY <1>3, BoundsAssumption DEF TypeInv, TypeOK
<1>5. clock' \in Nat /\ clock <= clock'
  BY <1>2, <1>4
<1>6. \A s \in req'[r].staged : s.id \in Nat /\ clock < s.id /\ s.id <= clock'
  BY <1>2, <1>4
<1>7. \A q \in Requests : q # r => req'[q] = req[q]
  BY DEF Write, TypeInv, TypeOK
<1>8. UNCHANGED <<event, row, worker>>
  BY DEF Write
<1>9. \A q \in Requests : q # r /\ req[q].pc = "written" =>
        \A s \in req[q].staged : s.id \in Ids /\ s.id <= clock /\ event[s.id] = None
  <2> SUFFICES ASSUME NEW q \in Requests, req[q].pc = "written", NEW s \in req[q].staged
               PROVE  s.id \in Ids /\ s.id <= clock /\ event[s.id] = None
    OBVIOUS
  <2>1. req[q] \in Req
    BY DEF TypeInv, TypeOK, Idle
  <2>2. s \in Staged
    BY <2>1 DEF Req
  <2> QED BY <2>2 DEF EventsKnown, Staged
<1>10. \A e \in Ids : e \in Nat /\ (event[e] # None => e <= clock)
  BY BoundsAssumption DEF EventsKnown, Ids
<1>11. \A s \in req'[r].staged : event[s.id] = None
  <2> SUFFICES ASSUME NEW s \in req'[r].staged
               PROVE  event[s.id] = None
    OBVIOUS
  <2>1. req'[r].staged \in SUBSET Staged
    <3>1. TypeInv'
      BY WriteType
    <3>2. req'[r].pc = "written"
      BY <1>1 DEF Write, TypeInv, TypeOK, Req
    <3>3. req'[r] \in Req
      BY <3>1, <3>2 DEF TypeInv, TypeOK, Idle
    <3> QED BY <3>3 DEF Req
  <2>2. s.id \in Ids
    BY <2>1 DEF Staged
  <2> QED BY <2>2, <1>4, <1>6, <1>10
<1> HIDE DEF events
<1>12. \A e \in Ids : event'[e] # None => e <= clock'
  BY <1>4, <1>5, <1>8, <1>10
<1>13. \A q \in Requests : req'[q].pc = "written" =>
         \A s \in req'[q].staged : s.id <= clock' /\ event'[s.id] = None
  <2> SUFFICES ASSUME NEW q \in Requests, req'[q].pc = "written", NEW s \in req'[q].staged
               PROVE  s.id <= clock' /\ event'[s.id] = None
    OBVIOUS
  <2>1. CASE q = r
    BY <2>1, <1>6, <1>8, <1>11
  <2>2. CASE q # r
    <3>1. s.id \in Ids /\ s.id <= clock /\ event[s.id] = None
      BY <2>2, <1>7, <1>9
    <3> QED BY <3>1, <1>4, <1>5, <1>8, <1>10
  <2> QED BY <2>1, <2>2
<1>14. \A p, q \in Requests : req'[p].pc = "written" /\ req'[q].pc = "written" /\ p # q =>
         \A s \in req'[p].staged, t \in req'[q].staged : s.id # t.id
  <2> SUFFICES ASSUME NEW p \in Requests, NEW q \in Requests, p # q,
                      req'[p].pc = "written", req'[q].pc = "written",
                      NEW s \in req'[p].staged, NEW t \in req'[q].staged
               PROVE  s.id # t.id
    OBVIOUS
  <2>1. CASE p = r
    <3>1. t.id \in Ids /\ t.id <= clock
      BY <2>1, <1>7, <1>9
    <3> QED BY <2>1, <3>1, <1>4, <1>6, <1>10
  <2>2. CASE q = r
    <3>1. s.id \in Ids /\ s.id <= clock
      BY <2>2, <1>7, <1>9
    <3> QED BY <2>2, <3>1, <1>4, <1>6, <1>10
  <2>3. CASE p # r /\ q # r
    BY <2>3, <1>7 DEF EventsKnown
  <2> QED BY <2>1, <2>2, <2>3
<1> QED BY <1>8, <1>12, <1>13, <1>14 DEF EventsKnown, Busy

\* Storing adds events at the staged dates and changes no other.
LEMMA StoreAdds ==
  ASSUME NEW staged \in SUBSET Staged, NEW initial, Store(staged, initial)
  PROVE  /\ \A e \in Ids : (\E s \in staged : s.id = e) =>
               event'[e] # None /\ row'[e] = Fresh(initial)
         /\ \A e \in Ids : (\A s \in staged : s.id # e) =>
               event'[e] = event[e] /\ row'[e] = row[e]
<1> DEFINE ids == {s.id : s \in staged}
           Of(e) == CHOOSE s \in staged : s.id = e
           new(e) == [kind |-> Of(e).kind, user |-> Of(e).user]
<1>1. event' = [e \in Ids |-> IF e \in ids THEN new(e) ELSE event[e]]
  BY DEF Store
<1>2. row' = [e \in Ids |-> IF e \in ids THEN Fresh(initial) ELSE row[e]]
  BY DEF Store
<1>3. \A e \in ids : new(e) \in Event
  BY DEF Staged, Event
<1>4. None \notin Event
  BY DEF None, Event
<1> HIDE DEF new
<1> QED BY <1>1, <1>2, <1>3, <1>4

LEMMA CommitKnown ==
  ASSUME TypeInv, EventsKnown, NEW r \in Requests, Commit(r)
  PROVE  EventsKnown'
<1> DEFINE staged == req[r].staged
<1>1. req[r].pc = "written" /\ req[r] \in Req
  BY DEF Commit, TypeInv, TypeOK, Idle
<1>2. staged \in SUBSET Staged
  BY <1>1 DEF Req
<1>3. Store(staged, FALSE)
  BY DEF Commit
<1> HIDE DEF staged
<1>4. /\ \A e \in Ids : (\E s \in staged : s.id = e) => event'[e] # None /\ row'[e] = Fresh(FALSE)
      /\ \A e \in Ids : (\A s \in staged : s.id # e) => event'[e] = event[e] /\ row'[e] = row[e]
  BY <1>2, <1>3, StoreAdds
<1>5. UNCHANGED <<clock, worker>> /\ req' = [req EXCEPT ![r] = [pc |-> "notify"]]
  BY DEF Commit
<1>6. \A q \in Requests : req'[q].pc = "written" => q # r /\ req'[q] = req[q]
  BY <1>5 DEF TypeInv, TypeOK
<1>7. \A e \in Ids : event[e] # None => event'[e] # None
  BY <1>4
<1>8. \A e \in Ids : row'[e] # None => event'[e] # None
  BY <1>4 DEF EventsKnown
<1>9. \A e \in Ids : event'[e] # None => e <= clock'
  BY <1>1, <1>4, <1>5 DEF EventsKnown, staged
<1>10. \A q \in Requests : req'[q].pc = "written" =>
         \A s \in req'[q].staged : s.id <= clock' /\ event'[s.id] = None
  <2> SUFFICES ASSUME NEW q \in Requests, req'[q].pc = "written", NEW s \in req'[q].staged
               PROVE  s.id <= clock' /\ event'[s.id] = None
    OBVIOUS
  <2>1. q # r /\ req'[q] = req[q]
    BY <1>6
  <2>2. req[q] \in Req
    BY <2>1 DEF TypeInv, TypeOK, Idle
  <2>3. s.id \in Ids
    BY <2>1, <2>2 DEF Req, Staged
  <2>4. \A t \in staged : t.id # s.id
    BY <1>1, <2>1 DEF EventsKnown, staged
  <2> QED BY <1>4, <1>5, <2>1, <2>3, <2>4 DEF EventsKnown
<1>11. \A w \in Workers : Busy(w)' => event'[worker'[w].ev] # None
  <2> SUFFICES ASSUME NEW w \in Workers, Busy(w)
               PROVE  event'[worker[w].ev] # None
    BY <1>5 DEF Busy
  <2>1. worker[w].ev \in Ids
    BY RowsAreRows DEF TypeInv, Busy, Worker
  <2> QED BY <1>7, <2>1 DEF EventsKnown
<1> QED BY <1>6, <1>8, <1>9, <1>10, <1>11 DEF EventsKnown

LEMMA StartKnown ==
  ASSUME TypeInv, EventsKnown, Start
  PROVE  EventsKnown'
<1> DEFINE events(us) == {[id |-> clock + i, kind |-> "assigned", user |-> us[i]] :
                            i \in 1 .. Len(us)}
<1>1. PICK us \in Orders(Assigned \ Snapshot) :
         clock + Len(us) <= MaxEvents /\ clock' = clock + Len(us) /\ Store(events(us), TRUE)
  BY DEF Start
<1>2. us \in Seq(Users)
  <2>1. Assigned \ Snapshot \in SUBSET Users
    BY DEF Assigned
  <2> QED BY <2>1, OrdersAreSequences
<1>3. clock \in Nat /\ Len(us) \in Nat /\ clock' \in 0 .. MaxEvents /\ clock <= clock'
  BY <1>1, <1>2, BoundsAssumption DEF TypeInv, TypeOK
<1>4. events(us) \in SUBSET Staged
  BY <1>1, <1>2, <1>3, StagedType DEF TypeInv, Kinds
<1>5. \A s \in events(us) : s.id \in Nat /\ clock < s.id /\ s.id <= clock'
  BY <1>1, <1>3
<1> DEFINE staged == events(us)
<1> HIDE DEF events
<1>6. /\ \A e \in Ids : (\E s \in staged : s.id = e) => event'[e] # None /\ row'[e] = Fresh(TRUE)
      /\ \A e \in Ids : (\A s \in staged : s.id # e) => event'[e] = event[e] /\ row'[e] = row[e]
  BY <1>1, <1>4, StoreAdds
<1>7. UNCHANGED <<req, worker>>
  BY DEF Start
<1>8. \A e \in Ids : e \in Nat /\ (event[e] # None => e <= clock)
  BY BoundsAssumption DEF EventsKnown, Ids
<1>9. \A e \in Ids : e <= clock => event'[e] = event[e]
  BY <1>3, <1>5, <1>6, <1>8
<1>10. \A e \in Ids : row'[e] # None => event'[e] # None
  BY <1>6 DEF EventsKnown
<1>11. \A e \in Ids : event'[e] # None => e <= clock'
  <2> SUFFICES ASSUME NEW e \in Ids, event'[e] # None
               PROVE  e <= clock'
    OBVIOUS
  <2>1. CASE \E s \in staged : s.id = e
    BY <2>1, <1>5
  <2>2. CASE \A s \in staged : s.id # e
    <3>1. e \in Nat /\ e <= clock
      BY <2>2, <1>6, <1>8
    <3> QED BY <3>1, <1>3
  <2> QED BY <2>1, <2>2
<1>12. \A q \in Requests : req'[q].pc = "written" =>
         \A s \in req'[q].staged : s.id <= clock' /\ event'[s.id] = None
  <2> SUFFICES ASSUME NEW q \in Requests, req[q].pc = "written", NEW s \in req[q].staged
               PROVE  s.id <= clock' /\ event'[s.id] = None
    BY <1>7
  <2>1. req[q] \in Req
    BY DEF TypeInv, TypeOK, Idle
  <2>2. s.id \in Ids
    BY <2>1 DEF Req, Staged
  <2>3. s.id <= clock /\ event[s.id] = None
    BY DEF EventsKnown
  <2> QED BY <1>3, <1>8, <1>9, <2>2, <2>3
<1>13. \A w \in Workers : Busy(w)' => event'[worker'[w].ev] # None
  <2> SUFFICES ASSUME NEW w \in Workers, Busy(w)
               PROVE  event'[worker[w].ev] # None
    BY <1>7 DEF Busy
  <2>1. worker[w].ev \in Ids /\ event[worker[w].ev] # None
    BY RowsAreRows DEF TypeInv, Busy, Worker, EventsKnown
  <2> QED BY <1>8, <1>9, <2>1
<1> QED BY <1>7, <1>10, <1>11, <1>12, <1>13 DEF EventsKnown

LEMMA BeginKnown ==
  ASSUME TypeInv, EventsKnown, NEW r \in Requests, NEW op, NEW u, Begin(r, op, u)
  PROVE  EventsKnown'
<1>1. UNCHANGED <<event, clock, row, worker>>
  BY DEF Begin, outbox
<1>2. \A q \in Requests : req'[q].pc = "written" => req'[q] = req[q]
  BY DEF Begin, TypeInv, TypeOK
<1> QED BY <1>1, <1>2, KnownKept DEF EventsKnown, Busy

LEMMA HandlerEndKnown ==
  ASSUME TypeInv, EventsKnown, NEW r \in Requests, Abort(r) \/ Notify(r)
  PROVE  EventsKnown'
<1>1. UNCHANGED <<event, clock, row, worker>>
  BY DEF Abort, Notify, outbox
<1>2. \A q \in Requests : req'[q].pc = "written" => req'[q] = req[q]
  BY DEF Abort, Notify, TypeInv, TypeOK, Idle
<1> QED BY <1>1, <1>2, KnownKept DEF EventsKnown, Busy

LEMMA DispatchKnown ==
  ASSUME TypeInv, EventsKnown, NEW w \in Workers, Dispatch(w)
  PROVE  EventsKnown'
<1>1. UNCHANGED <<event, clock, req>>
  BY DEF Dispatch, ClaimOne, BatchEnds, Post, Accepted, Refused, Record, Finish, Fail,
         RecordLost, outbox
<1>2. CASE ClaimOne(w)
  <2>1. PICK e \in Ids :
           /\ row[e] # None
           /\ row' = [row EXCEPT ![e].st = "processing", ![e].leased = TRUE]
           /\ worker' = [worker EXCEPT ![w] = [pc |-> "send", ev |-> e, attempts |-> row[e].attempts]]
    BY <1>2 DEF ClaimOne, Claimable
  <2>2. \A d \in Ids : row'[d] # None => row[d] # None
    BY <2>1 DEF TypeInv, TypeOK
  <2>3. \A v \in Workers : Busy(v)' => event[worker'[v].ev] # None
    BY <2>1 DEF TypeInv, TypeOK, EventsKnown, Busy
  <2> QED BY <1>1, <2>2, <2>3, KnownKept
<1>3. CASE Post(w)
  <2>1. row' = row /\ worker[w].pc = "send"
    BY <1>3 DEF Post, Accepted, Refused, outbox
  <2>2. PICK pc \in {"accepted", "failed"} : worker' = [worker EXCEPT ![w].pc = pc]
    BY <1>3 DEF Post, Accepted, Refused, Answer
  <2>3. worker[w] \in Worker
    BY <2>1, RowsAreRows DEF TypeInv
  <2>4. \A v \in Workers : Busy(v)' => Busy(v) /\ worker'[v].ev = worker[v].ev
    BY <2>1, <2>2, <2>3 DEF Busy, Worker, TypeInv, TypeOK
  <2> QED BY <1>1, <2>1, <2>4, KnownKept DEF EventsKnown
<1>4. CASE BatchEnds(w) \/ Record(w) \/ RecordLost(w)
  <2>1. PICK d \in {Off, [pc |-> "scan"]} : worker' = [worker EXCEPT ![w] = d]
    BY <1>4 DEF BatchEnds, Record, Finish, Fail, RecordLost
  <2>2. \A v \in Workers : Busy(v)' => worker'[v] = worker[v]
    BY <2>1 DEF Busy, Off, TypeInv, TypeOK
  <2>3. \A e \in Ids : row'[e] # None => row[e] # None
    <3>1. CASE row' = row
      BY <3>1
    <3>2. CASE Finish(w) /\ Processing(worker[w].ev)
      <4>1. row[worker[w].ev] # None
        BY <3>2 DEF Processing
      <4>2. \A e \in Ids : e # worker[w].ev => row'[e] = row[e]
        BY <3>2 DEF Finish, TypeInv, TypeOK
      <4> QED BY <4>1, <4>2
    <3>3. CASE Fail(w) /\ StillProcessing(worker[w].ev)
      <4>1. row[worker[w].ev] # None
        BY <3>3 DEF StillProcessing, Processing
      <4>2. \A e \in Ids : e # worker[w].ev => row'[e] = row[e]
        BY <3>3 DEF Fail, TypeInv, TypeOK
      <4> QED BY <4>1, <4>2
    <3> QED BY <1>4, <3>1, <3>2, <3>3 DEF BatchEnds, Record, Finish, Fail, RecordLost, outbox
  <2> QED BY <1>1, <2>2, <2>3, KnownKept DEF EventsKnown, Busy
<1> QED BY <1>2, <1>3, <1>4 DEF Dispatch

LEMMA TimeKnown ==
  ASSUME TypeInv, EventsKnown,
         \/ \E e \in Ids : LateArrival(e) \/ LeaseLapses(e) \/ BackoffElapses(e)
                          \/ AdminRetry(e) \/ Cleanup(e)
         \/ RoundStart \/ Crash
  PROVE  EventsKnown'
<1>1. UNCHANGED <<event, clock>>
  BY DEF LateArrival, LeaseLapses, BackoffElapses, AdminRetry, Cleanup, RoundStart, Crash, outbox
<1>2. \A q \in Requests : req'[q].pc = "written" => req'[q] = req[q]
  <2>1. CASE Crash
    BY <2>1 DEF Crash, Idle
  <2>2. CASE req' = req
    BY <2>2
  <2> QED BY <2>1, <2>2 DEF LateArrival, LeaseLapses, BackoffElapses, AdminRetry, Cleanup, RoundStart
<1>3. \A w \in Workers : Busy(w)' => worker'[w] = worker[w]
  <2>1. CASE RoundStart \/ Crash
    BY <2>1 DEF RoundStart, Crash, Off, Busy
  <2>2. CASE worker' = worker
    BY <2>2
  <2> QED BY <2>1, <2>2 DEF LateArrival, LeaseLapses, BackoffElapses, AdminRetry, Cleanup
<1>4. \A d \in Ids : row'[d] # None => row[d] # None
  <2>1. CASE RoundStart \/ Crash
    BY <2>1 DEF RoundStart, Crash, outbox
  <2>2. ASSUME NEW e \in Ids, LateArrival(e)
        PROVE  \A d \in Ids : row'[d] # None => row[d] # None
    BY <2>2 DEF LateArrival, outbox
  <2>3. ASSUME NEW e \in Ids, LeaseLapses(e) \/ BackoffElapses(e) \/ AdminRetry(e) \/ Cleanup(e)
        PROVE  \A d \in Ids : row'[d] # None => row[d] # None
    <3>1. row[e] # None
      BY <2>3 DEF LeaseLapses, BackoffElapses, AdminRetry, Cleanup, Processing
    <3>2. \A d \in Ids : d # e => row'[d] = row[d]
      BY <2>3 DEF LeaseLapses, BackoffElapses, AdminRetry, Cleanup, TypeInv, TypeOK
    <3> QED BY <3>1, <3>2
  <2> QED BY <2>1, <2>2, <2>3
<1> QED BY <1>1, <1>2, <1>3, <1>4, KnownKept DEF EventsKnown, Busy

-----------------------------------------------------------------------------
(* Payloads.                                                               *)

\* A row that is not delivered afterwards is fresh, or was not delivered
\* before and has the payload it had.
LEMMA PayloadKept ==
  ASSUME UndeliveredKeepsPayload,
         \A e \in Ids : row'[e] # None /\ row'[e].st # "delivered" =>
           row'[e].full \/ (row[e] # None /\ row[e].st # "delivered" /\ row'[e].full = row[e].full)
  PROVE  UndeliveredKeepsPayload'
BY DEF UndeliveredKeepsPayload

\* No step empties a row but Finish, which delivers it; none queues a
\* delivered row again.
LEMMA PayloadStep ==
  ASSUME TypeInv, UndeliveredKeepsPayload, [Next]_vars
  PROVE  UndeliveredKeepsPayload'
<1> DEFINE Good(e) == row'[e] # None /\ row'[e].st # "delivered" =>
             row'[e].full \/ (row[e] # None /\ row[e].st # "delivered" /\ row'[e].full = row[e].full)
<1> SUFFICES \A e \in Ids : Good(e)
  BY PayloadKept
<1>0. CASE row' = row
  BY <1>0
<1>1. ASSUME NEW staged, NEW initial, Store(staged, initial)
      PROVE  \A e \in Ids : Good(e)
  <2>1. \A e \in Ids : row'[e] = row[e] \/ row'[e] = Fresh(initial)
    BY <1>1, StoreRows
  <2>2. Fresh(initial).full
    BY DEF Fresh
  <2> QED BY <2>1, <2>2
<1>2. ASSUME NEW w \in Workers, ClaimOne(w)
      PROVE  \A e \in Ids : Good(e)
  <2>1. PICK d \in Ids :
           /\ Claimable(d)
           /\ row' = [row EXCEPT ![d].st = "processing", ![d].leased = TRUE]
    BY <1>2 DEF ClaimOne
  <2>2. row[d] \in Row /\ row[d] # None /\ row[d].st # "delivered"
    BY <2>1, RowsAreRows DEF Claimable, TypeInv
  <2>3. row'[d].full = row[d].full
    BY <2>1, <2>2 DEF Row, TypeInv, TypeOK
  <2>4. \A e \in Ids : e # d => row'[e] = row[e]
    BY <2>1 DEF TypeInv, TypeOK
  <2> QED BY <2>2, <2>3, <2>4
<1>3. ASSUME NEW w \in Workers, Finish(w)
      PROVE  \A e \in Ids : Good(e)
  <2>1. \A e \in Ids : row'[e] = row[e] \/ row'[e].st = "delivered"
    <3>1. CASE ~Processing(worker[w].ev)
      BY <1>3, <3>1 DEF Finish
    <3>2. CASE Processing(worker[w].ev)
      <4>1. worker[w] \in Worker
        BY <1>3, RowsAreRows DEF Finish, TypeInv
      <4>2. worker[w].ev \in Ids
        BY <4>1 DEF Worker
      <4>3. row[worker[w].ev] \in Row
        BY <3>2, <4>2, RowsAreRows DEF Processing, TypeInv
      <4>4. row' = [row EXCEPT ![worker[w].ev].st = "delivered", ![worker[w].ev].leased = FALSE,
                               ![worker[w].ev].full = FALSE]
        BY <1>3, <3>2 DEF Finish
      <4> QED BY <4>2, <4>3, <4>4 DEF Row, TypeInv, TypeOK
    <3> QED BY <3>1, <3>2
  <2> QED BY <2>1
<1>4. ASSUME NEW w \in Workers, Fail(w)
      PROVE  \A e \in Ids : Good(e)
  <2> DEFINE d == worker[w].ev
             attempts == worker[w].attempts + 1
             st == IF Exhausted(attempts) THEN "dead" ELSE "pending"
  <2>1. CASE ~StillProcessing(d)
    BY <1>4, <2>1 DEF Fail
  <2>2. CASE StillProcessing(d)
    <3>1. worker[w] \in Worker
      BY <1>4, RowsAreRows DEF Fail, TypeInv
    <3>2. d \in Ids
      BY <3>1 DEF Worker
    <3>3. row[d] # None /\ row[d].st = "processing" /\ row[d] \in Row
      BY <2>2, <3>2, RowsAreRows DEF StillProcessing, Processing, TypeInv
    <3>4. row' = [row EXCEPT ![d].st = st, ![d].attempts = attempts, ![d].due = FALSE,
                             ![d].leased = FALSE]
      BY <1>4, <2>2 DEF Fail
    <3> HIDE DEF d, attempts, st
    <3>5. row'[d].full = row[d].full
      BY <3>2, <3>3, <3>4 DEF Row, TypeInv, TypeOK
    <3>6. \A e \in Ids : e # d => row'[e] = row[e]
      BY <3>4 DEF TypeInv, TypeOK
    <3> QED BY <3>3, <3>5, <3>6
  <2> QED BY <2>1, <2>2
<1>5. ASSUME NEW d \in Ids, LeaseLapses(d) \/ BackoffElapses(d) \/ AdminRetry(d) \/ Cleanup(d)
      PROVE  \A e \in Ids : Good(e)
  <2>1. row[d] # None /\ row[d] \in Row
    BY <1>5, RowsAreRows DEF LeaseLapses, BackoffElapses, AdminRetry, Cleanup, Processing, TypeInv
  <2>2. \A e \in Ids : e # d => row'[e] = row[e]
    BY <1>5 DEF LeaseLapses, BackoffElapses, AdminRetry, Cleanup, TypeInv, TypeOK
  <2>3. CASE LeaseLapses(d) \/ BackoffElapses(d)
    <3>1. row'[d].full = row[d].full /\ row'[d].st = row[d].st
      BY <2>1, <2>3 DEF LeaseLapses, BackoffElapses, Row, TypeInv, TypeOK
    <3> QED BY <2>1, <2>2, <3>1
  <2>4. CASE AdminRetry(d)
    <3>1. row'[d].full = row[d].full /\ row[d].st = "dead"
      BY <2>1, <2>4 DEF AdminRetry, Row, TypeInv, TypeOK
    <3> QED BY <2>1, <2>2, <3>1
  <2>5. CASE Cleanup(d)
    <3>1. row'[d] = None
      BY <2>5 DEF Cleanup, TypeInv, TypeOK
    <3> QED BY <2>2, <3>1
  <2> QED BY <1>5, <2>3, <2>4, <2>5
<1>6. ASSUME NEW r \in Requests, Request(r) \/ Handle(r)
      PROVE  \A e \in Ids : Good(e)
  <2>1. CASE Request(r)
    <3>1. row' = row
      BY <2>1, EveryRequestBegins DEF Begin, outbox
    <3> QED BY <3>1, <1>0
  <2>2. CASE Commit(r)
    BY <2>2, <1>1 DEF Commit
  <2>3. CASE Write(r) \/ Abort(r) \/ Notify(r)
    BY <2>3, <1>0 DEF Write, Abort, Notify, outbox
  <2> QED BY <1>6, <2>1, <2>2, <2>3 DEF Handle
<1>7. ASSUME NEW w \in Workers, BatchEnds(w) \/ Post(w) \/ RecordLost(w)
      PROVE  \A e \in Ids : Good(e)
  BY <1>7, <1>0 DEF BatchEnds, Post, Accepted, Refused, RecordLost, outbox
<1>8. CASE RoundStart \/ Crash \/ (\E e \in Ids : LateArrival(e)) \/ UNCHANGED vars
  BY <1>8, <1>0 DEF RoundStart, Crash, LateArrival, vars, outbox
<1>9. CASE Start
  BY <1>9, <1>1 DEF Start
<1> HIDE DEF Good
<1> QED BY <1>2, <1>3, <1>4, <1>5, <1>6, <1>7, <1>8, <1>9 DEF Next, Dispatch, Record

-----------------------------------------------------------------------------
(* What the receiver has seen.                                             *)

\* Processing an event never takes the receiver back, and leaves it at or
\* after that event.
LEMMA ReceiveMoves ==
  ASSUME TypeOK, \A u \in Users : StandsAtLast(u), event' = event,
         NEW e \in Ids, event[e] # None, Receive(e)
  PROVE  /\ \A u \in Users : StandsAtLast(u)'
         /\ \A u \in Users : last[u] <= last'[u]
         /\ e <= last'[event[e].user]
<1> DEFINE v == event[e].user
<1>1. event[e] \in Event
  BY DEF TypeOK
<1>2. v \in Users /\ event[e].kind \in Kinds
  BY <1>1 DEF Event
<1>3. \A u \in Users : last[u] \in Nat
  BY BoundsAssumption DEF TypeOK
<1>4. e \in Nat /\ e # 0
  BY BoundsAssumption DEF Ids
<1>5. CASE e <= last[v]
  <2>1. last' = last /\ member' = member
    BY <1>5 DEF Receive, receiver
  <2> QED BY <2>1, <1>3, <1>5 DEF StandsAtLast, EventsOf
<1>6. CASE ~(e <= last[v])
  <2>1. last' = [last EXCEPT ![v] = e]
    BY <1>6 DEF Receive
  <2>2. member' = IF event[e].kind = "updated" THEN member
                  ELSE [member EXCEPT ![v] = event[e].kind = "assigned"]
    BY <1>6 DEF Receive
  <2>3. last'[v] = e /\ \A u \in Users : u # v => last'[u] = last[u]
    BY <2>1, <1>2 DEF TypeOK
  <2>4. \A u \in Users : u # v => member'[u] = member[u]
    BY <2>2, <1>2 DEF TypeOK
  <2>5. event[e].kind # "updated" => member'[v] = (event[e].kind = "assigned")
    BY <2>2, <1>2 DEF TypeOK
  <2>6. e \in EventsOf(v)
    BY DEF EventsOf
  <2>7. EventsOf(v)' = EventsOf(v) /\ \A u \in Users : EventsOf(u)' = EventsOf(u)
    BY DEF EventsOf
  <2>8. StandsAtLast(v)'
    BY <2>3, <2>5, <2>6, <2>7 DEF StandsAtLast
  <2>9. \A u \in Users : u # v => StandsAtLast(u)'
    BY <2>3, <2>4, <2>7 DEF StandsAtLast
  <2> QED BY <2>3, <2>8, <2>9, <1>2, <1>3, <1>4, <1>6
<1> QED BY <1>5, <1>6

\* Steps after which nothing is settled or accepted that was not before.
LEMMA SeenKept ==
  ASSUME ReceiverKnown, UNCHANGED <<event, last, member>>,
         \A e \in Ids : event[e] # None /\ Settled(e)' =>
           Settled(e) \/ e <= last[event[e].user],
         \A w \in Workers : worker'[w].pc = "accepted" => worker'[w] = worker[w]
  PROVE  ReceiverKnown'
BY DEF ReceiverKnown, StandsAtLast, EventsOf

\* Steps in which the receiver processes an event.
LEMMA SeenReceive ==
  ASSUME TypeInv, EventsKnown, ReceiverKnown, NEW e \in Ids, event[e] # None,
         Receive(e), event' = event, row' = row,
         \A w \in Workers : worker'[w].pc = "accepted" =>
           worker'[w] = worker[w] \/ worker'[w].ev = e
  PROVE  ReceiverKnown'
<1>1. /\ \A u \in Users : StandsAtLast(u)'
      /\ \A u \in Users : last[u] <= last'[u]
      /\ e <= last'[event[e].user]
  BY ReceiveMoves DEF TypeInv, ReceiverKnown
<1>2. \A u \in Users : last[u] \in Nat /\ last'[u] \in Nat
  BY ReceiveType, BoundsAssumption DEF TypeInv, TypeOK
<1>3. \A d \in Ids : d \in Nat /\ (event[d] # None => event[d].user \in Users)
  BY BoundsAssumption DEF Ids, TypeInv, TypeOK, Event
<1>4. \A d \in Ids : event'[d] # None /\ Settled(d)' => d <= last'[event'[d].user]
  BY <1>1, <1>2, <1>3 DEF ReceiverKnown, Settled
<1>5. \A w \in Workers : worker'[w].pc = "accepted" =>
        worker'[w].ev <= last'[event'[worker'[w].ev].user]
  <2> SUFFICES ASSUME NEW w \in Workers, worker'[w].pc = "accepted"
               PROVE  worker'[w].ev <= last'[event[worker'[w].ev].user]
    OBVIOUS
  <2>1. CASE worker'[w].ev = e
    BY <2>1, <1>1
  <2>2. CASE worker'[w] = worker[w]
    <3>1. worker[w].ev \in Ids /\ event[worker[w].ev] # None
      BY <2>2, RowsAreRows DEF TypeInv, Worker, EventsKnown, Busy
    <3>2. worker[w].ev <= last[event[worker[w].ev].user]
      BY <2>2 DEF ReceiverKnown
    <3> QED BY <2>2, <3>1, <3>2, <1>1, <1>2, <1>3
  <2> QED BY <2>1, <2>2
<1> QED BY <1>1, <1>4, <1>5 DEF ReceiverKnown

\* Steps that commit events: the new ones are not settled.
LEMMA SeenStore ==
  ASSUME TypeInv, EventsKnown, ReceiverKnown,
         NEW staged \in SUBSET Staged, NEW initial, Store(staged, initial),
         \A s \in staged : event[s.id] = None,
         UNCHANGED <<last, member, worker>>
  PROVE  ReceiverKnown'
<1>1. /\ \A e \in Ids : (\E s \in staged : s.id = e) => event'[e] # None /\ row'[e] = Fresh(initial)
      /\ \A e \in Ids : (\A s \in staged : s.id # e) => event'[e] = event[e] /\ row'[e] = row[e]
  BY StoreAdds
<1>2. \A e \in Ids : event[e] # None => event'[e] = event[e] /\ row'[e] = row[e]
  BY <1>1
<1>3. \A u \in Users : StandsAtLast(u)'
  BY <1>2 DEF ReceiverKnown, StandsAtLast, EventsOf
<1>4. \A e \in Ids : event'[e] # None /\ Settled(e)' => event[e] # None /\ Settled(e)
  BY <1>1 DEF Settled, Fresh, None
<1>5. \A e \in Ids : event'[e] # None /\ Settled(e)' => e <= last'[event'[e].user]
  BY <1>2, <1>4 DEF ReceiverKnown
<1>6. \A w \in Workers : worker[w].pc = "accepted" =>
        worker[w].ev \in Ids /\ event[worker[w].ev] # None
  BY RowsAreRows DEF TypeInv, Worker, EventsKnown, Busy
<1>7. \A w \in Workers : worker'[w].pc = "accepted" =>
        worker'[w].ev <= last'[event'[worker'[w].ev].user]
  BY <1>2, <1>6 DEF ReceiverKnown
<1> QED BY <1>3, <1>5, <1>7 DEF ReceiverKnown

LEMMA DispatchSeen ==
  ASSUME TypeInv, EventsKnown, ReceiverKnown, NEW w \in Workers, Dispatch(w)
  PROVE  ReceiverKnown'
<1>1. event' = event
  BY DEF Dispatch, ClaimOne, BatchEnds, Post, Accepted, Refused, Record, Finish, Fail,
         RecordLost, outbox
<1>2. CASE Accepted(w)
  <2>1. worker[w].pc = "send" /\ row' = row /\ Receive(worker[w].ev)
    BY <1>2 DEF Accepted, outbox
  <2>2. worker[w] \in Worker /\ worker[w].ev \in Ids /\ event[worker[w].ev] # None
    BY <2>1, RowsAreRows DEF TypeInv, Worker, EventsKnown, Busy
  <2>3. worker' = [worker EXCEPT ![w].pc = "accepted"]
    BY <1>2 DEF Accepted, Answer
  <2>4. \A v \in Workers : worker'[v] = worker[v] \/ worker'[v].ev = worker[w].ev
    BY <2>2, <2>3 DEF TypeInv, TypeOK, Worker
  <2> QED BY <1>1, <2>1, <2>2, <2>4, SeenReceive
<1>3. CASE Finish(w)
  <2>1. worker[w].pc = "accepted" /\ worker' = [worker EXCEPT ![w] = [pc |-> "scan"]]
        /\ UNCHANGED <<last, member>>
    BY <1>3 DEF Finish, receiver
  <2>2. worker[w].ev <= last[event[worker[w].ev].user]
    BY <2>1 DEF ReceiverKnown
  <2>3. \A e \in Ids : e # worker[w].ev => row'[e] = row[e]
    BY <1>3 DEF Finish, TypeInv, TypeOK
  <2>4. \A v \in Workers : worker'[v].pc = "accepted" => worker'[v] = worker[v]
    BY <2>1 DEF TypeInv, TypeOK
  <2>5. \A e \in Ids : Settled(e)' => Settled(e) \/ e = worker[w].ev
    BY <2>3 DEF Settled
  <2> QED BY <1>1, <2>1, <2>2, <2>4, <2>5, SeenKept
<1>4. CASE ClaimOne(w)
  <2>1. PICK e \in Ids :
           /\ Claimable(e)
           /\ row' = [row EXCEPT ![e].st = "processing", ![e].leased = TRUE]
           /\ worker' = [worker EXCEPT ![w] = [pc |-> "send", ev |-> e, attempts |-> row[e].attempts]]
    BY <1>4 DEF ClaimOne
  <2>2. row[e] \in Row
    BY <2>1, RowsAreRows DEF Claimable, TypeInv
  <2>3. row'[e].st = "processing" /\ row'[e] # None
    BY <2>1, <2>2 DEF Row, TypeInv, TypeOK, None
  <2>4. \A d \in Ids : d # e => row'[d] = row[d]
    BY <2>1 DEF TypeInv, TypeOK
  <2>5. \A d \in Ids : Settled(d)' => Settled(d)
    BY <2>3, <2>4 DEF Settled
  <2>6. \A v \in Workers : worker'[v].pc = "accepted" => worker'[v] = worker[v]
    BY <2>1 DEF TypeInv, TypeOK
  <2>7. UNCHANGED <<last, member>>
    BY <1>4 DEF ClaimOne, receiver
  <2> QED BY <1>1, <2>5, <2>6, <2>7, SeenKept
<1>5. CASE Fail(w)
  <2> DEFINE d == worker[w].ev
             attempts == worker[w].attempts + 1
             st == IF Exhausted(attempts) THEN "dead" ELSE "pending"
  <2>1. \A e \in Ids : Settled(e)' => Settled(e)
    <3>1. CASE ~StillProcessing(d)
      BY <1>5, <3>1 DEF Fail, Settled
    <3>2. CASE StillProcessing(d)
      <4>1. worker[w] \in Worker
        BY <1>5, RowsAreRows DEF Fail, TypeInv
      <4>2. d \in Ids
        BY <4>1 DEF Worker
      <4>3. row[d] \in Row
        BY <3>2, <4>2, RowsAreRows DEF StillProcessing, Processing, TypeInv
      <4>4. row' = [row EXCEPT ![d].st = st, ![d].attempts = attempts, ![d].due = FALSE,
                               ![d].leased = FALSE]
        BY <1>5, <3>2 DEF Fail
      <4>5. st \in {"dead", "pending"}
        OBVIOUS
      <4> HIDE DEF d, attempts, st
      <4>6. row'[d].st = st
        BY <4>2, <4>3, <4>4 DEF Row, TypeInv, TypeOK
      <4>7. row'[d] # None /\ row'[d].st # "delivered"
        BY <4>5, <4>6 DEF None
      <4>8. \A e \in Ids : e # d => row'[e] = row[e]
        BY <4>4 DEF TypeInv, TypeOK
      <4> QED BY <4>7, <4>8 DEF Settled
    <3> QED BY <3>1, <3>2
  <2>2. worker' = [worker EXCEPT ![w] = [pc |-> "scan"]] /\ UNCHANGED <<last, member>>
    BY <1>5 DEF Fail, receiver
  <2>3. \A v \in Workers : worker'[v].pc = "accepted" => worker'[v] = worker[v]
    BY <2>2 DEF TypeInv, TypeOK
  <2> QED BY <1>1, <2>1, <2>2, <2>3, SeenKept
<1>6. CASE BatchEnds(w) \/ Refused(w) \/ RecordLost(w)
  <2>1. UNCHANGED <<row, last, member>>
    BY <1>6 DEF BatchEnds, Refused, RecordLost, outbox, receiver
  <2>2. \A v \in Workers : worker'[v].pc = "accepted" => worker'[v] = worker[v]
    <3>1. CASE Refused(w)
      <4>1. worker[w] \in Worker /\ worker' = [worker EXCEPT ![w].pc = "failed"]
        BY <3>1, RowsAreRows DEF Refused, Answer, TypeInv
      <4> QED BY <4>1 DEF TypeInv, TypeOK, Worker
    <3>2. CASE BatchEnds(w) \/ RecordLost(w)
      BY <3>2 DEF BatchEnds, RecordLost, Off, TypeInv, TypeOK
    <3> QED BY <1>6, <3>1, <3>2
  <2> QED BY <1>1, <2>1, <2>2, SeenKept DEF Settled
<1> QED BY <1>2, <1>3, <1>4, <1>5, <1>6 DEF Dispatch, Post, Record

LEMMA TimeSeen ==
  ASSUME TypeInv, EventsKnown, ReceiverKnown, NEW e \in Ids,
         LeaseLapses(e) \/ BackoffElapses(e) \/ AdminRetry(e) \/ Cleanup(e)
  PROVE  ReceiverKnown'
<1>1. UNCHANGED <<event, last, member, worker>>
  BY DEF LeaseLapses, BackoffElapses, AdminRetry, Cleanup, receiver
<1>2. row[e] # None /\ row[e] \in Row
  BY RowsAreRows DEF LeaseLapses, BackoffElapses, AdminRetry, Cleanup, Processing, TypeInv
<1>3. \A d \in Ids : d # e => row'[d] = row[d]
  BY DEF LeaseLapses, BackoffElapses, AdminRetry, Cleanup, TypeInv, TypeOK
<1>4. Settled(e)' => Settled(e)
  <2>1. CASE LeaseLapses(e) \/ BackoffElapses(e)
    <3>1. row'[e].st = row[e].st
      BY <2>1, <1>2 DEF LeaseLapses, BackoffElapses, Row, TypeInv, TypeOK
    <3> QED BY <3>1, <1>2 DEF Settled, Row, None
  <2>2. CASE AdminRetry(e)
    <3>1. row'[e].st = "pending"
      BY <2>2, <1>2 DEF AdminRetry, Row, TypeInv, TypeOK
    <3> QED BY <3>1 DEF Settled, None
  <2>3. CASE Cleanup(e)
    BY <2>3 DEF Cleanup, Settled
  <2> QED BY <2>1, <2>2, <2>3
<1> QED BY <1>1, <1>3, <1>4, SeenKept DEF Settled

\* A POST that arrives late is one more event for the receiver.
LEMMA LateArrivalStep ==
  ASSUME TypeInv, EventsKnown, ReceiverKnown, NEW e \in Ids, LateArrival(e)
  PROVE  TypeInv' /\ ReceiverKnown'
<1>1. event[e] # None
  BY DEF LateArrival, EventsKnown
<1>2. /\ Receive(e)
      /\ UNCHANGED <<up, client, account, assign, req, clock, event, row, woken, worker,
                     interventions>>
  BY DEF LateArrival, store, outbox
<1>3. last' \in [Users -> 0 .. MaxEvents] /\ member' \in [Users -> BOOLEAN]
  BY <1>1, <1>2, ReceiveType DEF TypeInv
<1>4. TypeInv'
  BY <1>2, <1>3 DEF TypeInv, TypeOK, AttemptsLeft
<1>5. ReceiverKnown'
  BY <1>1, <1>2, SeenReceive
<1> QED BY <1>4, <1>5

\* A transaction that commits adds events nobody has seen.
LEMMA CommitSeen ==
  ASSUME TypeInv, EventsKnown, ReceiverKnown, NEW r \in Requests, Commit(r)
  PROVE  ReceiverKnown'
<1>1. req[r].pc = "written" /\ req[r] \in Req
  BY DEF Commit, TypeInv, TypeOK, Idle
<1>2. req[r].staged \in SUBSET Staged
  BY <1>1 DEF Req
<1>3. \A s \in req[r].staged : event[s.id] = None
  BY <1>1 DEF EventsKnown
<1>4. Store(req[r].staged, FALSE) /\ UNCHANGED <<last, member, worker>>
  BY DEF Commit, receiver
<1> QED BY <1>2, <1>3, <1>4, SeenStore

\* So does the snapshot of a start: its events are dated after the clock.
LEMMA StartSeen ==
  ASSUME TypeInv, EventsKnown, ReceiverKnown, Start
  PROVE  ReceiverKnown'
<1> DEFINE events(us) == {[id |-> clock + i, kind |-> "assigned", user |-> us[i]] :
                            i \in 1 .. Len(us)}
<1>1. PICK us \in Orders(Assigned \ Snapshot) :
         clock + Len(us) <= MaxEvents /\ clock' = clock + Len(us) /\ Store(events(us), TRUE)
  BY DEF Start
<1>2. us \in Seq(Users)
  <2>1. Assigned \ Snapshot \in SUBSET Users
    BY DEF Assigned
  <2> QED BY <2>1, OrdersAreSequences
<1>3. clock \in Nat /\ clock + Len(us) \in 0 .. MaxEvents
  BY <1>1, <1>2, BoundsAssumption DEF TypeInv, TypeOK
<1>4. events(us) \in SUBSET Staged
  BY <1>2, <1>3, StagedType DEF TypeInv, Kinds
<1>5. \A s \in events(us) : event[s.id] = None
  <2> SUFFICES ASSUME NEW i \in 1 .. Len(us)
               PROVE  event[clock + i] = None
    OBVIOUS
  <2>1. clock + i \in Ids /\ ~(clock + i <= clock)
    BY <1>2, <1>3, BoundsAssumption DEF Ids
  <2> QED BY <2>1 DEF EventsKnown
<1>6. UNCHANGED <<last, member, worker>>
  BY DEF Start, receiver
<1> QED BY <1>1, <1>4, <1>5, <1>6, SeenStore

\* The other steps leave the receiver and what is settled alone.
LEMMA OtherStepsSeen ==
  ASSUME ReceiverKnown,
         \/ \E r \in Requests : Request(r) \/ Write(r) \/ Abort(r) \/ Notify(r)
         \/ RoundStart \/ Crash
  PROVE  ReceiverKnown'
<1>1. UNCHANGED <<event, row, last, member>>
  <2>1. CASE \E r \in Requests : Request(r)
    BY <2>1, EveryRequestBegins DEF Begin, outbox, receiver
  <2>2. CASE \E r \in Requests : Write(r) \/ Abort(r) \/ Notify(r)
    BY <2>2 DEF Write, Abort, Notify, outbox, receiver
  <2>3. CASE RoundStart \/ Crash
    BY <2>3 DEF RoundStart, Crash, outbox, receiver
  <2> QED BY <2>1, <2>2, <2>3
<1>2. \A w \in Workers : worker'[w].pc = "accepted" => worker'[w] = worker[w]
  <2>1. CASE \E r \in Requests : Request(r)
    BY <2>1, EveryRequestBegins DEF Begin
  <2>2. CASE \E r \in Requests : Write(r) \/ Abort(r) \/ Notify(r)
    BY <2>2 DEF Write, Abort, Notify
  <2>3. CASE RoundStart \/ Crash
    BY <2>3 DEF RoundStart, Crash, Off
  <2> QED BY <2>1, <2>2, <2>3
<1> QED BY <1>1, <1>2, SeenKept DEF Settled

-----------------------------------------------------------------------------
(* The inductive invariant.                                                *)

LEMMA InitIInv == Init => IInv
<1> SUFFICES ASSUME Init PROVE IInv
  OBVIOUS
<1>1. \A r \in Requests : req[r] = Idle
  BY DEF Init
<1>2. \A e \in Ids : event[e] = None /\ row[e] = None
  BY DEF Init
<1>3. \A w \in Workers : worker[w] = Off
  BY DEF Init
<1>4. TypeOK
  <2>1. /\ up \in BOOLEAN /\ client \in {"active", "deleted"}
        /\ account \in [Users -> {"active", "inactive", "deleted"}]
        /\ assign \in [Users -> {"none", "active", "deleted"}]
    BY DEF Init
  <2>2. /\ req \in [Requests -> Req \cup {Idle, [pc |-> "notify"]}]
        /\ event \in [Ids -> Event \cup {None}]
        /\ row \in [Ids -> Row \cup {None}]
        /\ worker \in [Workers -> Worker \cup {Off, [pc |-> "scan"]}]
    BY DEF Init
  <2>3. /\ clock \in 0 .. MaxEvents /\ woken \in BOOLEAN
        /\ last \in [Users -> 0 .. MaxEvents] /\ member \in [Users -> BOOLEAN]
        /\ interventions \in 0 .. MaxInterventions
    <3>1. 0 \in 0 .. MaxEvents /\ 0 \in 0 .. MaxInterventions
      BY BoundsAssumption
    <3>2. clock = 0 /\ interventions = 0 /\ woken = FALSE
      BY DEF Init
    <3>3. last \in [Users -> 0 .. MaxEvents] /\ member \in [Users -> BOOLEAN]
      BY <3>1 DEF Init
    <3> QED BY <3>1, <3>2, <3>3
  <2> QED BY <2>1, <2>2, <2>3 DEF TypeOK
<1>5. AttemptsLeft
  BY <1>2, <1>3 DEF AttemptsLeft, None, Off
<1>6. EventsKnown
  BY <1>1, <1>2, <1>3 DEF EventsKnown, Busy, Idle, Off
<1>7. ReceiverKnown
  BY <1>2, <1>3 DEF ReceiverKnown, StandsAtLast, Off, Init
<1>8. UndeliveredKeepsPayload
  BY <1>2 DEF UndeliveredKeepsPayload
<1> QED BY <1>4, <1>5, <1>6, <1>7, <1>8 DEF IInv, TypeInv

\* One step for each part of Next.
LEMMA StepIInv ==
  ASSUME IInv, [Next]_vars
  PROVE  IInv'
<1> USE DEF IInv
<1>0. UndeliveredKeepsPayload'
  BY PayloadStep
<1>1. CASE \E r \in Requests : Request(r)
  <2>1. PICK r \in Requests, op \in Operations, u \in Users : Begin(r, op, u)
    BY <1>1, EveryRequestBegins
  <2>2. TypeInv' /\ EventsKnown'
    BY <2>1, BeginType, BeginKnown
  <2> QED BY <1>0, <1>1, <2>2, OtherStepsSeen
<1>2. CASE \E r \in Requests : Write(r)
  BY <1>0, <1>2, WriteType, WriteKnown, OtherStepsSeen
<1>3. CASE \E r \in Requests : Commit(r)
  BY <1>0, <1>3, CommitType, CommitKnown, CommitSeen
<1>4. CASE \E r \in Requests : Abort(r) \/ Notify(r)
  <2>1. TypeInv' /\ EventsKnown'
    BY <1>4, HandlerEndType, HandlerEndKnown
  <2> QED BY <1>0, <1>4, <2>1, OtherStepsSeen
<1>5. CASE RoundStart
  BY <1>0, <1>5, RoundStartType, TimeKnown, OtherStepsSeen
<1>6. CASE \E w \in Workers : Dispatch(w)
  <2>1. PICK w \in Workers : Dispatch(w)
    BY <1>6
  <2>2. TypeInv'
    <3>1. CASE ClaimOne(w) \/ BatchEnds(w)
      BY <3>1, ClaimOneType, BatchEndsType
    <3>2. CASE Post(w)
      <4>1. worker[w].pc = "send" => event[worker[w].ev] # None
        BY DEF EventsKnown, Busy
      <4> QED BY <3>2, <4>1, PostType
    <3>3. CASE Record(w) \/ RecordLost(w)
      BY <3>3, RecordType
    <3> QED BY <2>1, <3>1, <3>2, <3>3 DEF Dispatch
  <2> QED BY <1>0, <2>1, <2>2, DispatchKnown, DispatchSeen
<1>7. CASE \E e \in Ids : LateArrival(e)
  BY <1>0, <1>7, LateArrivalStep, TimeKnown
<1>8. CASE \E e \in Ids : LeaseLapses(e) \/ BackoffElapses(e) \/ AdminRetry(e) \/ Cleanup(e)
  BY <1>0, <1>8, TimeType, TimeKnown, TimeSeen
<1>9. CASE Crash
  BY <1>0, <1>9, CrashType, TimeKnown, OtherStepsSeen
<1>10. CASE Start
  BY <1>0, <1>10, StartType, StartKnown, StartSeen
<1>11. CASE UNCHANGED vars
  <2>1. UNCHANGED <<up, client, account, assign, req, clock, event, row, woken, worker,
                    last, member, interventions>>
    BY <1>11 DEF vars, store, outbox, receiver
  <2>2. TypeInv'
    BY <2>1 DEF TypeInv, TypeOK, AttemptsLeft
  <2>3. EventsKnown'
    BY <2>1, KnownKept DEF EventsKnown, Busy
  <2>4. ReceiverKnown'
    BY <2>1, SeenKept DEF Settled
  <2> QED BY <1>0, <2>2, <2>3, <2>4
<1> QED BY <1>1, <1>2, <1>3, <1>4, <1>5, <1>6, <1>7, <1>8, <1>9, <1>10, <1>11
        DEF Next, Handle

\* IInv holds in every reachable state.
LEMMA InvariantHolds == Spec => []IInv
<1>1. Init => IInv
  BY InitIInv
<1>2. IInv /\ [Next]_vars => IInv'
  BY StepIInv
<1> QED BY <1>1, <1>2, PTL DEF Spec

\* The greatest member of a set of numbers is the one Newest chooses.
LEMMA NewestIsGreatest ==
  ASSUME NEW S \in SUBSET Nat, NEW n \in S, \A d \in S : d <= n
  PROVE  Newest(S) = n
<1>1. Newest(S) \in S /\ \A d \in S : d <= Newest(S)
  <2>1. \E e \in S : \A d \in S : d <= e
    OBVIOUS
  <2> QED BY <2>1, Zenon DEF Newest
<1>2. Newest(S) \in Nat /\ n \in Nat /\ Newest(S) <= n /\ n <= Newest(S)
  BY <1>1
<1> QED BY <1>2

\* The inductive invariant says what the newest event decides.
LEMMA NewestDecides ==
  ASSUME IInv
  PROVE  NewestEventDecides
<1> SUFFICES ASSUME NEW u \in Users, EventsOf(u) # {}, \A e \in EventsOf(u) : Settled(e)
             PROVE  LET n == Newest(EventsOf(u)) IN
                    /\ last[u] = n
                    /\ event[n].kind # "updated" => member[u] = (event[n].kind = "assigned")
  BY DEF NewestEventDecides
<1>1. \A e \in EventsOf(u) : e <= last[u]
  BY DEF IInv, ReceiverKnown, EventsOf
<1>2. EventsOf(u) \in SUBSET Nat /\ 0 \notin EventsOf(u)
  BY BoundsAssumption DEF EventsOf, Ids
<1>3. last[u] \in Nat
  BY BoundsAssumption DEF IInv, TypeInv, TypeOK
<1>4. last[u] # 0
  BY <1>1, <1>2, <1>3
<1>5. /\ last[u] \in EventsOf(u)
      /\ event[last[u]].kind # "updated" => member[u] = (event[last[u]].kind = "assigned")
  BY <1>4 DEF IInv, ReceiverKnown, StandsAtLast
<1>6. Newest(EventsOf(u)) = last[u]
  BY <1>1, <1>2, <1>5, NewestIsGreatest
<1> QED BY <1>5, <1>6

-----------------------------------------------------------------------------
(* Theorems.                                                               *)

\* The variables keep their types: in particular a row never counts more than
\* MaxAttempts attempts (fail of provisioning.go), and the room kept for the
\* snapshot of a start is enough.
THEOREM ProvisioningTypes == Spec => []TypeOK
<1>1. IInv => TypeOK
  BY DEF IInv, TypeInv
<1> QED BY <1>1, InvariantHolds, PTL

\* No row that is still to be delivered has lost its payload, whatever
\* workers with lapsed leases record (deliver and fail of provisioning.go).
THEOREM PayloadSafe == Spec => []UndeliveredKeepsPayload
<1>1. IInv => UndeliveredKeepsPayload
  BY DEF IInv
<1> QED BY <1>1, InvariantHolds, PTL

\* Once everything about a user is delivered, the newest event decides the
\* membership, for any number of workers, retries, lapsed leases and crashes.
THEOREM NewestSafe == Spec => []NewestEventDecides
<1>1. IInv => NewestEventDecides
  BY NewestDecides
<1> QED BY <1>1, InvariantHolds, PTL
=============================================================================
