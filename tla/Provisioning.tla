---------------------------- MODULE Provisioning ----------------------------
(***************************************************************************)
(* Provisioning of one OAuth client that has a target: every handler that  *)
(* changes who may use the client also writes an event to an outbox, in    *)
(* the same transaction; a dispatcher with several workers posts the       *)
(* events to the application, which keeps a membership of its own.         *)
(*                                                                         *)
(* A handler is three steps: Begin takes the row lock and reads what the   *)
(* code reads first, Write reads the rest, dates the events (the date is   *)
(* the event's id here) and stages them, Commit makes all of it visible.   *)
(* Other transactions run in between, and commit in another order than     *)
(* the dates.  Notify is a fourth step, after the commit.                  *)
(*                                                                         *)
(* The receiver is not part of the repository.  Receive models what        *)
(* docs/protocol/provisioning.md asks of it.  The profile an event carries *)
(* is left out; `full' says whether a row still has its payload.           *)
(***************************************************************************)
EXTENDS Naturals, FiniteSets, Sequences

CONSTANTS
  Users,             \* accounts with a verified email
  Owner,             \* the client's owner, in Users or an account not in play
  Requests,          \* concurrent HTTP requests
  Workers,           \* goroutines of the dispatcher
  MaxAttempts,       \* PROVISIONING_MAX_ATTEMPTS
  MaxEvents,         \* bound on events
  MaxInterventions   \* bound on crashes and manual retries together

ASSUME UsersAssumption == IsFiniteSet(Users) /\ Users # {}
ASSUME BoundsAssumption ==
  MaxAttempts \in Nat \ {0} /\ MaxEvents \in Nat /\ MaxInterventions \in Nat

VARIABLES
  up,        \* the process has started and not crashed
  client,    \* the oauth_clients row
  account,   \* users.is_active, or deleted
  assign,    \* oauth_client_assignments: no row, active, or soft-deleted
  req,       \* handlers in flight
  clock,     \* date of the last event
  event,     \* history: what each committed event said
  row,       \* provisioning_outboxes
  woken,     \* wakeDispatcher holds a signal
  worker,    \* goroutines of dispatchAvailable
  last,      \* receiver: newest event processed, by subject
  member,    \* receiver: who has a membership
  interventions

store == <<client, account, assign>>
outbox == <<clock, event, row>>
receiver == <<last, member>>
vars == <<up, store, req, outbox, woken, worker, receiver, interventions>>

Ids == 1 .. MaxEvents
None == [st |-> "none"]
Idle == [pc |-> "idle"]
Off == [pc |-> "off"]

Kinds == {"assigned", "unassigned", "updated"}
Event == [kind : Kinds, user : Users]
Row == [st : {"pending", "processing", "delivered", "dead"},
        attempts : 0 .. MaxAttempts,
        due : BOOLEAN,      \* next_attempt_at has passed
        leased : BOOLEAN,   \* locked_until has not passed
        full : BOOLEAN,     \* the payload is still there
        initial : BOOLEAN]  \* the dedupe key of the start-up snapshot

Staged == [id : Ids, kind : Kinds, user : Users]
Operations == {"assign", "unassign", "activate", "deactivate", "profile",
               "removeUser", "removeClient"}
Req == [pc : {"begun", "written"}, op : Operations, user : Users,
        hits : BOOLEAN,     \* the handler's own assignment row exists
        inserts : BOOLEAN,  \* it had to be inserted
        staged : SUBSET Staged]
Worker == [pc : {"send", "accepted", "failed"}, ev : Ids,
           attempts : 0 .. MaxAttempts]

TypeOK ==
  /\ up \in BOOLEAN
  /\ client \in {"active", "deleted"}
  /\ account \in [Users -> {"active", "inactive", "deleted"}]
  /\ assign \in [Users -> {"none", "active", "deleted"}]
  /\ req \in [Requests -> Req \cup {Idle, [pc |-> "notify"]}]
  /\ clock \in 0 .. MaxEvents
  /\ event \in [Ids -> Event \cup {None}]
  /\ row \in [Ids -> Row \cup {None}]
  /\ woken \in BOOLEAN
  /\ worker \in [Workers -> Worker \cup {Off, [pc |-> "scan"]}]
  /\ last \in [Users -> 0 .. MaxEvents]
  /\ member \in [Users -> BOOLEAN]
  /\ interventions \in 0 .. MaxInterventions

\* The client was registered before its target was configured: the owner has
\* an assignment and no event.
Init ==
  /\ up = FALSE
  /\ client = "active"
  /\ account = [u \in Users |-> "active"]
  /\ assign = [u \in Users |-> IF u = Owner THEN "active" ELSE "none"]
  /\ req = [r \in Requests |-> Idle]
  /\ clock = 0
  /\ event = [e \in Ids |-> None]
  /\ row = [e \in Ids |-> None]
  /\ woken = FALSE
  /\ worker = [w \in Workers |-> Off]
  /\ last = [u \in Users |-> 0]
  /\ member = [u \in Users |-> FALSE]
  /\ interventions = 0

-----------------------------------------------------------------------------
(* Row locks.  SELECT ... FOR UPDATE on the client, FOR UPDATE or UPDATE on *)
(* the user; an inserted assignment holds its user against FOR UPDATE, and *)
(* a changed assignment is held until the commit.                          *)

OnClient == {"assign", "unassign", "removeClient"}
OnUser == {"activate", "deactivate", "profile", "removeUser"}

Open(r) == req[r].pc \in {"begun", "written"}
ClientLocked == \E r \in Requests : Open(r) /\ req[r].op \in OnClient
UserLockedBy(u, ops) == \E r \in Requests : Open(r) /\ req[r].op \in ops /\ req[r].user = u
UserLocked(u) == UserLockedBy(u, OnUser)
KeyHeld(u) == \E r \in Requests :
  req[r].pc = "written" /\ req[r].op = "assign" /\ req[r].user = u /\ req[r].inserts
RowHeld(u) == \E r \in Requests :
  /\ req[r].pc = "written" /\ req[r].op \in {"assign", "unassign"}
  /\ req[r].user = u /\ req[r].hits

Assigned == {u \in Users : assign[u] = "active"}

-----------------------------------------------------------------------------
(* Handlers.                                                               *)

Begin(r, op, u) ==
  /\ up
  /\ req[r] = Idle
  /\ req' = [req EXCEPT ![r] =
       [pc |-> "begun", op |-> op, user |-> u, hits |-> assign[u] # "none",
        inserts |-> FALSE, staged |-> {}]]
  /\ UNCHANGED <<up, store, outbox, woken, worker, receiver, interventions>>

\* findAssignableUser reads the user without a lock.
AssignClientUser(r, u) ==
  /\ client = "active" /\ ~ClientLocked
  /\ account[u] = "active"
  /\ Begin(r, "assign", u)

DeleteClientAssignment(r, u) ==
  /\ client = "active" /\ ~ClientLocked
  /\ u # Owner
  /\ assign[u] = "active"
  /\ Begin(r, "unassign", u)

AdminUpdateStatus(r, u, op) ==
  /\ account[u] # "deleted" /\ ~UserLocked(u) /\ ~KeyHeld(u)
  /\ Begin(r, op, u)

\* UpdateProfile, UploadAvatar and DeleteAvatar.
UpdateProfile(r, u) ==
  /\ account[u] # "deleted" /\ ~UserLocked(u)
  /\ Begin(r, "profile", u)

AdminDeleteUser(r, u) ==
  /\ account[u] # "deleted" /\ ~UserLocked(u) /\ ~KeyHeld(u)
  /\ Begin(r, "removeUser", u)

\* The request names no user; any stands in the record.
DeleteClient(r) ==
  /\ client = "active" /\ ~ClientLocked
  /\ Begin(r, "removeClient", CHOOSE u \in Users : TRUE)

\* The orders in which a query without ORDER BY may return a set of rows.
Orders(U) == {s \in [1 .. Cardinality(U) -> U] :
                \A i, j \in 1 .. Cardinality(U) : s[i] = s[j] => i = j}

\* EnqueueForUser: only where the user has an active assignment.
\* Slip: an account that comes back is not announced.
ForUserUnlessActivated(op, u) == IF u \in Assigned /\ op # "activate" THEN <<u>> ELSE <<>>
ForUser(op, u) == IF u \in Assigned THEN <<u>> ELSE <<>>

\* AdminDeleteUser announces its own user, then the assignments of the
\* clients that user owns, the owner's own among them.
Subjects(r) ==
  LET op == req[r].op
      u == req[r].user
  IN CASE op \in {"assign", "unassign"} -> {<<u>>}
       [] op \in {"activate", "deactivate", "profile"} -> {ForUser(op, u)}
       [] op = "removeUser" ->
            IF u = Owner THEN {ForUser(op, u) \o s : s \in Orders(Assigned)}
            ELSE {ForUser(op, u)}
       [] op = "removeClient" -> Orders(Assigned)

KindOf(op) == CASE op \in {"assign", "activate"} -> "assigned"
                [] op = "profile" -> "updated"
                [] OTHER -> "unassigned"

\* Users with a snapshot row: the dedupe key is unique.
Snapshot == {event[e].user : e \in {i \in Ids : row[i] # None /\ row[i].initial}}

\* The bound leaves an event for every snapshot row a start may add.
HasRoom(n) == clock + n + Cardinality(Users \ Snapshot) <= MaxEvents

\* INSERT of an assignment waits for the user's row and needs it; UPDATE or
\* DELETE of a row that has gone in the meantime changes nothing.
CanWrite(r) ==
  req[r].op = "assign" /\ ~req[r].hits =>
    /\ account[req[r].user] # "deleted"
    /\ ~UserLockedBy(req[r].user, OnUser \ {"profile"})

Write(r) ==
  LET u == req[r].user
      inserts == req[r].op = "assign" /\ ~req[r].hits
  IN
  /\ req[r].pc = "begun"
  /\ CanWrite(r)
  /\ \E us \in Subjects(r) :
       /\ HasRoom(Len(us))
       /\ clock' = clock + Len(us)
       /\ req' = [req EXCEPT ![r].pc = "written",
                             ![r].hits = inserts \/ assign[u] # "none",
                             ![r].inserts = inserts,
                             ![r].staged =
            {[id |-> clock + i, kind |-> KindOf(req[r].op), user |-> us[i]] :
               i \in 1 .. Len(us)}]
  /\ UNCHANGED <<up, store, event, row, woken, worker, receiver, interventions>>

Fresh(initial) == [st |-> "pending", attempts |-> 0, due |-> TRUE,
                   leased |-> FALSE, full |-> TRUE, initial |-> initial]

Store(staged, initial) ==
  LET ids == {s.id : s \in staged}
      Of(e) == CHOOSE s \in staged : s.id = e
  IN
  /\ event' = [e \in Ids |-> IF e \in ids
       THEN [kind |-> Of(e).kind, user |-> Of(e).user] ELSE event[e]]
  /\ row' = [e \in Ids |-> IF e \in ids THEN Fresh(initial) ELSE row[e]]

\* What the statements beside the outbox leave behind.
Change(r) ==
  LET op == req[r].op
      u == req[r].user
  IN
  /\ account' = CASE op = "activate" -> [account EXCEPT ![u] = "active"]
                  [] op = "deactivate" -> [account EXCEPT ![u] = "inactive"]
                  [] op = "removeUser" -> [account EXCEPT ![u] = "deleted"]
                  [] OTHER -> account
  /\ assign' = CASE op = "assign" /\ req[r].hits -> [assign EXCEPT ![u] = "active"]
                 [] op = "unassign" /\ req[r].hits -> [assign EXCEPT ![u] = "deleted"]
                 [] op = "removeUser" /\ u = Owner -> [v \in Users |-> "none"]
                 [] op = "removeUser" /\ u # Owner -> [assign EXCEPT ![u] = "none"]
                 [] op = "removeClient" ->
                      [v \in Users |-> IF v \in Assigned THEN "deleted" ELSE assign[v]]
                 [] OTHER -> assign
  /\ client' = IF op = "removeClient" \/ (op = "removeUser" /\ u = Owner)
               THEN "deleted" ELSE client

\* The DELETE statements of AdminDeleteUser wait for assignments others hold
\* and, when the user owns the client, for the client.
CanCommit(r) ==
  req[r].op = "removeUser" =>
    /\ ~RowHeld(req[r].user)
    /\ req[r].user = Owner => ~ClientLocked

Commit(r) ==
  /\ req[r].pc = "written"
  /\ CanCommit(r)
  /\ Change(r)
  /\ Store(req[r].staged, FALSE)
  /\ req' = [req EXCEPT ![r] = [pc |-> "notify"]]
  /\ UNCHANGED <<up, clock, woken, worker, receiver, interventions>>

\* Any statement may fail, a deadlock included: nothing is stored.
Abort(r) ==
  /\ Open(r)
  /\ req' = [req EXCEPT ![r] = Idle]
  /\ UNCHANGED <<up, store, outbox, woken, worker, receiver, interventions>>

Notify(r) ==
  /\ req[r].pc = "notify"
  /\ woken' = TRUE
  /\ req' = [req EXCEPT ![r] = Idle]
  /\ UNCHANGED <<up, store, outbox, worker, receiver, interventions>>

-----------------------------------------------------------------------------
(* The receiver, by the rules of docs/protocol/provisioning.md: an event   *)
(* that is not newer than what it has seen of the subject is ignored, and  *)
(* user.updated makes no member.                                           *)

Receive(e) ==
  LET u == event[e].user IN
  IF e <= last[u] THEN UNCHANGED receiver
  ELSE /\ last' = [last EXCEPT ![u] = e]
       /\ member' = IF event[e].kind = "updated" THEN member
                    ELSE [member EXCEPT ![u] = event[e].kind = "assigned"]

-----------------------------------------------------------------------------
(* The dispatcher.  A round starts on a signal or on the timer and ends    *)
(* when every worker has ended its batch.                                  *)

\* Slip: the dispatcher waits for signals only.
RoundOnSignalOnly ==
  /\ up /\ woken
  /\ \A w \in Workers : worker[w] = Off
  /\ worker' = [w \in Workers |-> [pc |-> "scan"]]
  /\ woken' = FALSE
  /\ UNCHANGED <<up, store, req, outbox, receiver, interventions>>

\* On the signal, or on the timer, which leaves a signal where it is:
\* nextWakeDelay is never more than thirty seconds.
RoundStart ==
  /\ up
  /\ \A w \in Workers : worker[w] = Off
  /\ worker' = [w \in Workers |-> [pc |-> "scan"]]
  /\ \/ woken /\ woken' = FALSE
     \/ UNCHANGED woken
  /\ UNCHANGED <<up, store, req, outbox, receiver, interventions>>

Claimable(e) ==
  /\ row[e] # None
  /\ row[e].due
  /\ \/ row[e].st = "pending"
     \/ row[e].st = "processing" /\ ~row[e].leased

\* FOR UPDATE SKIP LOCKED, oldest first.
ClaimOne(w) ==
  /\ worker[w].pc = "scan"
  /\ \E e \in Ids :
       /\ Claimable(e)
       /\ \A d \in Ids : Claimable(d) => e <= d
       /\ row' = [row EXCEPT ![e].st = "processing", ![e].leased = TRUE]
       /\ worker' = [worker EXCEPT ![w] =
            [pc |-> "send", ev |-> e, attempts |-> row[e].attempts]]
  /\ UNCHANGED <<up, store, req, clock, event, woken, receiver, interventions>>

\* Nothing is left to claim, the query fails, or the batch had its hundred
\* items: which of these is not told apart.
BatchEnds(w) ==
  /\ worker[w].pc = "scan"
  /\ worker' = [worker EXCEPT ![w] = Off]
  /\ UNCHANGED <<up, store, req, outbox, woken, receiver, interventions>>

\* The POST of deliver ends with 2xx, or with an error: no connection, another
\* status, an answer that does not get back, fifteen seconds gone.
Answer(w, pc) == worker' = [worker EXCEPT ![w].pc = pc]

Accepted(w) ==
  /\ worker[w].pc = "send"
  /\ Receive(worker[w].ev)
  /\ Answer(w, "accepted")
  /\ UNCHANGED <<up, store, req, outbox, woken, interventions>>

\* Slip: the status of the answer is not looked at.
RefusedUnnoticed(w) ==
  /\ worker[w].pc = "send"
  /\ Answer(w, "accepted")
  /\ UNCHANGED <<up, store, req, outbox, woken, receiver, interventions>>

Refused(w) ==
  /\ worker[w].pc = "send"
  /\ Answer(w, "failed")
  /\ UNCHANGED <<up, store, req, outbox, woken, receiver, interventions>>

\* A POST that ended with an error may have arrived, or be on its way still:
\* whatever was claimed once can arrive at any time.
LateArrival(e) ==
  /\ row[e] # None
  /\ row[e].st # "pending" \/ row[e].attempts > 0
  /\ Receive(e)
  /\ UNCHANGED <<up, store, req, outbox, woken, worker, interventions>>

\* deliver and fail both update WHERE id = ? AND status = 'processing'; there
\* is no owner in the condition.
Processing(e) == row[e] # None /\ row[e].st = "processing"

Finish(w) ==
  LET e == worker[w].ev IN
  /\ worker[w].pc = "accepted"
  /\ row' = IF Processing(e)
            THEN [row EXCEPT ![e].st = "delivered", ![e].leased = FALSE, ![e].full = FALSE]
            ELSE row
  /\ worker' = [worker EXCEPT ![w] = [pc |-> "scan"]]
  /\ UNCHANGED <<up, store, req, clock, event, woken, receiver, interventions>>

\* Slip: the status is left out of the condition.
StillThere(e) == row[e] # None
StillProcessing(e) == Processing(e)

\* Slip: one attempt too many.
ExhaustedLate(attempts) == attempts > MaxAttempts
Exhausted(attempts) == attempts >= MaxAttempts

\* Attempts are counted from the row as it was claimed.
Fail(w) ==
  LET e == worker[w].ev
      attempts == worker[w].attempts + 1
  IN
  /\ worker[w].pc = "failed"
  /\ row' = IF StillProcessing(e)
            THEN [row EXCEPT
                    ![e].st = IF Exhausted(attempts) THEN "dead" ELSE "pending",
                    ![e].attempts = attempts, ![e].due = FALSE, ![e].leased = FALSE]
            ELSE row
  /\ worker' = [worker EXCEPT ![w] = [pc |-> "scan"]]
  /\ UNCHANGED <<up, store, req, clock, event, woken, receiver, interventions>>

Record(w) == Finish(w) \/ Fail(w)

\* The UPDATE fails; the error is logged and the lease has to lapse.
RecordLost(w) ==
  /\ worker[w].pc \in {"accepted", "failed"}
  /\ worker' = [worker EXCEPT ![w] = [pc |-> "scan"]]
  /\ UNCHANGED <<up, store, req, outbox, woken, receiver, interventions>>

-----------------------------------------------------------------------------
(* Time, administrators, crashes and starts.                               *)

\* The lease is thirty seconds and a POST ends after fifteen: when the lease
\* lapses the worker is gone, or still waits for the database to record the
\* result.
LeaseLapses(e) ==
  /\ Processing(e) /\ row[e].leased
  /\ \A w \in Workers : worker[w].pc = "send" => worker[w].ev # e
  /\ row' = [row EXCEPT ![e].leased = FALSE]
  /\ UNCHANGED <<up, store, req, clock, event, woken, worker, receiver, interventions>>

BackoffElapses(e) ==
  /\ row[e] # None /\ ~row[e].due
  /\ row' = [row EXCEPT ![e].due = TRUE]
  /\ UNCHANGED <<up, store, req, clock, event, woken, worker, receiver, interventions>>

\* AdminRetryProvisioningEvent.
AdminRetry(e) ==
  /\ up
  /\ interventions < MaxInterventions
  /\ row[e] # None /\ row[e].st = "dead"
  /\ row' = [row EXCEPT ![e].st = "pending", ![e].attempts = 0, ![e].due = TRUE]
  /\ woken' = TRUE
  /\ interventions' = interventions + 1
  /\ UNCHANGED <<up, store, req, clock, event, worker, receiver>>

\* The daily cleanup, thirty days after the delivery.
Cleanup(e) ==
  /\ up
  /\ row[e] # None /\ row[e].st = "delivered" /\ ~row[e].initial
  /\ \A w \in Workers : worker[w] = Off
  /\ row' = [row EXCEPT ![e] = None]
  /\ UNCHANGED <<up, store, req, clock, event, woken, worker, receiver, interventions>>

Crash ==
  /\ up
  /\ interventions < MaxInterventions
  /\ up' = FALSE
  /\ req' = [r \in Requests |-> Idle]
  /\ worker' = [w \in Workers |-> Off]
  /\ woken' = FALSE
  /\ interventions' = interventions + 1
  /\ UNCHANGED <<store, outbox, receiver>>

\* ReconcileExistingAssignments, then the dispatcher.  A start finds the
\* client or ends with log.Fatal.  The inserts are one step: a crash between
\* them leaves the rest to the next start.
Start ==
  /\ ~up
  /\ client = "active"
  /\ \E us \in Orders(Assigned \ Snapshot) :
       /\ clock + Len(us) <= MaxEvents
       /\ clock' = clock + Len(us)
       /\ Store({[id |-> clock + i, kind |-> "assigned", user |-> us[i]] : i \in 1 .. Len(us)},
                TRUE)
  /\ up' = TRUE
  /\ UNCHANGED <<store, req, woken, worker, receiver, interventions>>

-----------------------------------------------------------------------------
Request(r) ==
  \/ \E u \in Users :
       \/ AssignClientUser(r, u)
       \/ DeleteClientAssignment(r, u)
       \/ \E op \in {"activate", "deactivate"} : AdminUpdateStatus(r, u, op)
       \/ UpdateProfile(r, u)
       \/ AdminDeleteUser(r, u)
  \/ DeleteClient(r)
Handle(r) == Write(r) \/ Commit(r) \/ Abort(r) \/ Notify(r)
Post(w) == Accepted(w) \/ Refused(w)
Dispatch(w) == ClaimOne(w) \/ BatchEnds(w) \/ Post(w) \/ Record(w) \/ RecordLost(w)

Next ==
  \/ \E r \in Requests : Request(r) \/ Handle(r)
  \/ RoundStart
  \/ \E w \in Workers : Dispatch(w)
  \/ \E e \in Ids :
       LateArrival(e) \/ LeaseLapses(e) \/ BackoffElapses(e) \/ AdminRetry(e) \/ Cleanup(e)
  \/ Crash
  \/ Start

Spec == Init /\ [][Next]_vars

\* The goroutines run, a POST ends within its fifteen seconds, time passes,
\* the service manager starts a process that has crashed.  The database may
\* refuse a claim or an UPDATE, but not every one.
Fairness ==
  /\ WF_vars(Start)
  /\ WF_vars(RoundStart)
  /\ SF_vars(\E w \in Workers : ClaimOne(w))
  /\ \A w \in Workers :
       /\ WF_vars(BatchEnds(w))
       /\ WF_vars(Post(w))
       /\ SF_vars(Record(w))
  /\ \A e \in Ids : WF_vars(LeaseLapses(e)) /\ WF_vars(BackoffElapses(e))

FairSpec == Spec /\ Fairness

-----------------------------------------------------------------------------
(* Properties.                                                             *)

EventsOf(u) == {e \in Ids : event[e] # None /\ event[e].user = u}
MembershipEvents(u) == {e \in EventsOf(u) : event[e].kind # "updated"}
Newest(S) == CHOOSE e \in S : \A d \in S : d <= e
Settled(e) == row[e] = None \/ row[e].st = "delivered"

\* Whoever may use the client has been announced: the newest membership event
\* of an active, assigned user is user.assigned, whatever the order in which
\* the transactions of client_assignment.go and admin.go committed.  (An
\* owner older than the target has no event before the first start.)
AdmittedIsAnnounced ==
  client = "active" =>
    \A u \in Assigned :
      account[u] = "active" /\ MembershipEvents(u) # {}
        => event[Newest(MembershipEvents(u))].kind = "assigned"

\* Once all events of a user are delivered, the membership the application
\* keeps is what the newest one says, however often and in whatever order
\* the workers, their retries, lapsed leases and crashes posted them.
NewestEventDecides ==
  \A u \in Users :
    EventsOf(u) # {} /\ (\A e \in EventsOf(u) : Settled(e)) =>
      LET n == Newest(EventsOf(u)) IN
      /\ last[u] = n
      /\ event[n].kind # "updated" => member[u] = (event[n].kind = "assigned")

\* Only a delivered row is emptied: a worker whose lease lapsed and that fails
\* after another one delivered the event does not queue it again without its
\* payload.
UndeliveredKeepsPayload ==
  \A e \in Ids : row[e] # None /\ row[e].st # "delivered" => row[e].full

\* Every stored event is delivered or ends as dead, for an administrator to
\* see, unless the process cannot start again because its client is gone.
EveryEventSettles ==
  \A e \in Ids :
    (row[e] # None /\ row[e].st \in {"pending", "processing"})
      ~> \/ Settled(e) \/ row[e].st = "dead"
         \/ ~up /\ client = "deleted"

\* Violated.  A deactivated user whose events are all delivered has no
\* membership (user.unassigned withdraws it).
DisabledUserIsNoMember ==
  \A u \in Users :
    /\ account[u] = "inactive"
    /\ \A e \in EventsOf(u) : Settled(e)
    => ~member[u]

\* Does not hold, see the README.  No assignment is lost while the application is not available:
\* an active, assigned user whose events are all delivered is a member.
AssignmentIsNotLost ==
  \A u \in Assigned :
    /\ account[u] = "active" /\ EventsOf(u) # {}
    /\ \A e \in EventsOf(u) : Settled(e)
    => member[u]
=============================================================================
