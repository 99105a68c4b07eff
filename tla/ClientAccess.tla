----------------------------- MODULE ClientAccess -----------------------------
(* "Kelola akses", the access dialog of src/frontend/src/app/dashboard/        *)
(* aplikasi: an identifier is looked up after a pause in the typing, and the   *)
(* account found is given access to the application or loses it.               *)
(*                                                                             *)
(* The dialog opens at once, and again when the request that opening sends is  *)
(* answered.  The lookup belongs to an effect on the dialog's client and the   *)
(* identifier, whose cleanup aborts it; nothing aborts the other requests.     *)
(* Every client here asks for assignments: for another policy the dialog has   *)
(* no controls.                                                                *)
EXTENDS Naturals, FiniteSets

CONSTANTS
  Clients, NoClient,
  Users, NoUser,    \* accounts, each with one identifier that names it
  Owner,            \* the owner of the clients, assigned to each of them
  MaxCalls          \* bound on the requests in flight, the lookup apart

VARIABLES
  assigned,   \* oauth_client_assignments: the active pairs
  access,     \* accessClient: the client of the dialog, or NoClient
  identifier, \* assignmentIdentifier: complete, or NoUser
  candidate,  \* assignmentCandidate
  flag,       \* candidateAssigned
  note,       \* assignmentLookupMessage is shown
  looking,    \* assignmentLookupLoading
  submitting, \* assignmentSubmitting
  lookup,     \* the timer or request of the effect
  sent,       \* the other requests in flight
  opened      \* the client whose "Kelola akses" was pressed last (history)

form == <<identifier, candidate, flag, note>>
vars == <<assigned, access, form, looking, submitting, lookup, sent, opened>>

Pairs == Clients \X Users
NoLookup == [st |-> "none"]
Lookups ==
  {NoLookup}
    \cup [st : {"due", "waiting", "missing", "error"}, client : Clients, user : Users]
    \cup [st : {"found"}, client : Clients, user : Users, assigned : BOOLEAN]
Calls ==
  [op : {"open", "save", "remove"}, client : Clients, user : Users \cup {NoUser},
   meant : Clients, ans : {"waiting", "ok", "error"}]

TypeOK ==
  /\ assigned \subseteq Pairs
  /\ access \in Clients \cup {NoClient}
  /\ identifier \in Users \cup {NoUser}
  /\ candidate \in Users \cup {NoUser}
  /\ {flag, note, looking, submitting} \subseteq BOOLEAN
  /\ lookup \in Lookups
  /\ sent \subseteq Calls
  /\ opened \in Clients

Init ==
  /\ assigned = Clients \X {Owner}
  /\ access = NoClient
  /\ identifier = NoUser /\ candidate = NoUser /\ flag = FALSE /\ note = FALSE
  /\ looking = FALSE /\ submitting = FALSE
  /\ lookup = NoLookup
  /\ sent = {}
  /\ opened \in Clients
-----------------------------------------------------------------------------
(* The controls *)

DialogShown == access # NoClient

\* The effect on [accessClient, assignmentIdentifier]: what it had started is
\* dropped, and a complete identifier waits for the pause.
Lookup(c, u) ==
  IF c = NoClient \/ u = NoUser THEN NoLookup
  ELSE [st |-> "due", client |-> c, user |-> u]
\* Slip: the cleanup does not abort a lookup that was sent.
Unaborted(c, u) == IF lookup.st \in {"none", "due"} THEN Lookup(c, u) ELSE lookup
Effect(c, u) == Lookup(c, u)

Cleared(u) ==
  /\ identifier' = u /\ candidate' = NoUser /\ flag' = FALSE /\ note' = FALSE

Request(op, c, u) ==
  [op |-> op, client |-> c, user |-> u, meant |-> opened', ans |-> "waiting"]
Send(k) ==
  /\ Cardinality(sent) < MaxCalls
  /\ ~\E other \in sent : [other EXCEPT !.ans = k.ans, !.meant = k.meant] = k
  /\ sent' = sent \cup {k}

OpenAccessDialog(c) ==
  /\ ~DialogShown
  /\ access' = c
  /\ opened' = c
  /\ Cleared(NoUser)
  /\ lookup' = Effect(c, NoUser)
  /\ Send(Request("open", c, NoUser))
  /\ UNCHANGED <<assigned, looking, submitting>>

CloseDialog ==
  /\ DialogShown /\ ~submitting
  /\ access' = NoClient
  /\ Cleared(NoUser)
  /\ lookup' = Effect(NoClient, NoUser)
  /\ UNCHANGED <<assigned, looking, submitting, sent, opened>>

\* The identifier stays editable while an assignment is being saved.
UpdateAssignmentIdentifier(u) ==
  /\ DialogShown
  /\ u # identifier
  /\ Cleared(u)
  /\ looking' = FALSE
  /\ lookup' = Effect(access, u)
  /\ UNCHANGED <<assigned, access, submitting, sent, opened>>

\* "Bersihkan" leaves assignmentLookupLoading as it is.
ClearForm ==
  /\ DialogShown
  /\ Cleared(NoUser)
  /\ lookup' = Effect(access, NoUser)
  /\ UNCHANGED <<assigned, access, looking, submitting, sent, opened>>

SaveEnabled == DialogShown /\ candidate # NoUser /\ ~flag /\ ~submitting
SaveAssignment ==
  /\ SaveEnabled
  /\ submitting' = TRUE
  /\ opened' = opened
  /\ Send(Request("save", access, candidate))
  /\ UNCHANGED <<assigned, access, form, looking, lookup>>

RemoveEnabled == DialogShown /\ candidate \notin {NoUser, Owner} /\ flag
RemoveCandidateAssignment ==
  /\ RemoveEnabled
  /\ opened' = opened
  /\ Send(Request("remove", access, candidate))
  /\ UNCHANGED <<assigned, access, form, looking, submitting, lookup>>
-----------------------------------------------------------------------------
(* The lookup *)

\* 700 milliseconds without typing.
LookupStarts ==
  /\ lookup.st = "due"
  /\ lookup' = [lookup EXCEPT !.st = "waiting"]
  /\ looking' = TRUE
  /\ UNCHANGED <<assigned, access, form, submitting, sent, opened>>

\* LookupClientAssignmentUser.  An account that is not there or not usable is
\* missing; any request may fail.
ServeLookup ==
  /\ lookup.st = "waiting"
  /\ \/ lookup' = [st |-> "found", client |-> lookup.client, user |-> lookup.user,
                   assigned |-> <<lookup.client, lookup.user>> \in assigned]
     \/ \E a \in {"missing", "error"} : lookup' = [lookup EXCEPT !.st = a]
  /\ UNCHANGED <<assigned, access, form, looking, submitting, sent, opened>>

LookupFound ==
  /\ lookup.st = "found"
  /\ candidate' = lookup.user
  /\ flag' = lookup.assigned
  /\ looking' = FALSE
  /\ lookup' = NoLookup
  /\ UNCHANGED <<assigned, access, identifier, note, submitting, sent, opened>>

LookupFailed ==
  /\ lookup.st \in {"missing", "error"}
  /\ note' = (note \/ lookup.st = "missing")
  /\ looking' = FALSE
  /\ lookup' = NoLookup
  /\ UNCHANGED <<assigned, access, identifier, candidate, flag, submitting, sent, opened>>
-----------------------------------------------------------------------------
(* The backend *)

Answer(k, a) ==
  /\ sent' = (sent \ {k}) \cup {[k EXCEPT !.ans = a]}
  /\ UNCHANGED <<access, form, looking, submitting, lookup, opened>>

Refuse(k) == k.ans = "waiting" /\ Answer(k, "error") /\ UNCHANGED assigned

ServeOpen(k) ==
  /\ k.op = "open" /\ k.ans = "waiting"
  /\ Answer(k, "ok")
  /\ UNCHANGED assigned

\* AssignClientUser and DeleteClientAssignment; their answers may be lost.
ServeSave(k) ==
  /\ k.op = "save" /\ k.ans = "waiting"
  /\ assigned' = assigned \cup {<<k.client, k.user>>}
  /\ \E a \in {"ok", "error"} : Answer(k, a)

ServeRemove(k) ==
  /\ k.op = "remove" /\ k.ans = "waiting"
  /\ <<k.client, k.user>> \in assigned /\ k.user # Owner
  /\ assigned' = assigned \ {<<k.client, k.user>>}
  /\ \E a \in {"ok", "error"} : Answer(k, a)
-----------------------------------------------------------------------------
(* The continuations *)

Ended(k, op, a) == k.op = op /\ k.ans = a
Continue(k) == sent' = sent \ {k} /\ UNCHANGED <<assigned, looking, opened>>

\* setAccessClient with a new object runs the effect again.
Renewed(c) == Effect(c, identifier)

\* The dialog shows the client that was answered, whichever client it shows by
\* now, and opens if it was closed.
AccessOpened(k) ==
  /\ Ended(k, "open", "ok")
  /\ access' = k.client
  /\ lookup' = Renewed(k.client)
  /\ Continue(k)
  /\ UNCHANGED <<form, submitting>>

AccessRefused(k) ==
  /\ Ended(k, "open", "error")
  /\ access' = NoClient
  /\ lookup' = IF DialogShown THEN Renewed(NoClient) ELSE lookup
  /\ Continue(k)
  /\ UNCHANGED <<form, submitting>>

\* setCandidateAssigned speaks of whichever candidate is shown by now.
AssignmentSaved(k) ==
  /\ Ended(k, "save", "ok")
  /\ flag' = TRUE
  /\ submitting' = FALSE
  /\ lookup' = IF DialogShown THEN Renewed(access) ELSE lookup
  /\ Continue(k)
  /\ UNCHANGED <<access, identifier, candidate, note>>

AssignmentRemoved(k) ==
  /\ Ended(k, "remove", "ok")
  /\ flag' = FALSE
  /\ lookup' = IF DialogShown THEN Renewed(access) ELSE lookup
  /\ Continue(k)
  /\ UNCHANGED <<access, identifier, candidate, note, submitting>>

\* Slip: the finally is forgotten where the answer is an error.
StillSubmitting(k) == submitting
SubmittingAfter(k) == submitting /\ k.op # "save"
AssignmentRefused(k) ==
  /\ Ended(k, "save", "error") \/ Ended(k, "remove", "error")
  /\ submitting' = SubmittingAfter(k)
  /\ Continue(k)
  /\ UNCHANGED <<access, form, lookup>>
-----------------------------------------------------------------------------
Serve(k) == Refuse(k) \/ ServeOpen(k) \/ ServeSave(k) \/ ServeRemove(k)
Continuation(k) ==
  \/ AccessOpened(k) \/ AccessRefused(k)
  \/ AssignmentSaved(k) \/ AssignmentRemoved(k) \/ AssignmentRefused(k)

Next ==
  \/ \E c \in Clients : OpenAccessDialog(c)
  \/ CloseDialog \/ ClearForm
  \/ \E u \in Users \cup {NoUser} : UpdateAssignmentIdentifier(u)
  \/ SaveAssignment \/ RemoveCandidateAssignment
  \/ LookupStarts \/ ServeLookup \/ LookupFound \/ LookupFailed
  \/ \E k \in sent : Serve(k) \/ Continuation(k)

Spec == Init /\ [][Next]_vars
-----------------------------------------------------------------------------
(* Properties *)

\* The account on offer is the one whose identifier is in the field, although
\* answers to earlier identifiers are under way while it is edited.
CandidateWasTyped == candidate # NoUser => candidate = identifier

\* The button waits exactly while an assignment is being saved, whichever client
\* and candidate the dialog shows by then: a second save is never sent beside it.
OneSaveInFlight == submitting <=> \E k \in sent : k.op = "save"

\* Does not hold, see the README: access is given to the application whose "Kelola
\* akses" was pressed last, the step of register-client.md that opens the dialog and
\* then names the account.  A late answer to an earlier opening changes the client.
AccessIsForTheClientOpened ==
  [][\A p \in assigned' \ assigned :
       \E k \in sent : k.op = "save" /\ <<k.client, k.user>> = p /\ k.meant = p[1]]_vars
=============================================================================
