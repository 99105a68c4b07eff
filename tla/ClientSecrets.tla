---------------------------- MODULE ClientSecrets ----------------------------
(* The application cards of src/frontend/src/app/dashboard/aplikasi: the list, *)
(* the create and edit dialog, and above all the client secrets, which the     *)
(* page fetches on demand and must forget when the window is left.             *)
(*                                                                             *)
(* A secret is its secret_version.  The other fields of a client, the values   *)
(* of the form and their validation are left out: a form that is refused sends *)
(* nothing.  A request is sent, served and continued in three steps.           *)
EXTENDS Naturals, FiniteSets

CONSTANTS
  Clients,     \* ids of applications, those not created yet included
  NoClient,
  MaxVersion,  \* bound on secret_version
  MaxLeaves,   \* bound on how often the window is left
  MaxCalls     \* bound on the requests in flight

VARIABLES
  row,        \* oauth_clients: the version in force, 0 where there is no row
  gone,       \* ids of rows that were deleted
  listed,     \* clients: the version each card carries, 0 where there is no card
  secret,     \* clientSecrets and visibleSecrets: the version shown, or 0
  busy,       \* loadingSecretID and regeneratingSecretID
  attended,   \* the window is visible and has the focus
  generation, \* secretMemoryGeneration
  dialog,     \* the dialog: closed, or open for a new or a listed client
  load,       \* the request of the first effect and the list it answered
  calls       \* the other requests in flight

backend == <<row, gone>>
page == <<listed, secret, busy, generation, dialog>>
vars == <<backend, page, attended, load, calls>>

Versions == 0..MaxVersion
\* left: the window was left after the request was sent (history).
Calls ==
  [op : {"show", "regenerate", "delete", "detail", "create", "edit"},
   client : Clients \cup {NoClient}, gen : 0..MaxLeaves, left : BOOLEAN,
   ans : {"waiting", "ok", "error"}, ver : Versions]

TypeOK ==
  /\ row \in [Clients -> Versions]
  /\ gone \subseteq Clients
  /\ listed \in [Clients -> Versions]
  /\ secret \in [Clients -> Versions]
  /\ busy \in [{"loading", "regenerating"} -> Clients \cup {NoClient}]
  /\ attended \in BOOLEAN
  /\ generation \in 0..MaxLeaves
  /\ dialog \in [open : {"closed", "create", "edit"}, client : Clients \cup {NoClient},
                 submitting : BOOLEAN]
  /\ load \in [st : {"waiting", "served", "failed", "done"}, rows : [Clients -> Versions]]
  /\ calls \subseteq Calls

NoRows == [c \in Clients |-> 0]
Closed == [open |-> "closed", client |-> NoClient, submitting |-> FALSE]

Init ==
  /\ row \in [Clients -> 0..1]
  /\ gone = {}
  /\ listed = NoRows
  /\ secret = NoRows
  /\ busy = [b \in {"loading", "regenerating"} |-> NoClient]
  /\ attended \in BOOLEAN
  /\ generation = 0
  /\ dialog = Closed
  /\ load = [st |-> "waiting", rows |-> NoRows]
  /\ calls = {}
-----------------------------------------------------------------------------
(* The window *)

CanRetainClientSecret == attended

\* blur, or visibilitychange to hidden: clearSecrets.
LeaveWindow ==
  /\ attended /\ attended' = FALSE
  /\ generation < MaxLeaves
  /\ generation' = generation + 1
  /\ secret' = NoRows
  /\ calls' = {[k EXCEPT !.left = TRUE] : k \in calls}
  /\ UNCHANGED <<backend, listed, busy, dialog, load>>

ReturnToWindow ==
  /\ ~attended /\ attended' = TRUE
  /\ UNCHANGED <<backend, page, load, calls>>
-----------------------------------------------------------------------------
(* The controls.  A person acts in a window that is visible and focused, and   *)
(* an open dialog keeps the cards out of reach.                                *)

CardShown(c) == listed[c] # 0 /\ dialog.open = "closed" /\ CanRetainClientSecret

\* One request of a kind and a client is in flight (a bound of this model, like
\* MaxCalls, which counts the list's).
InFlight == Cardinality(calls) + (IF load.st = "done" THEN 0 ELSE 1)
Send(op, c, v) ==
  /\ InFlight < MaxCalls
  /\ ~\E k \in calls : k.op = op /\ k.client = c
  /\ calls' = calls \cup {[op |-> op, client |-> c, gen |-> generation, left |-> FALSE,
                           ans |-> "waiting", ver |-> v]}
  /\ UNCHANGED <<backend, attended, load, generation, listed>>

ToggleEnabled(c) == CardShown(c) /\ c \notin {busy["loading"], busy["regenerating"]}
RegenerateEnabled(c) == ToggleEnabled(c)

HideSecret(c) ==
  /\ ToggleEnabled(c)
  /\ secret[c] # 0
  /\ secret' = [secret EXCEPT ![c] = 0]
  /\ UNCHANGED <<backend, listed, busy, generation, dialog, attended, load, calls>>

ShowSecret(c) ==
  /\ ToggleEnabled(c)
  /\ secret[c] = 0
  /\ busy' = [busy EXCEPT !["loading"] = c]
  /\ Send("show", c, 0)
  /\ UNCHANGED <<secret, dialog>>

\* The version the card carries is the one expected.
RegenerateClientSecret(c) ==
  /\ RegenerateEnabled(c)
  /\ secret' = [secret EXCEPT ![c] = 0]
  /\ busy' = [busy EXCEPT !["regenerating"] = c]
  /\ Send("regenerate", c, listed[c])
  /\ UNCHANGED dialog

DeleteClient(c) ==
  /\ CardShown(c)
  /\ Send("delete", c, 0)
  /\ UNCHANGED <<secret, busy, dialog>>

\* "Kelola akses" reads the client again; its dialog is ClientAccess.
OpenAccessDialog(c) ==
  /\ CardShown(c)
  /\ Send("detail", c, 0)
  /\ UNCHANGED <<secret, busy, dialog>>

OpenDialog(d) ==
  /\ dialog.open = "closed" /\ CanRetainClientSecret
  /\ dialog' = d
  /\ UNCHANGED <<backend, listed, secret, busy, generation, attended, load, calls>>
OpenCreateDialog == OpenDialog([Closed EXCEPT !.open = "create"])
OpenEditDialog(c) ==
  listed[c] # 0 /\ OpenDialog([Closed EXCEPT !.open = "edit", !.client = c])

CloseDialog ==
  /\ dialog.open # "closed"
  /\ ~dialog.submitting
  /\ dialog' = Closed
  /\ UNCHANGED <<backend, listed, secret, busy, generation, attended, load, calls>>

SubmitClient ==
  /\ dialog.open # "closed" /\ ~dialog.submitting
  /\ dialog' = [dialog EXCEPT !.submitting = TRUE]
  /\ Send(dialog.open, dialog.client, 0)
  /\ UNCHANGED <<secret, busy>>
-----------------------------------------------------------------------------
(* The backend *)

Answer(k, a, v) ==
  /\ calls' = (calls \ {k}) \cup {[k EXCEPT !.ans = a, !.ver = v]}
  /\ UNCHANGED <<page, attended, load>>
Waiting(op) == {k \in calls : k.op = op /\ k.ans = "waiting"}

\* Refused, or lost before it was served.
Refuse(k) == k.ans = "waiting" /\ Answer(k, "error", 0) /\ UNCHANGED backend

ReadClient(k) ==
  /\ k \in Waiting("show") \cup Waiting("detail") \cup Waiting("edit")
  /\ row[k.client] # 0
  /\ Answer(k, "ok", row[k.client])
  /\ UNCHANGED backend

NextClientSecretVersion(c, expected) == row[c] = expected
ServeRegenerate(k) ==
  /\ k \in Waiting("regenerate")
  /\ row[k.client] \in 1..(MaxVersion - 1)
  /\ NextClientSecretVersion(k.client, k.ver)
  /\ row' = [row EXCEPT ![k.client] = @ + 1]
  /\ Answer(k, "ok", row'[k.client]) \/ Answer(k, "error", 0)
  /\ UNCHANGED gone

ServeCreate(k) ==
  /\ k \in Waiting("create")
  /\ \E c \in Clients \ gone :
       /\ row[c] = 0
       /\ row' = [row EXCEPT ![c] = 1]
       /\ \/ /\ calls' = (calls \ {k}) \cup {[k EXCEPT !.ans = "ok", !.ver = 1, !.client = c]}
             /\ UNCHANGED <<page, attended, load>>
          \/ Answer(k, "error", 0)
  /\ UNCHANGED gone

ServeDelete(k) ==
  /\ k \in Waiting("delete")
  /\ row[k.client] # 0
  /\ row' = [row EXCEPT ![k.client] = 0]
  /\ gone' = gone \cup {k.client}
  /\ Answer(k, "ok", 0) \/ Answer(k, "error", 0)

ServeList ==
  /\ load.st = "waiting"
  /\ \/ load' = [st |-> "served", rows |-> row]
     \/ load' = [load EXCEPT !.st = "failed"]
  /\ UNCHANGED <<backend, page, attended, calls>>
-----------------------------------------------------------------------------
(* The continuations *)

\* The list replaces whatever cards a creation has added before it.
ListAnswered ==
  /\ load.st \in {"served", "failed"}
  /\ load' = [st |-> "done", rows |-> NoRows]
  /\ listed' = IF load.st = "served" THEN load.rows ELSE listed
  /\ UNCHANGED <<backend, secret, busy, generation, dialog, attended, calls>>

Ended(op, a) == {k \in calls : k.op = op /\ k.ans = a}
Continue(k) == calls' = calls \ {k} /\ UNCHANGED <<backend, generation, attended, load>>

\* Slip: a secret is kept whatever happened to the window since it was asked for.
KeptAlways(k) == TRUE
\* Slip: the return to the window is enough.
KeptIfAttended(k) == CanRetainClientSecret
Kept(k) == k.gen = generation /\ CanRetainClientSecret

\* setClientSecrets and setVisibleSecrets.
Retain(k) == secret' = IF Kept(k) THEN [secret EXCEPT ![k.client] = k.ver] ELSE secret
Card(c, v) == IF listed[c] = 0 THEN listed ELSE [listed EXCEPT ![c] = v]
Freed(flag) == busy' = [busy EXCEPT ![flag] = NoClient]

SecretShown(k) ==
  /\ k \in Ended("show", "ok")
  /\ Retain(k) /\ Freed("loading") /\ Continue(k)
  /\ UNCHANGED <<listed, dialog>>

\* Slip: the page counts the versions itself.
CountedVersion(k) == listed[k.client] + 1
NewVersion(k) == k.ver
SecretRegenerated(k) ==
  /\ k \in Ended("regenerate", "ok")
  /\ listed' = Card(k.client, NewVersion(k))
  /\ Retain(k) /\ Freed("regenerating") /\ Continue(k)
  /\ UNCHANGED dialog

SecretRefused(k) ==
  /\ \/ k \in Ended("show", "error") /\ Freed("loading")
     \/ k \in Ended("regenerate", "error") /\ Freed("regenerating")
  /\ Continue(k)
  /\ UNCHANGED <<listed, secret, dialog>>

ClientDeleted(k) ==
  /\ k \in Ended("delete", "ok")
  /\ listed' = [listed EXCEPT ![k.client] = 0]
  /\ secret' = [secret EXCEPT ![k.client] = 0]
  /\ Continue(k)
  /\ UNCHANGED <<busy, dialog>>

ClientRead(k) ==
  /\ k \in Ended("detail", "ok")
  /\ listed' = Card(k.client, k.ver)
  /\ Continue(k)
  /\ UNCHANGED <<secret, busy, dialog>>

ClientEdited(k) ==
  /\ k \in Ended("edit", "ok")
  /\ listed' = Card(k.client, k.ver)
  /\ dialog' = Closed
  /\ Continue(k)
  /\ UNCHANGED <<secret, busy>>

ClientCreated(k) ==
  /\ k \in Ended("create", "ok")
  /\ listed' = [listed EXCEPT ![k.client] = k.ver]
  /\ Retain(k)
  /\ dialog' = Closed
  /\ Continue(k)
  /\ UNCHANGED busy

ClientRefused(k) ==
  /\ k \in Ended("delete", "error") \cup Ended("detail", "error")
             \cup Ended("create", "error") \cup Ended("edit", "error")
  /\ dialog' = IF k.op \in {"create", "edit"} THEN [dialog EXCEPT !.submitting = FALSE]
               ELSE dialog
  /\ Continue(k)
  /\ UNCHANGED <<listed, secret, busy>>
-----------------------------------------------------------------------------
Press(c) ==
  \/ HideSecret(c) \/ ShowSecret(c) \/ RegenerateClientSecret(c)
  \/ DeleteClient(c) \/ OpenAccessDialog(c) \/ OpenEditDialog(c)

Serve(k) ==
  \/ Refuse(k) \/ ReadClient(k) \/ ServeRegenerate(k) \/ ServeCreate(k)
  \/ ServeDelete(k)

Continuation(k) ==
  \/ SecretShown(k) \/ SecretRegenerated(k) \/ SecretRefused(k)
  \/ ClientDeleted(k) \/ ClientRead(k) \/ ClientEdited(k) \/ ClientCreated(k)
  \/ ClientRefused(k)

Next ==
  \/ LeaveWindow \/ ReturnToWindow
  \/ \E c \in Clients : Press(c)
  \/ OpenCreateDialog \/ CloseDialog \/ SubmitClient
  \/ ServeList \/ ListAnswered
  \/ \E k \in calls : Serve(k) \/ Continuation(k)

Spec == Init /\ [][Next]_vars
-----------------------------------------------------------------------------
(* Properties *)

\* Nothing is shown in a window that nobody looks at, although requests for
\* secrets are answered there too.
NothingShownUnattended == (\E c \in Clients : secret[c] # 0) => CanRetainClientSecret

\* A secret that was asked for before the window was left does not appear after
\* the return: every secret that appears answers a request of this visit.
AskedInThisVisit ==
  \A c \in Clients : secret'[c] \notin {0, secret[c]} =>
    \E k \in calls \ calls' : k.client = c /\ ~k.left
LateSecretIsDropped == [][AskedInThisVisit]_vars

\* The version of a card, which a regeneration is sent with, was once in force:
\* answers that overtake each other and regenerations whose answer was lost leave
\* it behind the row, never ahead of it, so that no regeneration is accepted for
\* a secret that nobody was told of.
CardsFollowRows ==
  \A c \in Clients : listed[c] <= row[c] \/ c \in gone

\* Does not hold, see the README: what is shown is the secret in force, once no
\* regeneration is in flight.  An answer to "show" may come after the regeneration
\* it was overtaken by.
ShownSecretIsCurrent ==
  \A c \in Clients :
    secret[c] # 0 /\ ~(\E k \in calls : k.op = "regenerate" /\ k.client = c)
      => secret[c] = row[c] \/ c \in gone
=============================================================================
