------------------------------ MODULE Dashboard ------------------------------
(* One visit of one page of the dashboard: its shell around the profile         *)
(* (Profile), one of its tables (PortalLists), the application cards            *)
(* (ClientSecrets) or the access dialog of those cards (ClientAccess).  A page  *)
(* keeps its state in useState, so that none of it is shared between visits.    *)
EXTENDS Naturals, FiniteSets, Sequences

CONSTANTS
  Clients, NoClient, MaxVersion, MaxLeaves, MaxCalls,   \* the cards
  Users, NoUser, Owner,                                 \* and their dialog
  Last, Hits, Protected, PageSize,                      \* the tables
  Names, Slots, MaxURLs, MaxBlobs                       \* the profile

ASSUME CardsAssumption == NoClient \notin Clients /\ MaxVersion \in Nat \ {0} /\ MaxLeaves \in Nat
ASSUME DialogAssumption == NoUser \notin Users /\ Owner \in Users
ASSUME TablesAssumption == Last \in Nat /\ PageSize \in Nat \ {0}
ASSUME ProfileAssumption == MaxURLs \in Nat

VARIABLES
  visit,
  row, gone, listed, secret, busy, attended, generation, dialog, load, calls,
  assigned, access, identifier, candidate, flag, note, looking, submitting,
  lookup, sent, opened,
  kind, rows, on, search, due, deps, stale, fetch, shown, count, loading, alert, ready,
  act, failed, removed,
  page, user, account, session, logout, saving, pending, deleting, crop, blobs,
  made, revoked, save, apart

Cards == INSTANCE ClientSecrets
Access == INSTANCE ClientAccess
Tables == INSTANCE PortalLists
Shell == INSTANCE Profile

cards == <<row, gone, listed, secret, busy, attended, generation, dialog, load, calls>>
dialogs ==
  <<assigned, access, identifier, candidate, flag, note, looking, submitting, lookup,
    sent, opened>>
tables ==
  <<kind, rows, on, search, due, deps, stale, fetch, shown, count, loading, alert, ready,
    act, failed, removed>>
shell ==
  <<page, user, account, session, logout, saving, pending, deleting, crop, blobs, made,
    revoked, save, apart>>
vars == <<visit, cards, dialogs, tables, shell>>

\* The variables of the pages that are not visited have no meaning.
NoCards ==
  /\ row = 0 /\ gone = 0 /\ listed = 0 /\ secret = 0 /\ busy = 0 /\ attended = 0
  /\ generation = 0 /\ dialog = 0 /\ load = 0 /\ calls = 0
NoDialog ==
  /\ assigned = 0 /\ access = 0 /\ identifier = 0 /\ candidate = 0 /\ flag = 0
  /\ note = 0 /\ looking = 0 /\ submitting = 0 /\ lookup = 0 /\ sent = 0 /\ opened = 0
NoTables ==
  /\ kind = 0 /\ rows = 0 /\ on = 0 /\ search = 0 /\ due = 0 /\ deps = 0 /\ stale = 0
  /\ fetch = 0 /\ shown = 0 /\ count = 0 /\ loading = 0 /\ alert = 0 /\ ready = 0 /\ act = 0
  /\ failed = 0 /\ removed = 0
NoShell ==
  /\ page = 0 /\ user = 0 /\ account = 0 /\ session = 0 /\ logout = 0 /\ saving = 0
  /\ pending = 0 /\ deleting = 0 /\ crop = 0 /\ blobs = 0 /\ made = 0 /\ revoked = 0
  /\ save = 0 /\ apart = 0

Init ==
  \/ visit = "cards" /\ Cards!Init /\ NoDialog /\ NoTables /\ NoShell
  \/ visit = "dialog" /\ Access!Init /\ NoCards /\ NoTables /\ NoShell
  \/ visit = "tables" /\ Tables!Init /\ NoCards /\ NoDialog /\ NoShell
  \/ visit = "shell" /\ Shell!Init /\ NoCards /\ NoDialog /\ NoTables

Next ==
  \/ visit = "cards" /\ Cards!Next /\ UNCHANGED <<visit, dialogs, tables, shell>>
  \/ visit = "dialog" /\ Access!Next /\ UNCHANGED <<visit, cards, tables, shell>>
  \/ visit = "tables" /\ Tables!Next /\ UNCHANGED <<visit, cards, dialogs, shell>>
  \/ visit = "shell" /\ Shell!Next /\ UNCHANGED <<visit, cards, dialogs, tables>>

Spec == Init /\ [][Next]_vars
-----------------------------------------------------------------------------
(* The properties of the four modules, each of the visits it is about *)

\* The state of the page visited has the types its module states.
TypeOK ==
  CASE visit = "cards" -> Cards!TypeOK
    [] visit = "dialog" -> Access!TypeOK
    [] visit = "tables" -> Tables!TypeOK
    [] visit = "shell" -> Shell!TypeOK

\* ClientSecrets: nothing is shown in a window that nobody looks at, although
\* requests for secrets are answered there too.
NothingShownUnattended == visit = "cards" => Cards!NothingShownUnattended

\* ClientSecrets: the version of a card, which a regeneration is sent with, never
\* runs ahead of the row.
CardsFollowRows == visit = "cards" => Cards!CardsFollowRows

\* ClientSecrets: a secret that was asked for before the window was left does not
\* appear after the return.
LateSecretIsDropped == [][visit = "cards" => Cards!AskedInThisVisit]_vars

\* ClientAccess: the account on offer is the one whose identifier is in the field.
CandidateWasTyped == visit = "dialog" => Access!CandidateWasTyped

\* ClientAccess: a second assignment is never sent beside one that is being saved.
OneSaveInFlight == visit = "dialog" => Access!OneSaveInFlight

\* PortalLists: a list that has settled shows the rows of the search, the filter
\* and the page it displays.
ListIsTheOneAsked == visit = "tables" => Tables!ListIsTheOneAsked

\* PortalLists: the directory is not called empty because deletions have emptied
\* its last page.
EmptyDirectoryIsTrue == visit = "tables" => Tables!EmptyDirectoryIsTrue

\* PortalLists: who lost the access by this list is not listed by it once it has
\* settled.
RemovedStaysUnlisted == visit = "tables" => Tables!RemovedStaysUnlisted

\* Profile: no handler, running late with what it captured, revokes an object URL
\* that is displayed.
ShownURLIsLive == visit = "shell" => Shell!ShownURLIsLive

\* Profile: after saves whose requests all succeeded, the name and the avatar that
\* the dashboard shows are what the database keeps.
SavedProfileIsShown == visit = "shell" => Shell!SavedProfileIsShown
=============================================================================
