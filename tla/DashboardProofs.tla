-------------------------- MODULE DashboardProofs --------------------------
(***************************************************************************)
(* Theorems about Dashboard: every property of the pages of the portal     *)
(* holds for every list, every number of requests in flight and every      *)
(* length of a visit.                                                      *)
(*                                                                         *)
(* Each page has an inductive invariant of its own.  What makes them       *)
(* inductive is what the requests in flight and the handlers running late  *)
(* carry: the generation and the version a request was sent with           *)
(* (CallInv), the identifier a lookup was started for (LookupIsOfField),   *)
(* the search and the page of a fetch (FetchIsOfDeps), the object URLs     *)
(* that were captured (RevokedByOne), the user an answer brings            *)
(* (WireIsAccount).                                                        *)
(***************************************************************************)
EXTENDS Dashboard, FiniteSetTheorems, WellFoundedInduction, TLAPS

-----------------------------------------------------------------------------
(* The application cards.                                                  *)

\* A version that was in force once.
Follows(v, c) == v <= row[c] \/ c \in gone

\* A request: only the one that creates an application names no client; one from
\* before the window was left carries an older generation; and the version it
\* carries was in force once.
CallInv(k) ==
  /\ k.client \in Clients \/ (k.op = "create" /\ k.ans # "ok")
  /\ k.gen <= generation /\ (k.left => k.gen < generation)
  /\ k.client \in Clients => Follows(k.ver, k.client)

DialogKnown == dialog.open = "edit" => dialog.client \in Clients
LoadFollows == \A c \in Clients : Follows(load.rows[c], c)

CardsInv ==
  /\ Cards!TypeOK /\ (\A k \in calls : CallInv(k)) /\ DialogKnown /\ LoadFollows
  /\ Cards!NothingShownUnattended /\ Cards!CardsFollowRows

(* The access dialog.                                                      *)

\* An assignment is saved or removed for an account.
UserKnown == \A k \in sent : k.op # "open" => k.user \in Users

\* The effect looks up what the field holds.
LookupIsOfField == lookup # Access!NoLookup => lookup.user = identifier

SavedOnce == \A k, l \in sent : k.op = "save" /\ l.op = "save" => k = l

DialogInv ==
  /\ Access!TypeOK /\ UserKnown /\ LookupIsOfField /\ SavedOnce
  /\ Access!CandidateWasTyped /\ Access!OneSaveInFlight

(* The tables.                                                             *)

\* Unless the effect is due, a list fetches for the search, the filter and the page
\* it stands at.
FetchIsOfDeps == ~stale /\ fetch # Tables!NoFetch => fetch.asked = deps

\* The connected applications are fetched once.
SessionsFetchedOnce ==
  kind = "sesi" => /\ ~due /\ ~stale
                   /\ shown.rows # {} \/ act # Tables!Idle => fetch = Tables!NoFetch

\* The directory displays no rows only where an answer counted none.
EmptyIsCounted == kind = "pengguna" /\ shown.rows = {} => count.total = 0

\* Going back is decided on a later page than the first one.
BackFromPage == act # Tables!Idle /\ act.back => deps.page > 0

ActOfKind ==
  act # Tables!Idle =>
    /\ act.op = "revoke" <=> kind = "detail"
    /\ act.op = "disconnect" <=> kind = "sesi"

\* A page of the list within the pages there are holds a row, if there is one.
PagesAreFull ==
  fetch.st = "ok" /\ kind # "sesi" /\ fetch.rows = {} =>
    fetch.total = 0 \/ fetch.asked.page > Tables!TotalPages(fetch.total)

\* Who lost the access is in no row, and in no answer that will stay.
RemovedIsGone ==
  /\ removed \cap rows = {}
  /\ ~stale /\ fetch.st = "ok" => removed \cap fetch.rows = {}

TablesInv ==
  /\ Tables!TypeOK /\ FetchIsOfDeps /\ SessionsFetchedOnce /\ EmptyIsCounted
  /\ BackFromPage /\ ActOfKind /\ PagesAreFull /\ RemovedIsGone
  /\ Tables!ListIsTheOneAsked /\ Tables!RemovedStaysUnlisted

(* The shell and the profile.                                              *)

\* Whatever a handler captured was made before.
CapturedWasMade ==
  /\ pending <= made /\ crop <= made
  /\ \A i \in DOMAIN blobs : blobs[i].pending <= made /\ blobs[i].crop <= made
  /\ \A s \in Slots : save[s] # Shell!Idle => save[s].pending <= made

\* What a save revokes is displayed by no one else: not as the picture to crop,
\* and as the preview only where the save clears it.
RevokedByOne ==
  /\ pending # 0 => pending # crop
  /\ \A s \in Slots : save[s] # Shell!Idle /\ save[s].pending # 0 =>
       /\ save[s].pending # crop
       /\ ~save[s].here => save[s].pending # pending

\* While nothing has failed and no saves overlap, the one on the wire brings
\* what the database keeps.
WireIsAccount ==
  ~apart =>
    /\ \A s, t \in Slots : Shell!OnTheWire(s) /\ Shell!OnTheWire(t) => s = t
    /\ \A s \in Slots : Shell!OnTheWire(s) /\ save[s].ans = "ok" => save[s].user = account

ShellInv ==
  /\ Shell!TypeOK /\ CapturedWasMade /\ RevokedByOne /\ WireIsAccount
  /\ Shell!ShownURLIsLive /\ Shell!SavedProfileIsShown

(* A visit.                                                                *)

IInv ==
  /\ visit \in {"cards", "dialog", "tables", "shell"}
  /\ visit = "cards" => CardsInv
  /\ visit = "dialog" => DialogInv
  /\ visit = "tables" => TablesInv
  /\ visit = "shell" => ShellInv
-----------------------------------------------------------------------------
(* The cards, step by step.                                                *)

LEMMA InitCards == Cards!Init => CardsInv
<1> SUFFICES ASSUME Cards!Init PROVE CardsInv
  OBVIOUS
<1>1. Cards!NoRows \in [Clients -> Cards!Versions] /\ Cards!Closed.open = "closed"
  BY CardsAssumption DEF Cards!NoRows, Cards!Versions, Cards!Closed
<1>2. Cards!TypeOK
  <2>1. row \in [Clients -> Cards!Versions]
    BY CardsAssumption DEF Cards!Init, Cards!Versions
  <2>2. dialog \in [open : {"closed", "create", "edit"}, client : Clients \cup {NoClient},
                    submitting : BOOLEAN]
    BY DEF Cards!Init, Cards!Closed
  <2> QED BY <1>1, <2>1, <2>2, CardsAssumption DEF Cards!Init, Cards!TypeOK
<1>3. \A c \in Clients : listed[c] = 0 /\ secret[c] = 0 /\ load.rows[c] = 0 /\ row[c] \in Nat
  BY DEF Cards!Init, Cards!NoRows
<1> QED
  BY <1>1, <1>2, <1>3 DEF CardsInv, Cards!Init, DialogKnown, LoadFollows,
     Follows, Cards!NothingShownUnattended, Cards!CardsFollowRows

\* Rows go forward, or away for good.
Onward ==
  /\ row' \in [Clients -> Cards!Versions] /\ gone' \subseteq Clients /\ gone \subseteq gone'
  /\ \A c \in Clients : row[c] <= row'[c] \/ c \in gone'

LEMMA FollowsOnward ==
  ASSUME CardsInv, Onward, NEW c \in Clients, NEW v \in Cards!Versions, Follows(v, c)
  PROVE  Follows(v, c)'
<1>1. row[c] \in Nat /\ row'[c] \in Nat /\ v \in Nat
  BY CardsAssumption DEF CardsInv, Cards!TypeOK, Cards!Versions, Onward
<1> QED BY <1>1 DEF Follows, Onward

\* What the backend does, and the page does not see yet.
LEMMA BackendKeeps ==
  ASSUME CardsInv, Onward, UNCHANGED <<Cards!page, attended, load>>,
         calls' \subseteq Cards!Calls, \A k \in calls' : CallInv(k)'
  PROVE  CardsInv'
<1>1. \A c \in Clients : load.rows[c] \in Cards!Versions /\ listed[c] \in Cards!Versions
  BY DEF CardsInv, Cards!TypeOK
<1>2. LoadFollows'
  BY <1>1, FollowsOnward DEF CardsInv, LoadFollows
<1>3. Cards!CardsFollowRows'
  <2>1. \A c \in Clients : Follows(listed[c], c)
    BY DEF CardsInv, Cards!CardsFollowRows, Follows
  <2> QED BY <1>1, <2>1, FollowsOnward DEF Cards!page, Cards!CardsFollowRows, Follows
<1>4. Cards!TypeOK'
  BY DEF CardsInv, Cards!TypeOK, Cards!page, Onward
<1>5. DialogKnown' /\ Cards!NothingShownUnattended'
  BY DEF CardsInv, DialogKnown, Cards!page, Cards!NothingShownUnattended, Cards!CanRetainClientSecret
<1> QED BY <1>2, <1>3, <1>4, <1>5 DEF CardsInv

LEMMA QuietCall ==
  ASSUME NEW k, CallInv(k), UNCHANGED <<Cards!backend, generation>>
  PROVE  CallInv(k)'
BY DEF CallInv, Follows, Cards!backend

\* What the page does, of what was sent and answered.
LEMMA PageKeeps ==
  ASSUME CardsInv, UNCHANGED <<Cards!backend, attended, generation>>,
         calls' \subseteq Cards!Calls, \A k \in calls' : CallInv(k)',
         listed' \in [Clients -> Cards!Versions], secret' \in [Clients -> Cards!Versions],
         busy' \in [{"loading", "regenerating"} -> Clients \cup {NoClient}],
         dialog' \in [open : {"closed", "create", "edit"}, client : Clients \cup {NoClient},
                      submitting : BOOLEAN],
         load' \in [st : {"waiting", "served", "failed", "done"},
                    rows : [Clients -> Cards!Versions]],
         DialogKnown', LoadFollows', \A c \in Clients : Follows(listed'[c], c),
         ~attended => secret' = secret \/ \A c \in Clients : secret'[c] = 0
  PROVE  CardsInv'
<1>1. Cards!TypeOK'
  BY DEF CardsInv, Cards!TypeOK, Cards!backend
<1>2. Cards!CardsFollowRows'
  BY DEF Cards!CardsFollowRows, Follows, Cards!backend
<1>3. Cards!NothingShownUnattended'
  BY DEF CardsInv, Cards!NothingShownUnattended, Cards!CanRetainClientSecret
<1> QED BY <1>1, <1>2, <1>3 DEF CardsInv

-----------------------------------------------------------------------------
(* The controls of the cards.                                              *)

\* A request that is sent.
LEMMA SendKeeps ==
  ASSUME CardsInv, NEW op \in {"show", "regenerate", "delete", "detail", "create", "edit"},
         NEW c \in Clients \cup {NoClient}, NEW v \in Cards!Versions,
         c \in Clients => Follows(v, c), c \in Clients \/ op = "create",
         Cards!Send(op, c, v)
  PROVE  /\ calls' \subseteq Cards!Calls /\ \A k \in calls' : CallInv(k)'
         /\ UNCHANGED <<Cards!backend, attended, generation, load, listed>>
<1>1. PICK new : /\ new = [op |-> op, client |-> c, gen |-> generation, left |-> FALSE,
                          ans |-> "waiting", ver |-> v]
                 /\ calls' = calls \cup {new}
  BY DEF Cards!Send
<1>2. UNCHANGED <<Cards!backend, attended, generation, load, listed>>
  BY DEF Cards!Send
<1>3. generation \in 0..MaxLeaves /\ generation <= generation
  BY CardsAssumption DEF CardsInv, Cards!TypeOK
<1>4. new \in Cards!Calls /\ CallInv(new)
  BY <1>1, <1>3 DEF Cards!Calls, CallInv
<1>5. \A k \in calls \cup {new} : CallInv(k)'
  BY <1>2, <1>4, QuietCall DEF CardsInv
<1>6. calls \cup {new} \subseteq Cards!Calls
  BY <1>4 DEF CardsInv, Cards!TypeOK
<1> QED BY <1>1, <1>2, <1>5, <1>6

\* What stays as it is: the types and facts of the page's own variables.
LEMMA PageAsIs ==
  ASSUME CardsInv
  PROVE  /\ listed \in [Clients -> Cards!Versions] /\ secret \in [Clients -> Cards!Versions]
         /\ busy \in [{"loading", "regenerating"} -> Clients \cup {NoClient}]
         /\ dialog \in [open : {"closed", "create", "edit"}, client : Clients \cup {NoClient},
                        submitting : BOOLEAN]
         /\ load \in [st : {"waiting", "served", "failed", "done"},
                      rows : [Clients -> Cards!Versions]]
         /\ calls \subseteq Cards!Calls
         /\ DialogKnown /\ LoadFollows /\ 0 \in Cards!Versions
         /\ \A c \in Clients : Follows(0, c) /\ Follows(listed[c], c)
<1>1. \A c \in Clients : row[c] \in Nat
  BY CardsAssumption DEF CardsInv, Cards!TypeOK, Cards!Versions
<1>2. \A c \in Clients : Follows(0, c) /\ Follows(listed[c], c)
  BY <1>1 DEF CardsInv, Cards!CardsFollowRows, Follows
<1>3. 0 \in Cards!Versions
  BY CardsAssumption DEF Cards!Versions
<1> QED BY <1>2, <1>3 DEF CardsInv, Cards!TypeOK

\* A control that sends a request.
LEMMA SentKeeps ==
  ASSUME CardsInv, NEW op \in {"show", "regenerate", "delete", "detail", "create", "edit"},
         NEW c \in Clients \cup {NoClient}, NEW v \in Cards!Versions,
         c \in Clients => Follows(v, c), c \in Clients \/ op = "create",
         Cards!Send(op, c, v),
         secret' \in [Clients -> Cards!Versions], attended \/ secret' = secret,
         busy' \in [{"loading", "regenerating"} -> Clients \cup {NoClient}],
         dialog' = dialog \/ dialog' = [dialog EXCEPT !.submitting = TRUE]
  PROVE  CardsInv'
<1>1. /\ calls' \subseteq Cards!Calls /\ \A k \in calls' : CallInv(k)'
      /\ UNCHANGED <<Cards!backend, attended, generation, load, listed>>
  BY SendKeeps
<1>2. /\ dialog' \in [open : {"closed", "create", "edit"}, client : Clients \cup {NoClient},
                      submitting : BOOLEAN]
      /\ dialog'.open = dialog.open /\ dialog'.client = dialog.client
  BY PageAsIs
<1>3. DialogKnown' /\ LoadFollows'
  BY <1>1, <1>2, PageAsIs DEF DialogKnown, LoadFollows, Follows, Cards!backend
<1>4. /\ listed' \in [Clients -> Cards!Versions]
      /\ load' \in [st : {"waiting", "served", "failed", "done"},
                    rows : [Clients -> Cards!Versions]]
      /\ \A d \in Clients : Follows(listed'[d], d)
  BY <1>1, PageAsIs
<1> QED BY <1>1, <1>2, <1>3, <1>4, PageKeeps

\* A control that sends none.
LEMMA UnsentKeeps ==
  ASSUME CardsInv, attended \/ secret' = secret,
         UNCHANGED <<Cards!backend, listed, busy, generation, attended, load, calls>>,
         secret' \in [Clients -> Cards!Versions],
         dialog' \in [open : {"closed", "create", "edit"}, client : Clients \cup {NoClient},
                      submitting : BOOLEAN],
         DialogKnown'
  PROVE  CardsInv'
<1>1. LoadFollows'
  BY PageAsIs DEF LoadFollows, Follows, Cards!backend
<1>2. \A k \in calls' : CallInv(k)'
  BY QuietCall DEF CardsInv
<1>3. /\ listed' \in [Clients -> Cards!Versions]
      /\ busy' \in [{"loading", "regenerating"} -> Clients \cup {NoClient}]
      /\ load' \in [st : {"waiting", "served", "failed", "done"},
                    rows : [Clients -> Cards!Versions]]
      /\ \A d \in Clients : Follows(listed'[d], d)
      /\ calls' \subseteq Cards!Calls
  BY PageAsIs
<1> QED BY <1>1, <1>2, <1>3, PageKeeps

\* The controls of a card.
LEMMA PressKeeps ==
  ASSUME CardsInv, NEW c \in Clients, Cards!Press(c)
  PROVE  CardsInv'
<1>1. /\ c \in Clients \cup {NoClient} /\ 0 \in Cards!Versions /\ listed[c] \in Cards!Versions
      /\ Follows(0, c) /\ Follows(listed[c], c)
      /\ [secret EXCEPT ![c] = 0] \in [Clients -> Cards!Versions]
      /\ \A b \in {"loading", "regenerating"} :
           [busy EXCEPT ![b] = c] \in [{"loading", "regenerating"} -> Clients \cup {NoClient}]
  BY PageAsIs
<1>2. CASE Cards!HideSecret(c)
  <2>1. DialogKnown'
    BY <1>2, PageAsIs DEF Cards!HideSecret, DialogKnown
  <2> QED BY <1>1, <1>2, <2>1, PageAsIs, UnsentKeeps
  DEF Cards!HideSecret, Cards!ToggleEnabled, Cards!CardShown, Cards!CanRetainClientSecret
<1>3. CASE Cards!ShowSecret(c)
  BY <1>1, <1>3, PageAsIs, SentKeeps DEF Cards!ShowSecret
<1>4. CASE Cards!RegenerateClientSecret(c)
  BY <1>1, <1>4, PageAsIs, SentKeeps
  DEF Cards!RegenerateClientSecret, Cards!RegenerateEnabled, Cards!ToggleEnabled,
      Cards!CardShown, Cards!CanRetainClientSecret
<1>5. CASE Cards!DeleteClient(c)
  BY <1>1, <1>5, PageAsIs, SentKeeps DEF Cards!DeleteClient
<1>6. CASE Cards!OpenAccessDialog(c)
  BY <1>1, <1>6, PageAsIs, SentKeeps DEF Cards!OpenAccessDialog
<1>7. CASE Cards!OpenEditDialog(c)
  <2>1. /\ dialog' = [Cards!Closed EXCEPT !.open = "edit", !.client = c]
        /\ UNCHANGED <<Cards!backend, listed, secret, busy, generation, attended, load, calls>>
    BY <1>7 DEF Cards!OpenEditDialog, Cards!OpenDialog
  <2>2. dialog' = [open |-> "edit", client |-> c, submitting |-> FALSE]
    BY <2>1 DEF Cards!Closed
  <2>3. DialogKnown' /\ dialog' \in [open : {"closed", "create", "edit"},
                                     client : Clients \cup {NoClient}, submitting : BOOLEAN]
    BY <2>2 DEF DialogKnown
  <2> QED BY <2>1, <2>3, PageAsIs, UnsentKeeps
<1> QED BY <1>2, <1>3, <1>4, <1>5, <1>6, <1>7 DEF Cards!Press

\* The dialog of the cards.
LEMMA DialogKeeps ==
  ASSUME CardsInv, Cards!OpenCreateDialog \/ Cards!CloseDialog \/ Cards!SubmitClient
  PROVE  CardsInv'
<1>1. ASSUME UNCHANGED <<Cards!backend, listed, secret, busy, generation, attended, load, calls>>,
             NEW o \in {"closed", "create"},
             dialog' = [open |-> o, client |-> NoClient, submitting |-> FALSE]
      PROVE  CardsInv'
  <2>1. DialogKnown' /\ dialog' \in [open : {"closed", "create", "edit"},
                                     client : Clients \cup {NoClient}, submitting : BOOLEAN]
    BY <1>1 DEF DialogKnown
  <2> QED BY <1>1, <2>1, PageAsIs, UnsentKeeps
<1>2. CASE Cards!OpenCreateDialog
  BY <1>1, <1>2 DEF Cards!OpenCreateDialog, Cards!OpenDialog, Cards!Closed
<1>3. CASE Cards!CloseDialog
  BY <1>1, <1>3 DEF Cards!CloseDialog, Cards!Closed
<1>4. CASE Cards!SubmitClient
  <2>1. /\ dialog.open \in {"create", "edit"} /\ dialog.client \in Clients \cup {NoClient}
        /\ 0 \in Cards!Versions
        /\ dialog.client \in Clients => Follows(0, dialog.client)
        /\ dialog.client \in Clients \/ dialog.open = "create"
    BY <1>4, PageAsIs DEF Cards!SubmitClient, DialogKnown
  <2>2. /\ Cards!Send(dialog.open, dialog.client, 0)
        /\ UNCHANGED <<secret, busy>> /\ dialog' = [dialog EXCEPT !.submitting = TRUE]
    BY <1>4 DEF Cards!SubmitClient
  <2> QED BY <2>1, <2>2, PageAsIs, SentKeeps
<1> QED BY <1>2, <1>3, <1>4
-----------------------------------------------------------------------------
(* The window, the backend and the continuations of the cards.             *)

LEMMA LeaveWindowKeeps == ASSUME CardsInv, Cards!LeaveWindow PROVE CardsInv'
<1>1. /\ attended' = FALSE /\ generation' = generation + 1 /\ generation' \in 0..MaxLeaves
      /\ calls' = {[k EXCEPT !.left = TRUE] : k \in calls}
      /\ UNCHANGED <<Cards!backend, listed, busy, dialog, load>>
  BY CardsAssumption DEF CardsInv, Cards!TypeOK, Cards!LeaveWindow
<1>2. secret' \in [Clients -> Cards!Versions] /\ \A c \in Clients : secret'[c] = 0
  BY PageAsIs DEF Cards!LeaveWindow, Cards!NoRows
<1>3. ASSUME NEW k \in calls, NEW l, l = [k EXCEPT !.left = TRUE]
      PROVE  l \in Cards!Calls /\ CallInv(l)'
  <2>1. k \in Cards!Calls /\ CallInv(k) /\ generation \in Nat /\ k.gen \in Nat
    BY CardsAssumption DEF CardsInv, Cards!TypeOK, Cards!Calls
  <2>2. /\ l \in Cards!Calls /\ l.client = k.client /\ l.op = k.op /\ l.ans = k.ans
        /\ l.gen = k.gen /\ l.ver = k.ver
    BY <1>3, <2>1 DEF Cards!Calls
  <2>3. Follows(l.ver, l.client)' <=> Follows(k.ver, k.client)
    BY <1>1, <2>2 DEF Follows, Cards!backend
  <2>4. l.gen < generation'
    BY <1>1, <2>1, <2>2 DEF CallInv
  <2>5. l.gen <= generation'
    BY <1>1, <2>1, <2>2 DEF CallInv
  <2> QED BY <2>1, <2>2, <2>3, <2>4, <2>5 DEF CallInv
<1>4. calls' \subseteq Cards!Calls /\ \A l \in calls' : CallInv(l)'
  BY <1>1, <1>3
<1>5. Cards!TypeOK'
  BY <1>1, <1>2, <1>4 DEF CardsInv, Cards!TypeOK, Cards!backend
<1>6. DialogKnown' /\ LoadFollows' /\ Cards!CardsFollowRows'
  BY <1>1 DEF CardsInv, DialogKnown, LoadFollows, Follows, Cards!CardsFollowRows, Cards!backend
<1>7. Cards!NothingShownUnattended'
  BY <1>2 DEF Cards!NothingShownUnattended
<1> QED BY <1>4, <1>5, <1>6, <1>7 DEF CardsInv

LEMMA ReturnKeeps == ASSUME CardsInv, Cards!ReturnToWindow PROVE CardsInv'
<1>1. UNCHANGED <<Cards!backend, Cards!page, load, calls>> /\ attended' = TRUE
  BY DEF Cards!ReturnToWindow
<1>2. \A k \in calls' : CallInv(k)'
  BY <1>1, QuietCall DEF CardsInv, Cards!page
<1>3. Cards!TypeOK' /\ DialogKnown' /\ LoadFollows' /\ Cards!CardsFollowRows'
  BY <1>1 DEF CardsInv, Cards!TypeOK, DialogKnown, LoadFollows, Follows,
     Cards!CardsFollowRows, Cards!backend, Cards!page
<1>4. Cards!NothingShownUnattended'
  BY <1>1 DEF Cards!NothingShownUnattended, Cards!CanRetainClientSecret
<1> QED BY <1>2, <1>3, <1>4 DEF CardsInv

\* A request that was answered is one of the requests still.
LEMMA AnswerKeeps ==
  ASSUME CardsInv, Onward, NEW k \in calls, NEW a \in {"ok", "error"},
         NEW v \in Cards!Versions,
         NEW c \in Clients \cup {NoClient}, c \in Clients \/ (k.op = "create" /\ a = "error"),
         c \in Clients => Follows(v, c)',
         calls' = (calls \ {k}) \cup {[k EXCEPT !.ans = a, !.ver = v, !.client = c]},
         UNCHANGED <<Cards!page, attended, load>>
  PROVE  CardsInv'
<1>1. PICK l : /\ l = [k EXCEPT !.ans = a, !.ver = v, !.client = c]
               /\ calls' = (calls \ {k}) \cup {l}
  OBVIOUS
<1>2. k \in Cards!Calls /\ CallInv(k)
  BY DEF CardsInv, Cards!TypeOK
<1>3. /\ l \in Cards!Calls /\ l.ans = a /\ l.ver = v /\ l.op = k.op /\ l.client = c
      /\ l.gen = k.gen /\ l.left = k.left
  BY <1>1, <1>2 DEF Cards!Calls
<1>4. generation' = generation
  BY DEF Cards!page
<1>5. CallInv(l)'
  BY <1>2, <1>3, <1>4 DEF CallInv
<1>6. ASSUME NEW m \in calls PROVE CallInv(m)'
  <2>1. CallInv(m) /\ m.ver \in Cards!Versions
    BY DEF CardsInv, Cards!TypeOK, Cards!Calls
  <2>2. m.client \in Clients => Follows(m.ver, m.client)'
    BY <2>1, FollowsOnward DEF CallInv
  <2> QED BY <1>4, <2>1, <2>2 DEF CallInv
<1>7. calls' \subseteq Cards!Calls /\ \A m \in calls' : CallInv(m)'
  BY <1>1, <1>3, <1>5, <1>6, PageAsIs
<1> QED BY <1>7, BackendKeeps

LEMMA AnswerForm ==
  ASSUME CardsInv, NEW k \in calls, NEW a, NEW v, Cards!Answer(k, a, v)
  PROVE  /\ calls' = (calls \ {k}) \cup {[k EXCEPT !.ans = a, !.ver = v, !.client = k.client]}
         /\ UNCHANGED <<Cards!page, attended, load>>
<1>1. [k EXCEPT !.ans = a, !.ver = v] = [k EXCEPT !.ans = a, !.ver = v, !.client = k.client]
  BY PageAsIs DEF Cards!Calls
<1> QED BY <1>1 DEF Cards!Answer

\* The backend serves a request, or refuses it.
LEMMA ServeKeeps ==
  ASSUME CardsInv, NEW k \in calls, Cards!Serve(k)
  PROVE  CardsInv'
<1>1. /\ k \in Cards!Calls /\ CallInv(k) /\ k.client \in Clients \cup {NoClient}
      /\ row \in [Clients -> Cards!Versions] /\ gone \subseteq Clients /\ 0 \in Cards!Versions
      /\ k.ans = "waiting" => k.client \in Clients \/ k.op = "create"
      /\ \A c \in Clients : row[c] \in Nat /\ row[c] <= row[c] /\ Follows(row[c], c)
  BY CardsAssumption DEF CardsInv, Cards!TypeOK, Cards!Calls, Cards!Versions, CallInv, Follows
<1>2. UNCHANGED Cards!backend => Onward
  BY <1>1 DEF Onward, Cards!backend
<1>3. ASSUME Onward PROVE \A c \in Clients : Follows(0, c)'
  BY <1>1, <1>3, FollowsOnward, PageAsIs
<1>4. CASE Cards!Refuse(k)
  <2>1. Onward /\ Cards!Answer(k, "error", 0) /\ k.ans = "waiting"
    BY <1>2, <1>4 DEF Cards!Refuse
  <2> QED BY <1>1, <1>3, <2>1, AnswerForm, AnswerKeeps
<1>5. CASE Cards!ReadClient(k)
  <2>1. /\ Onward /\ Cards!Answer(k, "ok", row[k.client]) /\ UNCHANGED Cards!backend
        /\ k.client \in Clients
    BY <1>1, <1>2, <1>5 DEF Cards!ReadClient, Cards!Waiting
  <2>2. PICK v \in Cards!Versions : v = row[k.client]
    BY <1>1, <2>1
  <2>3. Follows(v, k.client)'
    BY <1>1, <2>1, <2>2 DEF Follows, Cards!backend
  <2> QED BY <1>1, <2>1, <2>2, <2>3, AnswerForm, AnswerKeeps
<1>6. CASE Cards!ServeRegenerate(k)
  <2>1. /\ k.client \in Clients /\ row[k.client] \in 1..(MaxVersion - 1) /\ gone' = gone
        /\ row' = [row EXCEPT ![k.client] = row[k.client] + 1]
        /\ Cards!Answer(k, "ok", row'[k.client]) \/ Cards!Answer(k, "error", 0)
    BY <1>1, <1>6 DEF Cards!ServeRegenerate, Cards!Waiting
  <2>2. row[k.client] + 1 \in Cards!Versions /\ row[k.client] <= row[k.client] + 1
    BY <2>1, CardsAssumption DEF Cards!Versions
  <2>3. Onward
    BY <1>1, <2>1, <2>2 DEF Onward
  <2>4. PICK v \in Cards!Versions : v = row'[k.client]
    BY <2>1, <2>3 DEF Onward
  <2>5. v <= v /\ Follows(v, k.client)'
    BY <2>4, CardsAssumption DEF Follows, Cards!Versions
  <2> QED BY <1>1, <1>3, <2>1, <2>3, <2>4, <2>5, AnswerForm, AnswerKeeps
<1>7. CASE Cards!ServeCreate(k)
  <2>1. PICK c \in Clients \ gone :
          /\ k.op = "create" /\ k.ans = "waiting" /\ row[c] = 0 /\ gone' = gone
          /\ row' = [row EXCEPT ![c] = 1]
          /\ \/ /\ calls' = (calls \ {k}) \cup
                             {[k EXCEPT !.ans = "ok", !.ver = 1, !.client = c]}
                /\ UNCHANGED <<Cards!page, attended, load>>
             \/ Cards!Answer(k, "error", 0)
    BY <1>7 DEF Cards!ServeCreate, Cards!Waiting
  <2>2. 1 \in Cards!Versions
    BY CardsAssumption DEF Cards!Versions
  <2>3. Onward
    BY <1>1, <2>1, <2>2 DEF Onward
  <2>4. Follows(1, c)'
    BY <1>1, <2>1 DEF Follows
  <2>5. CASE Cards!Answer(k, "error", 0)
    BY <1>1, <1>3, <2>1, <2>3, <2>5, AnswerForm, AnswerKeeps
  <2> QED BY <1>1, <2>1, <2>2, <2>3, <2>4, <2>5, AnswerKeeps
<1>8. CASE Cards!ServeDelete(k)
  <2>1. /\ k.client \in Clients /\ row' = [row EXCEPT ![k.client] = 0]
        /\ gone' = gone \cup {k.client}
        /\ Cards!Answer(k, "ok", 0) \/ Cards!Answer(k, "error", 0)
    BY <1>1, <1>8 DEF Cards!ServeDelete, Cards!Waiting
  <2>2. Onward
    BY <1>1, <2>1 DEF Onward
  <2> QED BY <1>1, <1>3, <2>1, <2>2, AnswerForm, AnswerKeeps
<1> QED BY <1>4, <1>5, <1>6, <1>7, <1>8 DEF Cards!Serve

\* The list is served, and answered.
LEMMA ListKeeps ==
  ASSUME CardsInv, Cards!ServeList \/ Cards!ListAnswered
  PROVE  CardsInv'
<1>1. \A k \in calls : CallInv(k)
  BY DEF CardsInv
<1>2. \A c \in Clients : Follows(row[c], c) /\ Follows(load.rows[c], c)
  BY CardsAssumption DEF CardsInv, Cards!TypeOK, Cards!Versions, Follows, LoadFollows
<1>3. CASE Cards!ServeList
  <2>1. /\ UNCHANGED <<Cards!backend, Cards!page, attended, calls>>
        /\ \/ load' = [st |-> "served", rows |-> row]
           \/ load' = [load EXCEPT !.st = "failed"]
    BY <1>3 DEF Cards!ServeList
  <2>2. load' \in [st : {"waiting", "served", "failed", "done"},
                   rows : [Clients -> Cards!Versions]]
    BY <2>1, PageAsIs DEF CardsInv, Cards!TypeOK
  <2>3. load'.rows = row \/ load'.rows = load.rows
    BY <2>1, PageAsIs
  <2>4. LoadFollows'
    BY <1>2, <2>1, <2>3 DEF LoadFollows, Follows, Cards!backend
  <2>5. /\ UNCHANGED <<listed, secret, busy, generation, dialog>>
        /\ DialogKnown' /\ \A k \in calls' : CallInv(k)'
    BY <1>1, <2>1, PageAsIs, QuietCall DEF Cards!page, DialogKnown
  <2> QED BY <2>1, <2>2, <2>4, <2>5, PageAsIs, PageKeeps
<1>4. CASE Cards!ListAnswered
  <2>1. /\ UNCHANGED <<Cards!backend, secret, busy, generation, dialog, attended, calls>>
        /\ load' = [st |-> "done", rows |-> Cards!NoRows]
        /\ listed' = load.rows \/ listed' = listed
    BY <1>4 DEF Cards!ListAnswered
  <2>2. /\ load' \in [st : {"waiting", "served", "failed", "done"},
                      rows : [Clients -> Cards!Versions]]
        /\ \A c \in Clients : load'.rows[c] = 0
    BY <2>1, PageAsIs DEF Cards!NoRows
  <2>3. LoadFollows'
    BY <2>1, <2>2, PageAsIs DEF LoadFollows, Follows, Cards!backend
  <2>4. listed' \in [Clients -> Cards!Versions] /\ \A c \in Clients : Follows(listed'[c], c)
    BY <1>2, <2>1, PageAsIs
  <2>5. DialogKnown' /\ \A k \in calls' : CallInv(k)'
    BY <1>1, <2>1, PageAsIs, QuietCall DEF DialogKnown
  <2> QED BY <2>1, <2>2, <2>3, <2>4, <2>5, PageAsIs, PageKeeps
<1> QED BY <1>3, <1>4

\* What every continuation does.
LEMMA ContinueKeeps ==
  ASSUME CardsInv, NEW k \in calls, Cards!Continue(k),
         listed' \in [Clients -> Cards!Versions], \A c \in Clients : Follows(listed'[c], c),
         secret' \in [Clients -> Cards!Versions],
         attended \/ (\A c \in Clients : secret'[c] = 0) \/ secret' = secret,
         busy' \in [{"loading", "regenerating"} -> Clients \cup {NoClient}],
         dialog' \in {dialog, Cards!Closed, [dialog EXCEPT !.submitting = FALSE]}
  PROVE  CardsInv'
<1>1. calls' = calls \ {k} /\ UNCHANGED <<Cards!backend, generation, attended, load>>
  BY DEF Cards!Continue
<1>2. calls' \subseteq Cards!Calls /\ \A l \in calls' : CallInv(l)'
  BY <1>1, PageAsIs, QuietCall DEF CardsInv
<1>3. /\ dialog' \in [open : {"closed", "create", "edit"}, client : Clients \cup {NoClient},
                      submitting : BOOLEAN]
      /\ DialogKnown'
  <2>1. CASE dialog' = dialog
    BY <2>1, PageAsIs DEF DialogKnown
  <2>2. CASE dialog' = [open |-> "closed", client |-> NoClient, submitting |-> FALSE]
    BY <2>2 DEF DialogKnown
  <2>3. CASE dialog' = [dialog EXCEPT !.submitting = FALSE]
    BY <2>3, PageAsIs DEF DialogKnown
  <2> QED BY <2>1, <2>2, <2>3 DEF Cards!Closed
<1>4. LoadFollows'
  BY <1>1, PageAsIs DEF LoadFollows, Follows, Cards!backend
<1> QED BY <1>1, <1>2, <1>3, <1>4, PageAsIs, PageKeeps

\* A secret that is kept is kept where somebody looks.
LEMMA RetainKeeps ==
  ASSUME CardsInv, NEW k \in calls, k.client \in Clients, Cards!Retain(k)
  PROVE  /\ secret' \in [Clients -> Cards!Versions]
         /\ attended \/ secret' = secret
<1>1. k.ver \in Cards!Versions
  BY PageAsIs DEF Cards!Calls
<1> QED BY <1>1, PageAsIs DEF Cards!Retain, Cards!Kept, Cards!CanRetainClientSecret

\* A card takes over a version under way.
LEMMA CardKeeps ==
  ASSUME CardsInv, NEW k \in calls, k.client \in Clients,
         listed' \in {Cards!Card(k.client, k.ver), [listed EXCEPT ![k.client] = k.ver],
                      [listed EXCEPT ![k.client] = 0]}
  PROVE  listed' \in [Clients -> Cards!Versions] /\ \A c \in Clients : Follows(listed'[c], c)
<1>1. k.ver \in Cards!Versions /\ Follows(k.ver, k.client)
  BY PageAsIs DEF Cards!Calls, CardsInv, CallInv
<1>2. CASE listed' = [listed EXCEPT ![k.client] = k.ver]
  BY <1>1, <1>2, PageAsIs
<1>3. CASE listed' = [listed EXCEPT ![k.client] = 0]
  BY <1>3, PageAsIs
<1>4. CASE listed' = listed
  BY <1>4, PageAsIs
<1> QED BY <1>2, <1>3, <1>4 DEF Cards!Card

LEMMA ContinuationKeeps ==
  ASSUME CardsInv, NEW k \in calls, Cards!Continuation(k)
  PROVE  CardsInv'
<1>1. /\ k \in Cards!Calls /\ CallInv(k)
      /\ k.ans = "ok" => k.client \in Clients
      /\ listed \in [Clients -> Cards!Versions] /\ \A c \in Clients : Follows(listed[c], c)
      /\ secret \in [Clients -> Cards!Versions]
      /\ busy \in [{"loading", "regenerating"} -> Clients \cup {NoClient}]
      /\ dialog \in {dialog, Cards!Closed, [dialog EXCEPT !.submitting = FALSE]}
  BY PageAsIs DEF CardsInv, CallInv
<1>2. ASSUME NEW b \in {"loading", "regenerating"}, Cards!Freed(b)
      PROVE  busy' \in [{"loading", "regenerating"} -> Clients \cup {NoClient}]
  BY <1>1, <1>2 DEF Cards!Freed
<1>3. CASE Cards!SecretShown(k)
  BY <1>1, <1>2, <1>3, RetainKeeps, ContinueKeeps DEF Cards!SecretShown, Cards!Ended
<1>4. CASE Cards!SecretRegenerated(k)
  BY <1>1, <1>2, <1>4, RetainKeeps, CardKeeps, ContinueKeeps
  DEF Cards!SecretRegenerated, Cards!Ended, Cards!NewVersion
<1>5. CASE Cards!SecretRefused(k)
  BY <1>1, <1>2, <1>5, ContinueKeeps DEF Cards!SecretRefused
<1>6. CASE Cards!ClientDeleted(k)
  <2>1. /\ k.client \in Clients /\ secret' = [secret EXCEPT ![k.client] = 0]
        /\ listed' = [listed EXCEPT ![k.client] = 0] /\ Cards!Continue(k)
        /\ UNCHANGED <<busy, dialog>>
    BY <1>1, <1>6 DEF Cards!ClientDeleted, Cards!Ended
  <2>2. secret' \in [Clients -> Cards!Versions]
    BY <1>1, <2>1, PageAsIs
  <2>3. attended \/ \A c \in Clients : secret'[c] = 0
    BY <1>1, <2>1 DEF CardsInv, Cards!NothingShownUnattended, Cards!CanRetainClientSecret
  <2> QED BY <1>1, <2>1, <2>2, <2>3, CardKeeps, ContinueKeeps
<1>7. CASE Cards!ClientRead(k)
  BY <1>1, <1>7, CardKeeps, ContinueKeeps DEF Cards!ClientRead, Cards!Ended
<1>8. CASE Cards!ClientEdited(k)
  BY <1>1, <1>8, CardKeeps, ContinueKeeps DEF Cards!ClientEdited, Cards!Ended
<1>9. CASE Cards!ClientCreated(k)
  BY <1>1, <1>9, RetainKeeps, CardKeeps, ContinueKeeps DEF Cards!ClientCreated, Cards!Ended
<1>10. CASE Cards!ClientRefused(k)
  BY <1>1, <1>10, ContinueKeeps DEF Cards!ClientRefused
<1> QED BY <1>3, <1>4, <1>5, <1>6, <1>7, <1>8, <1>9, <1>10 DEF Cards!Continuation

LEMMA CardsStep == CardsInv /\ Cards!Next => CardsInv'
BY LeaveWindowKeeps, ReturnKeeps, PressKeeps, DialogKeeps, ListKeeps, ServeKeeps,
   ContinuationKeeps DEF Cards!Next

\* Every secret that appears was asked for in this visit of the window.
LEMMA SecretWasAsked ==
  ASSUME CardsInv, Cards!Next
  PROVE  Cards!AskedInThisVisit
<1> SUFFICES ASSUME NEW c \in Clients, secret'[c] # 0, secret'[c] # secret[c]
             PROVE  \E k \in calls \ calls' : k.client = c /\ ~k.left
  BY DEF Cards!AskedInThisVisit
<1>1. secret \in [Clients -> Cards!Versions]
  BY PageAsIs
<1>2. ASSUME NEW k \in calls, Cards!Retain(k), Cards!Continue(k)
      PROVE  k \in calls \ calls' /\ k.client = c /\ ~k.left
  <2>1. Cards!Kept(k) /\ secret' = [secret EXCEPT ![k.client] = k.ver]
    BY <1>2 DEF Cards!Retain
  <2>2. k.client = c
    BY <1>1, <2>1
  <2>3. k.gen = generation /\ k.gen \in Nat /\ (k.left => k.gen < generation)
    BY <2>1, PageAsIs, CardsAssumption DEF Cards!Kept, CardsInv, CallInv, Cards!Calls
  <2> QED BY <1>2, <2>2, <2>3 DEF Cards!Continue
<1>3. ASSUME NEW k \in calls, Cards!Continuation(k)
      PROVE  Cards!Retain(k) /\ Cards!Continue(k)
  BY <1>1, <1>3
  DEF Cards!Continuation, Cards!SecretShown, Cards!SecretRegenerated, Cards!SecretRefused,
      Cards!ClientDeleted, Cards!ClientRead, Cards!ClientEdited, Cards!ClientCreated,
      Cards!ClientRefused
<1>4. ASSUME NEW k \in calls PROVE ~Cards!Serve(k)
  BY <1>1 DEF Cards!Serve, Cards!Refuse, Cards!ReadClient, Cards!ServeRegenerate,
     Cards!ServeCreate, Cards!ServeDelete, Cards!Answer, Cards!page
<1>5. ASSUME NEW d \in Clients PROVE ~Cards!Press(d)
  BY <1>1 DEF Cards!Press, Cards!HideSecret, Cards!ShowSecret, Cards!RegenerateClientSecret,
     Cards!DeleteClient, Cards!OpenAccessDialog, Cards!OpenEditDialog, Cards!OpenDialog
<1>6. ~(Cards!LeaveWindow \/ Cards!ReturnToWindow \/ Cards!OpenCreateDialog
          \/ Cards!CloseDialog \/ Cards!SubmitClient \/ Cards!ServeList \/ Cards!ListAnswered)
  BY <1>1 DEF Cards!LeaveWindow, Cards!NoRows, Cards!ReturnToWindow, Cards!OpenCreateDialog,
     Cards!OpenDialog, Cards!CloseDialog, Cards!SubmitClient, Cards!ServeList,
     Cards!ListAnswered, Cards!page
<1> QED BY <1>2, <1>3, <1>4, <1>5, <1>6 DEF Cards!Next
-----------------------------------------------------------------------------
(* The access dialog, step by step.                                        *)

LEMMA InitDialog == Access!Init => DialogInv
BY DialogAssumption DEF DialogInv, Access!Init, Access!TypeOK, Access!Pairs, Access!Lookups,
   UserKnown, LookupIsOfField, SavedOnce, Access!CandidateWasTyped, Access!OneSaveInFlight

\* The forms of a lookup.
LEMMA LookupShape ==
  ASSUME Access!TypeOK
  PROVE  /\ lookup = Access!NoLookup <=> lookup.st = "none"
         /\ lookup # Access!NoLookup => lookup.client \in Clients /\ lookup.user \in Users
         /\ lookup.st = "found" => lookup.assigned \in BOOLEAN
         /\ lookup.st \in {"due", "waiting", "missing", "error"} =>
              lookup \in [st : {"due", "waiting", "missing", "error"}, client : Clients,
                          user : Users]
BY DEF Access!TypeOK, Access!Lookups, Access!NoLookup

\* The effect, for the dialog's client and the field.
LEMMA EffectShape ==
  ASSUME NEW c \in Clients \cup {NoClient}, NEW u \in Users \cup {NoUser}
  PROVE  /\ Access!Effect(c, u) \in Access!Lookups
         /\ Access!Effect(c, u) # Access!NoLookup => Access!Effect(c, u).user = u
<1>1. Access!NoLookup \in Access!Lookups
  BY DEF Access!Lookups
<1>2. CASE c = NoClient \/ u = NoUser
  BY <1>1, <1>2 DEF Access!Effect, Access!Lookup
<1>3. CASE ~(c = NoClient \/ u = NoUser)
  BY <1>3 DEF Access!Effect, Access!Lookup, Access!Lookups
<1> QED BY <1>2, <1>3

\* The facts about the requests in flight, and about the rest of the state.
SentInv ==
  /\ sent \subseteq Access!Calls /\ UserKnown /\ SavedOnce /\ Access!OneSaveInFlight
FormInv ==
  /\ access \in Clients \cup {NoClient} /\ identifier \in Users \cup {NoUser}
  /\ candidate \in Users \cup {NoUser} /\ {flag, note} \subseteq BOOLEAN
  /\ lookup \in Access!Lookups /\ LookupIsOfField /\ Access!CandidateWasTyped

LEMMA DialogParts ==
  DialogInv <=> /\ SentInv /\ FormInv /\ assigned \subseteq Access!Pairs
                /\ {looking, submitting} \subseteq BOOLEAN /\ opened \in Clients
BY DEF DialogInv, SentInv, FormInv, Access!TypeOK

LEMMA DialogOfParts ==
  ASSUME SentInv', FormInv', assigned' \subseteq Access!Pairs, looking' \in BOOLEAN,
         submitting' \in BOOLEAN, opened' \in Clients
  PROVE  DialogInv'
BY DEF DialogInv, SentInv, FormInv, Access!TypeOK

\* A request that is sent.
LEMMA SendSent ==
  ASSUME DialogInv, NEW op \in {"open", "save", "remove"}, NEW c \in Clients,
         NEW u \in Users \cup {NoUser}, op # "open" => u \in Users,
         opened' \in Clients, Access!Send(Access!Request(op, c, u)),
         op = "save" => ~submitting, submitting' = (submitting \/ op = "save")
  PROVE  SentInv'
<1>1. PICK k : /\ k = [op |-> op, client |-> c, user |-> u, meant |-> opened',
                       ans |-> "waiting"]
               /\ sent' = sent \cup {k}
  BY DEF Access!Send, Access!Request
<1>2. /\ sent \subseteq Access!Calls /\ UserKnown /\ SavedOnce /\ Access!OneSaveInFlight
      /\ submitting \in BOOLEAN
  BY DialogParts DEF SentInv
<1>3. k \in Access!Calls /\ k.op = op /\ k.user = u
  BY <1>1 DEF Access!Calls
<1>4. sent' \subseteq Access!Calls /\ UserKnown'
  BY <1>1, <1>2, <1>3 DEF UserKnown
<1>5. SavedOnce'
  BY <1>1, <1>2, <1>3 DEF SavedOnce, Access!OneSaveInFlight
<1>6. Access!OneSaveInFlight'
  BY <1>1, <1>2, <1>3 DEF Access!OneSaveInFlight
<1> QED BY <1>4, <1>5, <1>6 DEF SentInv

\* A request that is answered.
LEMMA AnswerSent ==
  ASSUME DialogInv, NEW k \in sent, NEW a \in {"ok", "error"}, Access!Answer(k, a)
  PROVE  SentInv' /\ FormInv' /\ UNCHANGED <<looking, submitting, opened>>
<1>1. PICK l : l = [k EXCEPT !.ans = a] /\ sent' = (sent \ {k}) \cup {l}
  BY DEF Access!Answer
<1>2. UNCHANGED <<access, Access!form, looking, submitting, lookup, opened>>
  BY DEF Access!Answer
<1>3. /\ sent \subseteq Access!Calls /\ UserKnown /\ SavedOnce /\ Access!OneSaveInFlight
  BY DialogParts DEF SentInv
<1>4. l \in Access!Calls /\ l.op = k.op /\ l.user = k.user
  BY <1>1, <1>3 DEF Access!Calls
<1>5. sent' \subseteq Access!Calls /\ UserKnown'
  BY <1>1, <1>3, <1>4 DEF UserKnown
<1>6. SavedOnce'
  BY <1>1, <1>3, <1>4 DEF SavedOnce
<1>7. Access!OneSaveInFlight'
  BY <1>1, <1>2, <1>3, <1>4 DEF Access!OneSaveInFlight
<1>8. FormInv'
  BY <1>2, DialogParts DEF FormInv, Access!form, LookupIsOfField, Access!CandidateWasTyped
<1> QED BY <1>2, <1>5, <1>6, <1>7, <1>8 DEF SentInv

\* A request that is over: the button waits no longer if it was a save.
LEMMA ContinueSent ==
  ASSUME DialogInv, NEW k \in sent, Access!Continue(k),
         submitting' = (submitting /\ k.op # "save")
  PROVE  SentInv'
<1>1. sent' = sent \ {k}
  BY DEF Access!Continue
<1>2. /\ sent \subseteq Access!Calls /\ UserKnown /\ SavedOnce /\ Access!OneSaveInFlight
      /\ submitting \in BOOLEAN
  BY DialogParts DEF SentInv
<1>3. Access!OneSaveInFlight'
  BY <1>1, <1>2 DEF SavedOnce, Access!OneSaveInFlight
<1> QED BY <1>1, <1>2, <1>3 DEF SentInv, UserKnown, SavedOnce

LEMMA QuietSent ==
  ASSUME DialogInv, UNCHANGED <<sent, submitting>>
  PROVE  SentInv'
BY DialogParts DEF SentInv, UserKnown, SavedOnce, Access!OneSaveInFlight

\* The dialog with an empty form, and the form with another identifier.
LEMMA ClearedForm ==
  ASSUME NEW c \in Clients \cup {NoClient}, NEW u \in Users \cup {NoUser},
         access' = c, Access!Cleared(u), lookup' = Access!Effect(c, u)
  PROVE  FormInv'
<1>1. lookup' \in Access!Lookups /\ (lookup' # Access!NoLookup => lookup'.user = u)
  BY EffectShape
<1> QED BY <1>1 DEF FormInv, Access!Cleared, LookupIsOfField, Access!CandidateWasTyped

\* The form as it is, looked up again or not.
LEMMA RenewedForm ==
  ASSUME FormInv, access' \in Clients \cup {NoClient},
         UNCHANGED <<identifier, candidate, note>>, flag' \in BOOLEAN,
         lookup' = lookup \/ lookup' = Access!Effect(access', identifier)
  PROVE  FormInv'
<1>1. PICK c \in Clients \cup {NoClient} : c = access'
  OBVIOUS
<1>2. identifier \in Users \cup {NoUser}
  BY DEF FormInv
<1>3. lookup' = lookup \/ lookup' = Access!Effect(c, identifier)
  BY <1>1
<1>4. lookup' \in Access!Lookups /\ (lookup' # Access!NoLookup => lookup'.user = identifier)
  BY <1>2, <1>3, EffectShape DEF FormInv, LookupIsOfField
<1> QED BY <1>4 DEF FormInv, LookupIsOfField, Access!CandidateWasTyped

-----------------------------------------------------------------------------
\* The controls of the access dialog.
LEMMA ControlKeeps ==
  ASSUME DialogInv,
         \/ \E c \in Clients : Access!OpenAccessDialog(c)
         \/ Access!CloseDialog \/ Access!ClearForm
         \/ \E u \in Users \cup {NoUser} : Access!UpdateAssignmentIdentifier(u)
         \/ Access!SaveAssignment \/ Access!RemoveCandidateAssignment
  PROVE  DialogInv'
<1>1. /\ SentInv /\ FormInv /\ assigned \subseteq Access!Pairs
      /\ looking \in BOOLEAN /\ submitting \in BOOLEAN /\ opened \in Clients
      /\ access \in Clients \cup {NoClient} /\ candidate \in Users \cup {NoUser}
  BY DialogParts DEF FormInv
<1>2. ASSUME NEW c \in Clients, Access!OpenAccessDialog(c) PROVE DialogInv'
  <2>1. SentInv'
    BY <1>1, <1>2, SendSent DEF Access!OpenAccessDialog
  <2>2. FormInv'
    BY <1>2, ClearedForm DEF Access!OpenAccessDialog
  <2> QED BY <1>1, <1>2, <2>1, <2>2, DialogOfParts DEF Access!OpenAccessDialog
<1>3. CASE Access!CloseDialog
  <2>1. SentInv'
    BY <1>3, QuietSent DEF Access!CloseDialog
  <2>2. FormInv'
    BY <1>3, ClearedForm DEF Access!CloseDialog
  <2> QED BY <1>1, <1>3, <2>1, <2>2, DialogOfParts DEF Access!CloseDialog
<1>4. CASE Access!ClearForm
  <2>1. SentInv'
    BY <1>4, QuietSent DEF Access!ClearForm
  <2>2. FormInv'
    BY <1>1, <1>4, ClearedForm DEF Access!ClearForm
  <2> QED BY <1>1, <1>4, <2>1, <2>2, DialogOfParts DEF Access!ClearForm
<1>5. ASSUME NEW u \in Users \cup {NoUser}, Access!UpdateAssignmentIdentifier(u)
      PROVE  DialogInv'
  <2>1. SentInv'
    BY <1>5, QuietSent DEF Access!UpdateAssignmentIdentifier
  <2>2. FormInv'
    BY <1>1, <1>5, ClearedForm DEF Access!UpdateAssignmentIdentifier
  <2> QED BY <1>1, <1>5, <2>1, <2>2, DialogOfParts DEF Access!UpdateAssignmentIdentifier
<1>6. CASE Access!SaveAssignment
  <2>1. access \in Clients /\ candidate \in Users /\ ~submitting
    BY <1>1, <1>6 DEF Access!SaveAssignment, Access!SaveEnabled, Access!DialogShown
  <2>2. SentInv'
    BY <1>1, <1>6, <2>1, SendSent DEF Access!SaveAssignment
  <2>3. FormInv'
    BY <1>1, <1>6, RenewedForm DEF Access!SaveAssignment, Access!form, FormInv
  <2> QED BY <1>1, <1>6, <2>2, <2>3, DialogOfParts DEF Access!SaveAssignment
<1>7. CASE Access!RemoveCandidateAssignment
  <2>1. access \in Clients /\ candidate \in Users
    BY <1>1, <1>7 DEF Access!RemoveCandidateAssignment, Access!RemoveEnabled,
       Access!DialogShown
  <2>2. SentInv'
    BY <1>1, <1>7, <2>1, SendSent DEF Access!RemoveCandidateAssignment
  <2>3. FormInv'
    BY <1>1, <1>7, RenewedForm DEF Access!RemoveCandidateAssignment, Access!form, FormInv
  <2> QED BY <1>1, <1>7, <2>2, <2>3, DialogOfParts DEF Access!RemoveCandidateAssignment
<1> QED BY <1>2, <1>3, <1>4, <1>5, <1>6, <1>7

\* The lookup: what it brings belongs to the field as it is.
LEMMA LookupKeeps ==
  ASSUME DialogInv,
         Access!LookupStarts \/ Access!ServeLookup \/ Access!LookupFound \/ Access!LookupFailed
  PROVE  DialogInv'
<1>1. /\ SentInv /\ FormInv /\ assigned \subseteq Access!Pairs /\ Access!TypeOK
      /\ looking \in BOOLEAN /\ submitting \in BOOLEAN /\ opened \in Clients
  BY DialogParts DEF DialogInv
<1>2. SentInv'
  BY QuietSent DEF Access!LookupStarts, Access!ServeLookup, Access!LookupFound,
     Access!LookupFailed
<1>3. Access!NoLookup \in Access!Lookups
  BY DEF Access!Lookups
<1>4. CASE Access!LookupStarts
  <2>1. lookup' \in Access!Lookups /\ lookup'.user = lookup.user /\ lookup # Access!NoLookup
    BY <1>1, <1>4, LookupShape DEF Access!LookupStarts, Access!Lookups
  <2>2. FormInv'
    BY <1>1, <1>4, <2>1 DEF Access!LookupStarts, Access!form, FormInv, LookupIsOfField,
       Access!CandidateWasTyped
  <2> QED BY <1>1, <1>2, <1>4, <2>2, DialogOfParts DEF Access!LookupStarts
<1>5. CASE Access!ServeLookup
  <2>1. lookup' \in Access!Lookups /\ lookup'.user = lookup.user /\ lookup # Access!NoLookup
    <3>1. /\ lookup \in [st : {"due", "waiting", "missing", "error"}, client : Clients,
                         user : Users]
          /\ lookup # Access!NoLookup
      BY <1>1, <1>5, LookupShape DEF Access!ServeLookup
    <3>2. CASE lookup' = [st |-> "found", client |-> lookup.client, user |-> lookup.user,
                   assigned |-> <<lookup.client, lookup.user>> \in assigned]
      BY <3>1, <3>2 DEF Access!Lookups
    <3>3. CASE \E a \in {"missing", "error"} : lookup' = [lookup EXCEPT !.st = a]
      BY <3>1, <3>3 DEF Access!Lookups
    <3> QED BY <1>5, <3>1, <3>2, <3>3 DEF Access!ServeLookup
  <2>2. FormInv'
    BY <1>1, <1>5, <2>1 DEF Access!ServeLookup, Access!form, FormInv, LookupIsOfField,
       Access!CandidateWasTyped
  <2> QED BY <1>1, <1>2, <1>5, <2>2, DialogOfParts DEF Access!ServeLookup
<1>6. CASE Access!LookupFound
  <2>1. lookup.user \in Users /\ lookup.assigned \in BOOLEAN /\ lookup.user = identifier
    BY <1>1, <1>6, LookupShape DEF Access!LookupFound, FormInv, LookupIsOfField
  <2>2. FormInv'
    BY <1>1, <1>3, <1>6, <2>1 DEF Access!LookupFound, FormInv, LookupIsOfField,
       Access!CandidateWasTyped
  <2> QED BY <1>1, <1>2, <1>6, <2>2, DialogOfParts DEF Access!LookupFound
<1>7. CASE Access!LookupFailed
  <2>1. FormInv'
    BY <1>1, <1>3, <1>7 DEF Access!LookupFailed, FormInv, LookupIsOfField,
       Access!CandidateWasTyped
  <2> QED BY <1>1, <1>2, <1>7, <2>1, DialogOfParts DEF Access!LookupFailed
<1> QED BY <1>4, <1>5, <1>6, <1>7

\* The backend.
LEMMA ServedKeeps ==
  ASSUME DialogInv, NEW k \in sent, Access!Serve(k)
  PROVE  DialogInv'
<1>1. /\ assigned \subseteq Access!Pairs /\ looking \in BOOLEAN /\ submitting \in BOOLEAN
      /\ opened \in Clients /\ k \in Access!Calls /\ (k.op # "open" => k.user \in Users)
  BY DialogParts DEF SentInv, UserKnown
<1>2. \E a \in {"ok", "error"} : Access!Answer(k, a)
  BY DEF Access!Serve, Access!Refuse, Access!ServeOpen, Access!ServeSave, Access!ServeRemove
<1>3. assigned' \subseteq Access!Pairs
  BY <1>1 DEF Access!Serve, Access!Refuse, Access!ServeOpen, Access!ServeSave,
     Access!ServeRemove, Access!Pairs, Access!Calls
<1>4. SentInv' /\ FormInv' /\ UNCHANGED <<looking, submitting, opened>>
  BY <1>2, AnswerSent
<1> QED BY <1>1, <1>3, <1>4, DialogOfParts

\* The continuations.
LEMMA ContinuedKeeps ==
  ASSUME DialogInv, NEW k \in sent, Access!Continuation(k)
  PROVE  DialogInv'
<1>1. /\ SentInv /\ FormInv /\ assigned \subseteq Access!Pairs /\ looking \in BOOLEAN
      /\ submitting \in BOOLEAN /\ opened \in Clients /\ k.client \in Clients
      /\ access \in Clients \cup {NoClient} /\ flag \in BOOLEAN
  BY DialogParts DEF SentInv, FormInv, Access!Calls
<1>2. Access!Continue(k)
  BY DEF Access!Continuation, Access!AccessOpened, Access!AccessRefused,
     Access!AssignmentSaved, Access!AssignmentRemoved, Access!AssignmentRefused
<1>3. submitting' = (submitting /\ k.op # "save")
  BY <1>1 DEF Access!Continuation, Access!AccessOpened, Access!AccessRefused,
     Access!AssignmentSaved, Access!AssignmentRemoved, Access!AssignmentRefused,
     Access!Ended, Access!SubmittingAfter
<1>4. SentInv'
  BY <1>2, <1>3, ContinueSent
<1>5. /\ UNCHANGED <<identifier, candidate, note>> /\ flag' \in BOOLEAN
      /\ access' \in Clients \cup {NoClient}
      /\ lookup' = lookup \/ lookup' = Access!Effect(access', identifier)
  BY <1>1 DEF Access!Continuation, Access!AccessOpened, Access!AccessRefused,
     Access!AssignmentSaved, Access!AssignmentRemoved, Access!AssignmentRefused,
     Access!Renewed, Access!form
<1>6. FormInv'
  BY <1>1, <1>5, RenewedForm
<1> QED BY <1>1, <1>2, <1>3, <1>4, <1>6, DialogOfParts DEF Access!Continue

LEMMA DialogStep == DialogInv /\ Access!Next => DialogInv'
BY ControlKeeps, LookupKeeps, ServedKeeps, ContinuedKeeps DEF Access!Next
-----------------------------------------------------------------------------
(* Pages of a list, and the numbers of its rows.                           *)

\* Counting the rows of a set from the first one on meets every number below
\* the size of the set.
LEMMA EveryRankIsThere ==
  ASSUME NEW S \in SUBSET Tables!Items, NEW m \in Nat, m < Cardinality(S)
  PROVE  \E i \in S : Cardinality({j \in S : j < i}) = m
<1> DEFINE UpTo(n) == {j \in S : j <= n}
           T == {n \in Nat : Cardinality(UpTo(n)) > m}
           R == {p \in Nat \X Nat : p[1] < p[2]}
<1>1. IsFiniteSet(S) /\ Last \in Nat /\ \A j \in S : j \in Nat /\ 1 <= j /\ j <= Last
  <2>1. IsFiniteSet(1..Last) /\ S \subseteq 1..Last /\ Last \in Nat
    BY TablesAssumption, FS_Interval DEF Tables!Items
  <2>2. IsFiniteSet(S)
    BY <2>1, FS_Subset
  <2> QED BY <2>1, <2>2
<1>2. \A n \in Nat : IsFiniteSet(UpTo(n)) /\ Cardinality(UpTo(n)) \in Nat
  BY <1>1, FS_Subset, FS_CardinalityType
<1>3. UpTo(Last) = S
  BY <1>1
<1>4. Last \in T
  BY <1>1, <1>3
<1>5. PICK n \in T : \A y \in T : ~ (<<y, n>> \in R)
  <2> HIDE DEF T, R
  <2>1. IsWellFoundedOn(R, Nat)
    BY NatLessThanWellFounded, Zenon DEF R, OpToRel
  <2>2. T \subseteq Nat /\ T # {}
    BY <1>4 DEF T
  <2> QED BY <2>1, <2>2, WFMin
<1>6. n \in Nat /\ Cardinality(UpTo(n)) > m
  OBVIOUS
<1>7. UpTo(0) = {}
  BY <1>1
<1>8. n # 0
  BY <1>6, <1>7, FS_EmptySet
<1>9. PICK p \in Nat : n = p + 1
  BY <1>6, <1>8
<1>10. ~(Cardinality(UpTo(p)) > m)
  <2> SUFFICES ASSUME p \in T PROVE FALSE
    OBVIOUS
  <2>1. <<p, n>> \in R
    BY <1>6, <1>9
  <2> QED BY <1>5, <2>1
<1>11. n \in S
  <2> SUFFICES ASSUME n \notin S PROVE FALSE
    OBVIOUS
  <2>1. UpTo(n) = UpTo(p)
    BY <1>1, <1>9
  <2> HIDE DEF UpTo
  <2> QED BY <1>6, <1>10, <2>1
<1>12. UpTo(n) = UpTo(p) \cup {n} /\ n \notin UpTo(p)
  <2>1. \A j \in S : j <= n <=> j <= p \/ j = n
    BY <1>1, <1>9
  <2>2. ~(n <= p) /\ n <= n
    BY <1>9
  <2> QED BY <1>11, <2>1, <2>2, Zenon
<1>13. Cardinality(UpTo(n)) = Cardinality(UpTo(p)) + 1
  <2> HIDE DEF UpTo
  <2> QED BY <1>2, <1>12, FS_AddElement
<1>14. Cardinality(UpTo(p)) = m
  <2> HIDE DEF UpTo
  <2> QED BY <1>2, <1>6, <1>10, <1>13
<1>15. {j \in S : j < n} = UpTo(p)
  BY <1>1, <1>9
<1> QED BY <1>11, <1>14, <1>15

\* The instance counts as this module does.
LEMMA SameCardinality ==
  ASSUME NEW S
  PROVE  Tables!Cardinality(S) = Cardinality(S)
BY DEF Tables!Cardinality, Cardinality

\* The number of pages, and where the last one begins.
LEMMA PagesOfTotal ==
  ASSUME NEW total \in 0..Last
  PROVE  /\ Tables!TotalPages(total) \in 1..(Last + 1)
         /\ \A p \in Nat \ {0} : total > 0 /\ p <= Tables!TotalPages(total) =>
              (p - 1) * PageSize < total
<1>1. PICK q \in Int : q = (total + PageSize - 1) \div PageSize
  BY TablesAssumption
<1>2. PageSize * q <= total + PageSize - 1 /\ total + PageSize - 1 < PageSize * q + PageSize
  BY <1>1, TablesAssumption
<1>3. q >= 0 /\ q <= total
  BY <1>2, TablesAssumption
<1>4. Tables!TotalPages(total) = IF q >= 1 THEN q ELSE 1
  BY <1>1 DEF Tables!TotalPages, Tables!Max
<1>5. total > 0 => q >= 1
  BY <1>2, <1>3, TablesAssumption
<1>6. ASSUME NEW p \in Nat \ {0}, total > 0, p <= q
      PROVE  (p - 1) * PageSize < total
  <2>1. p * PageSize <= q * PageSize
    BY <1>3, <1>6, TablesAssumption
  <2> QED BY <1>2, <1>3, <2>1, TablesAssumption
<1> QED BY <1>3, <1>4, <1>5, <1>6, TablesAssumption

\* The rows that are selected, and a page of them.
LEMMA SelectedShape ==
  ASSUME Tables!TypeOK, NEW d \in Tables!Deps
  PROVE  /\ Tables!Selected(d) \subseteq Tables!Items
         /\ Cardinality(Tables!Selected(d)) \in 0..Last
         /\ Tables!PageOf(d) \subseteq rows
<1>1. Tables!Selected(d) \subseteq rows /\ rows \subseteq Tables!Items
  BY DEF Tables!Selected, Tables!TypeOK
<1>2. IsFiniteSet(Tables!Items) /\ Cardinality(Tables!Items) = Last
  BY TablesAssumption, FS_Interval DEF Tables!Items
<1>3. /\ IsFiniteSet(Tables!Selected(d))
      /\ Cardinality(Tables!Selected(d)) <= Last /\ Cardinality(Tables!Selected(d)) \in Nat
  BY <1>1, <1>2, FS_Subset, FS_CardinalityType
<1>4. Tables!PageOf(d) \subseteq rows
  BY <1>1 DEF Tables!PageOf
<1> QED BY <1>1, <1>3, <1>4, TablesAssumption

\* A page within the pages there are is empty only where nothing is selected.
LEMMA PageIsFull ==
  ASSUME Tables!TypeOK, NEW d \in Tables!Deps, d.page > 0, Tables!PageOf(d) = {},
         d.page <= Tables!TotalPages(Cardinality(Tables!Selected(d)))
  PROVE  Cardinality(Tables!Selected(d)) = 0
<1> DEFINE S == Tables!Selected(d)
           total == Cardinality(S)
           m == (d.page - 1) * PageSize
<1>1. S \in SUBSET Tables!Items /\ total \in 0..Last /\ d.page \in Nat \ {0}
  BY SelectedShape, TablesAssumption DEF Tables!Deps
<1>2. SUFFICES ASSUME total > 0 PROVE FALSE
  BY <1>1
<1>3. m \in Nat
  BY <1>1, TablesAssumption
<1>4. m < total
  BY <1>1, <1>2, PagesOfTotal
<1>5. PICK i \in S : Cardinality({j \in S : j < i}) = m
  <2> HIDE DEF S, m
  <2> QED BY <1>1, <1>3, <1>4, EveryRankIsThere
<1>6. m <= d.page * PageSize - 1
  BY <1>1, TablesAssumption
<1>7. d.page * PageSize - 1 \in Int
  BY <1>1, TablesAssumption
<1>8. m \in (d.page - 1) * PageSize .. d.page * PageSize - 1
  <2> DEFINE z == d.page * PageSize - 1
  <2> HIDE DEF z
  <2>1. m \in m..z
    <3> HIDE DEF m
    <3> QED BY <1>3, <1>6, <1>7 DEF z
  <2> QED BY <2>1 DEF z
<1>9. i \in Tables!PageOf(d)
  <2>1. Cardinality({j \in S : j < i}) \in (d.page - 1) * PageSize .. d.page * PageSize - 1
    BY <1>5, <1>8
  <2>2. Tables!PageOf(d) = {k \in S : Cardinality({j \in S : j < k}) \in
                             (d.page - 1) * PageSize .. d.page * PageSize - 1}
    BY SameCardinality DEF Tables!PageOf
  <2> QED BY <1>5, <2>1, <2>2, Zenon
<1> QED BY <1>9

\* The buttons of the pager are pages there are.
LEMMA PagerShape ==
  ASSUME Tables!TypeOK, NEW p \in Tables!PagerTargets
  PROVE  p \in 1..(Last + 1)
<1>1. deps.page \in 0..(Last + 1) /\ count.pages \in 1..(Last + 1)
  BY DEF Tables!TypeOK, Tables!Deps
<1>2. Tables!PageItems(deps.page, count.pages) \subseteq 1..count.pages
  <2> DEFINE k == deps.page
             n == count.pages
  <2>1. k \in Nat /\ n \in Nat /\ n >= 1
    BY <1>1, TablesAssumption
  <2>2. CASE n <= 7
    BY <2>1, <2>2 DEF Tables!PageItems
  <2>3. CASE ~(n <= 7) /\ k <= 4
    BY <2>1, <2>3 DEF Tables!PageItems
  <2>4. CASE ~(n <= 7) /\ ~(k <= 4) /\ k >= n - 3
    BY <2>1, <2>4 DEF Tables!PageItems
  <2>5. CASE ~(n <= 7) /\ ~(k <= 4) /\ ~(k >= n - 3)
    BY <2>1, <2>5 DEF Tables!PageItems
  <2> QED BY <2>2, <2>3, <2>4, <2>5
<1> QED BY <1>1, <1>2, TablesAssumption DEF Tables!PagerTargets
-----------------------------------------------------------------------------
(* The tables, step by step.                                               *)

LEMMA InitTables == Tables!Init => TablesInv
<1> SUFFICES ASSUME Tables!Init PROVE TablesInv
  OBVIOUS
<1>1. /\ Tables!First \in Tables!Deps /\ Tables!First.page = 1
      /\ 0 \in 0..Last /\ 1 \in 1..(Last + 1)
  BY TablesAssumption DEF Tables!First, Tables!Deps, Tables!Searches
<1>2. /\ fetch = [st |-> "waiting", asked |-> Tables!First] /\ fetch.st = "waiting"
      /\ fetch \in Tables!Fetches /\ fetch.asked = deps
  BY <1>1 DEF Tables!Init, Tables!Fetch, Tables!Fetches
<1>3. act = Tables!Idle /\ act \in Tables!Acts
  BY DEF Tables!Init, Tables!Acts
<1>4. Tables!TypeOK
  BY <1>1, <1>2, <1>3 DEF Tables!Init, Tables!TypeOK, Tables!Searches
<1> QED BY <1>2, <1>3, <1>4
  DEF Tables!Init, TablesInv, FetchIsOfDeps, SessionsFetchedOnce, EmptyIsCounted,
      BackFromPage, ActOfKind, PagesAreFull, RemovedIsGone, Tables!ListIsTheOneAsked,
      Tables!Settled, Tables!RemovedStaysUnlisted, Tables!NoFetch

\* The forms of a fetch and of a row's request.
LEMMA FetchShape ==
  ASSUME Tables!TypeOK
  PROVE  /\ fetch = Tables!NoFetch <=> fetch.st = "none"
         /\ fetch # Tables!NoFetch => fetch.asked \in Tables!Deps
         /\ fetch.st = "waiting" =>
              fetch \in [st : {"waiting", "error"}, asked : Tables!Deps]
         /\ fetch.st = "ok" =>
              /\ fetch.rows \subseteq Tables!Items /\ fetch.on \subseteq Tables!Items
              /\ fetch.total \in 0..Last
BY DEF Tables!TypeOK, Tables!Fetches, Tables!NoFetch

LEMMA ActShape ==
  ASSUME Tables!TypeOK
  PROVE  /\ act = Tables!Idle <=> act.op = "none"
         /\ act # Tables!Idle =>
              act \in [op : {"revoke", "update", "delete", "disconnect"}, row : Tables!Items,
                       to : BOOLEAN, back : BOOLEAN, total : 0..Last,
                       ans : {"waiting", "ok", "error"}]
BY DEF Tables!TypeOK, Tables!Acts, Tables!Idle

\* A fetch for other dependencies: not one that was answered.
LEMMA FetchIsFetch ==
  ASSUME NEW d \in Tables!Deps
  PROVE  /\ Tables!Fetch(d) \in Tables!Fetches /\ Tables!Fetch(d) # Tables!NoFetch
         /\ Tables!Fetch(d).asked = d /\ Tables!Fetch(d).st = "waiting"
BY DEF Tables!Fetch, Tables!Fetches, Tables!NoFetch

\* What the effect depends on and what it fetched: as they were, changed with the
\* effect still due, or changed and fetched.
AsFetched == deps' = deps /\ fetch' = fetch /\ stale' = stale
Queued == deps' \in Tables!Deps /\ fetch' = fetch /\ stale' = TRUE
Refetched == deps' \in Tables!Deps /\ fetch' = Tables!Fetch(deps') /\ stale' = FALSE

LEMMA DependShape ==
  ASSUME Tables!TypeOK, NEW d \in Tables!Deps, Tables!Depend(d)
  PROVE  deps' = d /\ ((d = deps /\ AsFetched) \/ (d # deps /\ Queued))
BY DEF Tables!TypeOK, Tables!Depend, Queued, AsFetched

LEMMA PressShape ==
  ASSUME Tables!TypeOK, NEW d \in Tables!Deps, NEW reload \in BOOLEAN,
         Tables!Press(d, reload)
  PROVE  deps' = d /\ (AsFetched \/ Refetched)
BY DEF Tables!TypeOK, Tables!Press, Refetched, AsFetched

\* A control of the table, or of its pager, or the effect.
LEMMA ControlOfTable ==
  ASSUME TablesInv,
         UNCHANGED <<kind, Tables!table, shown, count, failed, act, removed, ready>>,
         search' \in Tables!Searches, due' \in BOOLEAN, loading' \in BOOLEAN,
         alert' \in BOOLEAN, kind = "sesi" => ~due' /\ AsFetched,
         \/ AsFetched
         \/ (Queued \/ Refetched) /\ (deps'.page > 0 \/ deps'.page = deps.page)
  PROVE  TablesInv'
<1>1. Tables!TypeOK
  BY DEF TablesInv
<1>2. PICK e \in Tables!Deps : e = deps'
  BY <1>1 DEF Tables!TypeOK, AsFetched, Queued, Refetched
<1>3. /\ Refetched => fetch' \in Tables!Fetches /\ fetch' # Tables!NoFetch
                      /\ fetch'.asked = deps' /\ fetch'.st = "waiting" /\ stale' = FALSE
      /\ Queued => fetch' = fetch /\ stale' = TRUE
  BY <1>2, FetchIsFetch DEF Refetched, Queued
<1>4. Tables!TypeOK'
  BY <1>1, <1>2, <1>3 DEF Tables!TypeOK, Tables!table, AsFetched
<1>5. FetchIsOfDeps' /\ EmptyIsCounted'
  BY <1>3 DEF TablesInv, FetchIsOfDeps, EmptyIsCounted, AsFetched
<1>6. SessionsFetchedOnce'
  BY DEF TablesInv, SessionsFetchedOnce, AsFetched
<1>7. BackFromPage' /\ ActOfKind'
  BY DEF TablesInv, BackFromPage, ActOfKind, AsFetched
<1>8. PagesAreFull' /\ RemovedIsGone'
  <2>1. \A t : Tables!TotalPages(t)' = Tables!TotalPages(t)
    BY DEF Tables!TotalPages
  <2> QED BY <1>3, <2>1 DEF TablesInv, PagesAreFull, RemovedIsGone, Tables!table, AsFetched
<1>9. Tables!ListIsTheOneAsked' /\ Tables!RemovedStaysUnlisted'
  BY <1>3 DEF TablesInv, Tables!ListIsTheOneAsked, Tables!RemovedStaysUnlisted,
     Tables!Settled, AsFetched
<1> QED BY <1>4, <1>5, <1>6, <1>7, <1>8, <1>9 DEF TablesInv

LEMMA ControlsKeep ==
  ASSUME TablesInv,
         \/ \E s \in Tables!Searches : Tables!Type(s)
         \/ Tables!DebounceFires \/ Tables!EffectRuns
         \/ \E f \in {"all", "some"} : Tables!PickFilter(f)
         \/ \E p \in Tables!PagerTargets : Tables!PickPage(p)
         \/ Tables!Retry
  PROVE  TablesInv'
<1>1. /\ Tables!TypeOK /\ deps \in Tables!Deps /\ search \in Tables!Searches
      /\ due \in BOOLEAN /\ loading \in BOOLEAN /\ alert \in BOOLEAN
      /\ kind = "sesi" => ~due /\ ~stale
  BY DEF TablesInv, Tables!TypeOK, SessionsFetchedOnce
<1>2. ASSUME NEW s \in Tables!Searches, Tables!Type(s) PROVE TablesInv'
  <2>1. AsFetched /\ kind # "sesi"
    BY <1>2 DEF Tables!Type, Tables!SearchShown, AsFetched
  <2> QED BY <1>1, <1>2, <2>1, ControlOfTable DEF Tables!Type
<1>3. CASE Tables!DebounceFires
  <2>1. PICK d : d = [deps EXCEPT !.search = search, !.page = 1]
    OBVIOUS
  <2>2. d \in Tables!Deps /\ d.page = 1
    <3>1. 1 \in 0..(Last + 1)
      BY TablesAssumption
    <3> QED BY <1>1, <2>1, <3>1 DEF Tables!Deps
  <2>3. /\ due /\ due' = FALSE /\ kind # "sesi"
        /\ UNCHANGED <<kind, Tables!table, search, shown, count, ready, act, failed, removed>>
        /\ alert' \in BOOLEAN /\ loading' \in BOOLEAN
    BY <1>1, <1>3 DEF Tables!DebounceFires
  <2>4. Tables!Depend(d) \/ AsFetched
    BY <1>3, <2>1 DEF Tables!DebounceFires, AsFetched
  <2>5. AsFetched \/ (Queued /\ deps'.page > 0)
    BY <1>1, <2>2, <2>4, DependShape
  <2> QED BY <1>1, <2>3, <2>5, ControlOfTable
<1>4. ASSUME NEW f \in {"all", "some"}, Tables!PickFilter(f) PROVE TablesInv'
  <2>1. PICK d : d = [deps EXCEPT !.filter = f, !.page = 1]
    OBVIOUS
  <2>2. d \in Tables!Deps /\ d.page > 0
    <3>1. 1 \in 0..(Last + 1)
      BY TablesAssumption
    <3>2. d \in Tables!Deps /\ d.page = 1
      BY <1>1, <2>1, <3>1 DEF Tables!Deps
    <3> QED BY <3>2
  <2>3. /\ Tables!Press(d, FALSE) /\ kind = "audit-log" /\ loading' = TRUE
        /\ UNCHANGED <<kind, Tables!table, search, due, shown, count, alert, ready, act,
                       failed, removed>>
    BY <1>4, <2>1 DEF Tables!PickFilter
  <2>4. AsFetched \/ (Refetched /\ deps'.page > 0)
    BY <1>1, <2>2, <2>3, PressShape
  <2> QED BY <1>1, <2>3, <2>4, ControlOfTable
<1>5. ASSUME NEW p \in Tables!PagerTargets, Tables!PickPage(p) PROVE TablesInv'
  <2>1. PICK d : d = [deps EXCEPT !.page = p]
    OBVIOUS
  <2>2. p \in 1..(Last + 1)
    BY <1>1, PagerShape
  <2>3. d \in Tables!Deps /\ d.page > 0
    BY <1>1, <2>1, <2>2, TablesAssumption DEF Tables!Deps
  <2>4. /\ Tables!Press(d, FALSE) /\ kind # "sesi" /\ loading' = TRUE /\ alert' = FALSE
        /\ UNCHANGED <<kind, Tables!table, search, due, shown, count, ready, act, failed,
                       removed>>
    BY <1>5, <2>1 DEF Tables!PickPage, Tables!PagerShown
  <2>5. AsFetched \/ (Refetched /\ deps'.page > 0)
    BY <1>1, <2>3, <2>4, PressShape
  <2> QED BY <1>1, <2>4, <2>5, ControlOfTable
<1>6. CASE Tables!Retry
  <2>1. /\ Tables!Press(deps, TRUE) /\ kind # "sesi" /\ loading' = TRUE /\ alert' = FALSE
        /\ UNCHANGED <<kind, Tables!table, search, due, shown, count, ready, act, failed,
                       removed>>
    BY <1>6 DEF Tables!Retry, Tables!RetryShown
  <2>2. deps' = deps /\ (AsFetched \/ Refetched)
    BY <1>1, <2>1, PressShape
  <2> QED BY <1>1, <2>1, <2>2, ControlOfTable
<1>7. CASE Tables!EffectRuns
  <2>1. /\ stale /\ stale' = FALSE /\ deps' = deps /\ fetch' = Tables!Fetch(deps)
        /\ UNCHANGED <<kind, Tables!table, search, due, shown, count, loading, alert, ready,
                       act, failed, removed>>
    BY <1>7 DEF Tables!EffectRuns, Tables!Superseding
  <2>2. Refetched /\ kind # "sesi"
    BY <1>1, <2>1 DEF Refetched
  <2> QED BY <1>1, <2>1, <2>2, ControlOfTable
<1> QED BY <1>2, <1>3, <1>4, <1>5, <1>6, <1>7

\* The list is served: a page that is empty within the pages there are is empty
\* of every row.
LEMMA ServeFetchKeeps ==
  ASSUME TablesInv, Tables!ServeFetch
  PROVE  TablesInv'
<1>1. /\ Tables!TypeOK /\ fetch.st = "waiting" /\ fetch # Tables!NoFetch
      /\ fetch \in [st : {"waiting", "error"}, asked : Tables!Deps]
      /\ UNCHANGED <<kind, Tables!table, search, due, deps, stale, shown, count, loading,
                     alert, ready, act, failed, removed>>
  BY FetchShape DEF TablesInv, Tables!ServeFetch
<1>2. PICK d \in Tables!Deps : d = fetch.asked
  BY <1>1
<1>3. /\ rows \subseteq Tables!Items /\ on \subseteq rows /\ Tables!PageOf(d) \subseteq rows
      /\ Cardinality(Tables!Selected(d)) \in 0..Last
  BY <1>1, SelectedShape DEF Tables!TypeOK
<1>4. PICK r : r = IF kind = "sesi" THEN rows ELSE Tables!PageOf(d)
  OBVIOUS
<1>5. \/ /\ d.page > 0
         /\ fetch' = [st |-> "ok", asked |-> d, rows |-> r, on |-> r \cap on,
                      total |-> Cardinality(Tables!Selected(d))]
      \/ fetch' = [fetch EXCEPT !.st = "error"]
  BY <1>2, <1>4, SameCardinality DEF Tables!ServeFetch
<1>6. /\ fetch' \in Tables!Fetches /\ fetch'.asked = d /\ fetch' # Tables!NoFetch
      /\ fetch'.st \in {"ok", "error"}
      /\ fetch'.st = "ok" => /\ fetch'.rows = r /\ d.page > 0
                             /\ fetch'.total = Cardinality(Tables!Selected(d))
  BY <1>1, <1>2, <1>3, <1>4, <1>5 DEF Tables!Fetches, Tables!NoFetch
<1>7. PagesAreFull'
  <2> SUFFICES ASSUME fetch'.st = "ok", kind # "sesi", fetch'.rows = {},
                      d.page <= Tables!TotalPages(Cardinality(Tables!Selected(d)))
               PROVE  Cardinality(Tables!Selected(d)) = 0
    <3>1. /\ d.page \in Nat
          /\ Tables!TotalPages(Cardinality(Tables!Selected(d))) \in 1..(Last + 1)
      BY <1>3, PagesOfTotal, TablesAssumption DEF Tables!Deps
    <3>2. PICK t : t = Cardinality(Tables!Selected(d))
      OBVIOUS
    <3>3. PICK n \in 1..(Last + 1) : n = Tables!TotalPages(t)
      BY <3>1, <3>2
    <3>4. fetch'.st = "ok" => fetch'.total = t
      BY <1>6, <3>2
    <3>5. Tables!TotalPages(t)' = Tables!TotalPages(t)
      BY DEF Tables!TotalPages
    <3>6. d.page <= n \/ d.page > n
      BY <3>1
    <3> QED BY <1>1, <1>6, <3>2, <3>3, <3>4, <3>5, <3>6 DEF PagesAreFull
  <2>1. Tables!PageOf(d) = {} /\ d.page > 0
    BY <1>4, <1>6
  <2> QED BY <1>1, <2>1, PageIsFull
<1>8. RemovedIsGone'
  BY <1>1, <1>3, <1>4, <1>6 DEF TablesInv, RemovedIsGone, Tables!table
<1>9. Tables!TypeOK'
  BY <1>1, <1>6 DEF Tables!TypeOK, Tables!table
<1>10. FetchIsOfDeps' /\ SessionsFetchedOnce' /\ EmptyIsCounted'
  BY <1>1, <1>2, <1>6 DEF TablesInv, FetchIsOfDeps, SessionsFetchedOnce, EmptyIsCounted
<1>11. BackFromPage' /\ ActOfKind'
  BY <1>1 DEF TablesInv, BackFromPage, ActOfKind
<1>12. Tables!ListIsTheOneAsked' /\ Tables!RemovedStaysUnlisted'
  BY <1>1, <1>6 DEF TablesInv, Tables!ListIsTheOneAsked, Tables!RemovedStaysUnlisted,
     Tables!Settled
<1> QED BY <1>7, <1>8, <1>9, <1>10, <1>11, <1>12 DEF TablesInv

LEMMA FetchFailedKeeps ==
  ASSUME TablesInv, Tables!FetchFailed
  PROVE  TablesInv'
<1>1. /\ fetch' = Tables!NoFetch /\ loading' = FALSE /\ failed' = TRUE
      /\ alert' = (kind \in {"detail", "pengguna"})
      /\ UNCHANGED <<kind, Tables!table, search, due, deps, stale, shown, count, ready, act,
                     removed>>
  BY DEF Tables!FetchFailed
<1>2. Tables!NoFetch.st = "none" /\ Tables!NoFetch \in Tables!Fetches
  BY DEF Tables!NoFetch, Tables!Fetches
<1>3. Tables!TypeOK'
  <2>1. alert' \in BOOLEAN
    <3>1. (kind \in {"detail", "pengguna"}) \in BOOLEAN
      OBVIOUS
    <3> QED BY <1>1, <3>1
  <2>2. loading' \in BOOLEAN /\ failed' \in BOOLEAN
    BY <1>1
  <2> QED BY <1>1, <1>2, <2>1, <2>2 DEF TablesInv, Tables!TypeOK, Tables!table
<1> QED BY <1>1, <1>2, <1>3
  DEF TablesInv, Tables!table, FetchIsOfDeps, SessionsFetchedOnce, EmptyIsCounted,
      BackFromPage, ActOfKind, PagesAreFull, RemovedIsGone, Tables!ListIsTheOneAsked,
      Tables!RemovedStaysUnlisted, Tables!Settled

\* An answer that is taken, whether it is displayed or moves the list to another
\* page, whether the effect is due or not.
LEMMA FetchAnsweredKeeps ==
  ASSUME TablesInv, Tables!FetchAnswered
  PROVE  TablesInv'
<1> DEFINE pages == Tables!TotalPages(fetch.total)
           move == Tables!MoveToValidPage(pages)
<1>1. /\ Tables!TypeOK /\ fetch.st = "ok" /\ fetch # Tables!NoFetch
      /\ deps \in Tables!Deps /\ alert \in BOOLEAN /\ stale \in BOOLEAN
      /\ fetch.asked \in Tables!Deps /\ fetch.rows \subseteq Tables!Items
      /\ fetch.on \subseteq Tables!Items /\ fetch.total \in 0..Last
  BY FetchShape DEF TablesInv, Tables!TypeOK, Tables!FetchAnswered
<1>2. /\ IF move /\ kind = "pengguna" THEN UNCHANGED <<shown, count, loading, failed>>
         ELSE /\ shown' = [rows |-> fetch.rows, on |-> fetch.on, asked |-> fetch.asked]
              /\ count' = [total |-> fetch.total, pages |-> pages]
              /\ loading' = FALSE /\ failed' = FALSE
      /\ deps' = IF move THEN [deps EXCEPT !.page = pages] ELSE deps
      /\ stale' = (stale \/ deps' # deps) /\ fetch' = Tables!NoFetch
      /\ alert' = (alert /\ kind # "detail") /\ ready' = TRUE
      /\ UNCHANGED <<kind, Tables!table, search, due, act, removed>>
  BY DEF Tables!FetchAnswered
<1>3. pages \in 1..(Last + 1)
  BY <1>1, PagesOfTotal
<1>4. move <=> kind \in {"audit-log", "pengguna"} /\ fetch.asked.page > pages
  BY DEF Tables!MoveToValidPage
<1>5. PICK d : d = [deps EXCEPT !.page = pages]
  OBVIOUS
<1>6. d \in Tables!Deps /\ d.page = pages /\ pages > 0
  BY <1>1, <1>3, <1>5, TablesAssumption DEF Tables!Deps
<1>7. /\ deps' \in Tables!Deps /\ (deps'.page > 0 \/ deps' = deps)
      /\ ~move => deps' = deps
  BY <1>1, <1>2, <1>5, <1>6
<1>8. stale' \in BOOLEAN /\ (~stale' => ~stale /\ deps' = deps)
  BY <1>1, <1>2
<1>9. ~stale' => ~move /\ fetch.asked = deps
  <2> SUFFICES ASSUME ~stale' PROVE ~move /\ fetch.asked = deps
    OBVIOUS
  <2>1. fetch.asked = deps
    BY <1>1, <1>8 DEF TablesInv, FetchIsOfDeps
  <2>2. move => d # deps
    <3> SUFFICES ASSUME move, d = deps PROVE FALSE
      OBVIOUS
    <3>1. deps.page > pages /\ deps.page = pages
      BY <1>4, <1>6, <2>1
    <3> HIDE DEF pages
    <3> QED BY <1>3, <3>1, TablesAssumption
  <2> QED BY <1>2, <1>5, <1>8, <2>1, <2>2
<1> HIDE DEF move, pages
<1>10. /\ \/ UNCHANGED <<shown, count, loading, failed>> /\ move /\ kind = "pengguna"
          \/ /\ shown' = [rows |-> fetch.rows, on |-> fetch.on, asked |-> fetch.asked]
             /\ count' = [total |-> fetch.total, pages |-> pages]
             /\ loading' = FALSE /\ failed' = FALSE
             /\ ~(move /\ kind = "pengguna")
  BY <1>2
<1>11. Tables!NoFetch.st = "none" /\ Tables!NoFetch \in Tables!Fetches
  BY DEF Tables!NoFetch, Tables!Fetches
<1>12. Tables!TypeOK'
  <2>1. shown' \in [rows : SUBSET Tables!Items, on : SUBSET Tables!Items, asked : Tables!Deps]
    BY <1>1, <1>10 DEF Tables!TypeOK
  <2>2. count' \in [total : 0..Last, pages : 1..(Last + 1)]
    BY <1>1, <1>3, <1>10 DEF Tables!TypeOK
  <2>3. {loading', alert', failed', ready', stale'} \subseteq BOOLEAN
    BY <1>1, <1>2, <1>8, <1>10 DEF Tables!TypeOK
  <2> QED BY <1>1, <1>2, <1>7, <1>11, <2>1, <2>2, <2>3 DEF Tables!TypeOK, Tables!table
<1>13. FetchIsOfDeps' /\ PagesAreFull' /\ RemovedIsGone'
  BY <1>2, <1>11 DEF TablesInv, FetchIsOfDeps, PagesAreFull, RemovedIsGone, Tables!table
<1>14. SessionsFetchedOnce'
  BY <1>2, <1>4, <1>7 DEF TablesInv, SessionsFetchedOnce
<1>15. BackFromPage' /\ ActOfKind'
  BY <1>2, <1>7 DEF TablesInv, BackFromPage, ActOfKind
<1>16. EmptyIsCounted'
  <2> SUFFICES ASSUME kind = "pengguna", ~move, fetch.rows = {} PROVE fetch.total = 0
    BY <1>2, <1>10 DEF TablesInv, EmptyIsCounted
  <2> QED BY <1>1, <1>4 DEF TablesInv, PagesAreFull, pages
<1>17. Tables!ListIsTheOneAsked'
  BY <1>8, <1>9, <1>10 DEF Tables!ListIsTheOneAsked, Tables!Settled
<1>18. Tables!RemovedStaysUnlisted'
  <2>1. CASE kind = "sesi"
    BY <1>1, <1>2, <1>10, <2>1 DEF TablesInv, Tables!RemovedStaysUnlisted, RemovedIsGone,
       SessionsFetchedOnce
  <2>2. CASE kind # "sesi" /\ stale'
    BY <1>2, <2>2 DEF Tables!RemovedStaysUnlisted, Tables!Settled
  <2>3. CASE kind # "sesi" /\ ~stale'
    BY <1>1, <1>2, <1>8, <1>9, <1>10, <2>3 DEF TablesInv, Tables!RemovedStaysUnlisted,
       RemovedIsGone
  <2> QED BY <2>1, <2>2, <2>3
<1> QED BY <1>12, <1>13, <1>14, <1>15, <1>16, <1>17, <1>18 DEF TablesInv

-----------------------------------------------------------------------------
(* The rows and their buttons.                                             *)

\* What neither the list nor its effect sees.
LEMMA BehindTable ==
  ASSUME TablesInv,
         UNCHANGED <<kind, search, due, deps, stale, fetch, shown, count, alert, ready, failed,
                     loading>>,
         rows' \subseteq Tables!Items, on' \subseteq rows', act' \in Tables!Acts,
         removed' \subseteq removed, removed' \cap rows' = {},
         BackFromPage', ActOfKind', kind = "sesi" /\ act' # Tables!Idle => fetch = Tables!NoFetch
  PROVE  TablesInv'
<1>1. Tables!TypeOK'
  BY DEF TablesInv, Tables!TypeOK
<1>2. FetchIsOfDeps' /\ SessionsFetchedOnce' /\ EmptyIsCounted'
  BY DEF TablesInv, FetchIsOfDeps, SessionsFetchedOnce, EmptyIsCounted
<1>3. PagesAreFull'
  <2>1. \A t : Tables!TotalPages(t)' = Tables!TotalPages(t)
    BY DEF Tables!TotalPages
  <2> QED BY <2>1 DEF TablesInv, PagesAreFull
<1>4. RemovedIsGone' /\ Tables!RemovedStaysUnlisted'
  BY DEF TablesInv, RemovedIsGone, Tables!RemovedStaysUnlisted, Tables!Settled
<1>5. Tables!ListIsTheOneAsked'
  BY DEF TablesInv, Tables!ListIsTheOneAsked, Tables!Settled
<1> QED BY <1>1, <1>2, <1>3, <1>4, <1>5 DEF TablesInv

LEMMA IdleActKeeps ==
  ASSUME TablesInv
  PROVE  /\ act' = Tables!Idle => BackFromPage' /\ ActOfKind' /\ act' \in Tables!Acts
         /\ UNCHANGED <<act, deps, kind>> => BackFromPage' /\ ActOfKind' /\ act' \in Tables!Acts
         /\ rows \subseteq Tables!Items /\ on \subseteq rows /\ removed \cap rows = {}
BY DEF TablesInv, Tables!TypeOK, BackFromPage, ActOfKind, Tables!Acts, RemovedIsGone

LEMMA RowsKeep ==
  ASSUME TablesInv, NEW i \in Tables!Items, Tables!RowAppears(i) \/ Tables!RowGoes(i)
  PROVE  TablesInv'
<1>1. UNCHANGED <<kind, search, due, deps, stale, fetch, shown, count, alert, ready, failed,
                  loading, act>>
  BY DEF Tables!RowAppears, Tables!RowGoes, Tables!list
<1>2. /\ rows' \subseteq Tables!Items /\ on' \subseteq rows' /\ removed' \subseteq removed
      /\ removed' \cap rows' = {}
  BY IdleActKeeps DEF Tables!RowAppears, Tables!RowGoes
<1>3. kind = "sesi" /\ act' # Tables!Idle => fetch = Tables!NoFetch
  BY <1>1 DEF TablesInv, SessionsFetchedOnce
<1> QED BY <1>1, <1>2, <1>3, IdleActKeeps, BehindTable

LEMMA ConfirmKeeps ==
  ASSUME TablesInv, NEW op \in {"revoke", "update", "delete", "disconnect"},
         NEW i \in Tables!Items, Tables!Confirm(op, i)
  PROVE  TablesInv'
<1>1. UNCHANGED <<kind, rows, on, search, due, deps, stale, fetch, shown, count, alert, ready,
                  failed, loading, removed>>
  BY DEF Tables!Confirm, Tables!list, Tables!table
<1>2. PICK a : /\ act' = a
               /\ a = [op |-> op, row |-> i, to |-> op = "update" /\ i \notin shown.on,
                       back |-> op = "revoke" /\ shown.rows = {i} /\ deps.page > 1,
                       total |-> IF op = "revoke" THEN count.total ELSE 0,
                       ans |-> "waiting"]
  BY DEF Tables!Confirm
<1>3. /\ count.total \in 0..Last /\ 0 \in 0..Last /\ deps.page \in Nat /\ kind \in Tables!Kinds
  BY TablesAssumption DEF TablesInv, Tables!TypeOK, Tables!Deps
<1>4. a \in Tables!Acts /\ a.op = op /\ (a.back => deps.page > 1)
  BY <1>2, <1>3 DEF Tables!Acts
<1>5. /\ op = "revoke" <=> kind = "detail"
      /\ op = "disconnect" <=> kind = "sesi"
      /\ shown.rows # {}
  BY <1>3 DEF Tables!Confirm, Tables!RowOps, Tables!RowClickable, Tables!Kinds
<1>6. BackFromPage' /\ ActOfKind'
  BY <1>1, <1>2, <1>3, <1>4, <1>5 DEF BackFromPage, ActOfKind
<1>7. kind = "sesi" => fetch = Tables!NoFetch
  BY <1>5 DEF TablesInv, SessionsFetchedOnce
<1> QED BY <1>1, <1>2, <1>4, <1>6, <1>7, IdleActKeeps, BehindTable

LEMMA ServeActKeeps ==
  ASSUME TablesInv, Tables!ServeAct
  PROVE  TablesInv'
<1>1. /\ act # Tables!Idle
      /\ act \in [op : {"revoke", "update", "delete", "disconnect"}, row : Tables!Items,
                  to : BOOLEAN, back : BOOLEAN, total : 0..Last,
                  ans : {"waiting", "ok", "error"}]
  BY ActShape DEF TablesInv, Tables!ServeAct, Tables!ServeRemoval, Tables!ServeUpdate,
     Tables!RefuseAct, Tables!Waiting
<1>2. PICK a \in {"ok", "error"} : Tables!AnswerAct(a)
  BY DEF Tables!ServeAct, Tables!ServeRemoval, Tables!ServeUpdate, Tables!RefuseAct
<1>3. UNCHANGED <<kind, search, due, deps, stale, fetch, shown, count, alert, ready, failed,
                  loading, removed>>
  BY <1>2 DEF Tables!AnswerAct, Tables!list
<1>4. PICK b : act' = b /\ b = [act EXCEPT !.ans = a]
  BY <1>2 DEF Tables!AnswerAct
<1>5. b \in Tables!Acts /\ b.op = act.op /\ b.back = act.back /\ b # Tables!Idle
  BY <1>1, <1>4 DEF Tables!Acts, Tables!Idle
<1>6. BackFromPage' /\ ActOfKind'
  BY <1>1, <1>3, <1>4, <1>5 DEF TablesInv, BackFromPage, ActOfKind
<1>7. rows' \subseteq rows /\ on' \subseteq rows'
  BY IdleActKeeps DEF Tables!ServeAct, Tables!ServeRemoval, Tables!ServeUpdate,
     Tables!RefuseAct, Tables!table
<1>8. kind = "sesi" => fetch = Tables!NoFetch
  BY <1>1 DEF TablesInv, SessionsFetchedOnce
<1> QED BY <1>3, <1>4, <1>5, <1>6, <1>7, <1>8, IdleActKeeps, BehindTable

\* A row that is taken out of what is displayed.
LEMMA UnlistedShape ==
  ASSUME TablesInv, NEW i, shown' = Tables!Unlisted(shown, i)
  PROVE  /\ shown' \in [rows : SUBSET Tables!Items, on : SUBSET Tables!Items,
                        asked : Tables!Deps]
         /\ shown'.rows = shown.rows \ {i} /\ shown'.asked = shown.asked
BY DEF Tables!Unlisted, TablesInv, Tables!TypeOK

LEMMA RevokedKeeps ==
  ASSUME TablesInv, Tables!AssignmentRevoked
  PROVE  TablesInv'
<1>1. /\ Tables!TypeOK /\ act # Tables!Idle /\ act.op = "revoke" /\ kind = "detail"
      /\ act.row \in Tables!Items /\ act.total \in 0..Last /\ deps \in Tables!Deps
      /\ count \in [total : 0..Last, pages : 1..(Last + 1)]
      /\ act.back => deps.page > 0
  BY ActShape DEF TablesInv, Tables!TypeOK, Tables!AssignmentRevoked, Tables!Ended,
     ActOfKind, BackFromPage
<1>2. /\ shown' = Tables!Unlisted(shown, act.row)
      /\ count' = [count EXCEPT !.total = IF act.total = 0 THEN 0 ELSE act.total - 1]
      /\ act' = Tables!Idle /\ removed' = removed \cup ({act.row} \ rows)
      /\ UNCHANGED <<kind, rows, on, search, due, alert, ready, failed>>
  BY DEF Tables!AssignmentRevoked, Tables!table
<1>3. count' \in [total : 0..Last, pages : 1..(Last + 1)]
  BY <1>1, <1>2, TablesAssumption
<1>4. Queued /\ loading' \in BOOLEAN
  <2>1. CASE act.back
    <3>1. PICK d : d = [deps EXCEPT !.page = deps.page - 1]
      OBVIOUS
    <3>2. d \in Tables!Deps /\ d # deps
      BY <1>1, <2>1, <3>1, TablesAssumption DEF Tables!Deps
    <3>3. Tables!Depend(d) /\ loading' = TRUE
      BY <2>1, <3>1 DEF Tables!AssignmentRevoked
    <3> QED BY <1>1, <3>2, <3>3, DependShape
  <2>2. CASE ~act.back
    BY <1>1, <2>2 DEF Tables!AssignmentRevoked, Tables!Reloaded, Tables!Reload, Queued,
       Tables!TypeOK
  <2> QED BY <2>1, <2>2
<1>5. deps' \in Tables!Deps /\ fetch' = fetch /\ stale' = TRUE
  BY <1>4 DEF Queued
<1>6. Tables!TypeOK'
  BY <1>1, <1>2, <1>3, <1>4, <1>5, UnlistedShape DEF Tables!TypeOK, Tables!Acts
<1>7. PagesAreFull'
  <2>1. \A t : Tables!TotalPages(t)' = Tables!TotalPages(t)
    BY DEF Tables!TotalPages
  <2> QED BY <1>2, <1>5, <2>1 DEF TablesInv, PagesAreFull
<1>8. FetchIsOfDeps' /\ SessionsFetchedOnce' /\ EmptyIsCounted'
  BY <1>1, <1>2, <1>5 DEF FetchIsOfDeps, SessionsFetchedOnce, EmptyIsCounted
<1>9. BackFromPage' /\ ActOfKind'
  BY <1>2 DEF BackFromPage, ActOfKind
<1>10. RemovedIsGone'
  BY <1>2, <1>5 DEF TablesInv, RemovedIsGone
<1>11. Tables!ListIsTheOneAsked' /\ Tables!RemovedStaysUnlisted'
  BY <1>1, <1>2, <1>5 DEF Tables!ListIsTheOneAsked, Tables!RemovedStaysUnlisted,
     Tables!Settled
<1> QED BY <1>6, <1>7, <1>8, <1>9, <1>10, <1>11 DEF TablesInv

LEMMA UserDeletedKeeps ==
  ASSUME TablesInv, Tables!UserDeleted
  PROVE  TablesInv'
<1>1. /\ Tables!TypeOK /\ act # Tables!Idle /\ act.op = "delete" /\ kind # "sesi"
      /\ deps \in Tables!Deps
  BY ActShape DEF TablesInv, Tables!TypeOK, Tables!UserDeleted, Tables!Ended, ActOfKind
<1>2. /\ loading' = TRUE /\ deps' = deps /\ fetch' = fetch /\ stale' = TRUE
      /\ act' = Tables!Idle
      /\ UNCHANGED <<kind, rows, on, search, due, shown, count, alert, ready, failed, removed>>
  BY DEF Tables!UserDeleted, Tables!Reload, Tables!table
<1>3. Tables!TypeOK'
  BY <1>1, <1>2 DEF Tables!TypeOK, Tables!Acts
<1>4. PagesAreFull'
  <2>1. \A t : Tables!TotalPages(t)' = Tables!TotalPages(t)
    BY DEF Tables!TotalPages
  <2> QED BY <1>2, <2>1 DEF TablesInv, PagesAreFull
<1> QED BY <1>1, <1>2, <1>3, <1>4
  DEF TablesInv, FetchIsOfDeps, SessionsFetchedOnce, EmptyIsCounted, BackFromPage,
      ActOfKind, RemovedIsGone, Tables!ListIsTheOneAsked, Tables!RemovedStaysUnlisted,
      Tables!Settled

LEMMA UserUpdatedKeeps ==
  ASSUME TablesInv, Tables!UserUpdated
  PROVE  TablesInv'
<1>1. /\ shown' = [shown EXCEPT !.on = IF act.to THEN shown.on \cup ({act.row} \cap shown.rows)
                                       ELSE shown.on \ {act.row}]
      /\ act' = Tables!Idle
      /\ UNCHANGED <<kind, rows, on, search, due, deps, stale, fetch, count, loading, alert, ready,
                     failed, removed>>
  BY DEF Tables!UserUpdated, Tables!table
<1>2. /\ shown' \in [rows : SUBSET Tables!Items, on : SUBSET Tables!Items, asked : Tables!Deps]
      /\ shown'.rows = shown.rows /\ shown'.asked = shown.asked
  BY <1>1 DEF TablesInv, Tables!TypeOK
<1>3. Tables!TypeOK'
  BY <1>1, <1>2 DEF TablesInv, Tables!TypeOK, Tables!Acts
<1>4. PagesAreFull'
  <2>1. \A t : Tables!TotalPages(t)' = Tables!TotalPages(t)
    BY DEF Tables!TotalPages
  <2> QED BY <1>1, <2>1 DEF TablesInv, PagesAreFull
<1> QED BY <1>1, <1>2, <1>3, <1>4
  DEF TablesInv, FetchIsOfDeps, SessionsFetchedOnce, EmptyIsCounted, BackFromPage,
      ActOfKind, RemovedIsGone, Tables!ListIsTheOneAsked, Tables!RemovedStaysUnlisted,
      Tables!Settled

LEMMA DisconnectedKeeps ==
  ASSUME TablesInv, Tables!Disconnected
  PROVE  TablesInv'
<1>1. /\ act # Tables!Idle /\ act.row \in Tables!Items /\ kind = "sesi"
      /\ fetch = Tables!NoFetch /\ fetch.st = "none"
  BY ActShape, FetchShape DEF TablesInv, Tables!Disconnected, Tables!Ended, ActOfKind,
     SessionsFetchedOnce
<1>2. /\ shown' = Tables!Unlisted(shown, act.row)
      /\ act' = Tables!Idle /\ removed' = removed \cup ({act.row} \ rows)
      /\ UNCHANGED <<kind, rows, on, search, due, deps, stale, fetch, count, loading, alert, ready,
                     failed>>
  BY DEF Tables!Disconnected, Tables!table
<1>3. Tables!TypeOK'
  BY <1>1, <1>2, UnlistedShape DEF TablesInv, Tables!TypeOK, Tables!Acts
<1>4. Tables!ListIsTheOneAsked'
  BY <1>1, <1>2, UnlistedShape DEF TablesInv, Tables!ListIsTheOneAsked, Tables!Settled
<1>5. RemovedIsGone' /\ Tables!RemovedStaysUnlisted'
  BY <1>1, <1>2, UnlistedShape DEF TablesInv, RemovedIsGone, Tables!RemovedStaysUnlisted
<1> QED BY <1>1, <1>2, <1>3, <1>4, <1>5
  DEF TablesInv, FetchIsOfDeps, SessionsFetchedOnce, EmptyIsCounted, BackFromPage,
      ActOfKind, PagesAreFull

LEMMA ActRefusedKeeps ==
  ASSUME TablesInv, Tables!ActRefused
  PROVE  TablesInv'
<1>1. /\ act' = Tables!Idle
      /\ UNCHANGED <<kind, rows, on, search, due, deps, stale, fetch, shown, count, alert, ready,
                     failed, loading, removed>>
  BY DEF Tables!ActRefused, Tables!list, Tables!table
<1> QED BY <1>1, IdleActKeeps, BehindTable

LEMMA TablesStep == TablesInv /\ Tables!Next => TablesInv'
BY ControlsKeep, ConfirmKeeps, ServeFetchKeeps, FetchAnsweredKeeps, FetchFailedKeeps,
   ServeActKeeps, RevokedKeeps, UserDeletedKeeps, UserUpdatedKeeps, DisconnectedKeeps,
   ActRefusedKeeps, RowsKeep
DEF Tables!Next, Tables!Pressed, Tables!ActAnswered
-----------------------------------------------------------------------------
(* The shell and the profile, step by step.                                *)

\* The object URLs, and the profile itself.
AvatarInv ==
  /\ pending \in Shell!URLs /\ crop \in Shell!URLs /\ made \in Shell!URLs
  /\ deleting \in BOOLEAN
  /\ revoked \subseteq 1..made /\ blobs \in Seq([pending : Shell!URLs, crop : Shell!URLs])
  /\ CapturedWasMade /\ RevokedByOne /\ Shell!ShownURLIsLive
AccountInv ==
  /\ page \in {"profil", "login"}
  /\ user \in Shell!Profiles \cup {Shell!Null} /\ account \in Shell!Profiles
  /\ logout \in {"none", "waiting", "ok", "error"}
  /\ session \in BOOLEAN /\ saving \in BOOLEAN /\ apart \in BOOLEAN
  /\ WireIsAccount /\ Shell!SavedProfileIsShown

LEMMA ShellParts ==
  ShellInv <=> AvatarInv /\ AccountInv /\ save \in [Slots -> Shell!Saves]
BY DEF ShellInv, AvatarInv, AccountInv, Shell!TypeOK

LEMMA ShellOfParts ==
  ASSUME AvatarInv', AccountInv', save' \in [Slots -> Shell!Saves]
  PROVE  ShellInv'
BY DEF ShellInv, AvatarInv, AccountInv, Shell!TypeOK

LEMMA InitShell == Shell!Init => ShellInv
<1> SUFFICES ASSUME Shell!Init PROVE ShellInv
  OBVIOUS
<1>1. 0 \in Shell!URLs /\ Shell!Idle \in Shell!Saves /\ Shell!Idle.st = "none"
  BY ProfileAssumption DEF Shell!URLs, Shell!Saves, Shell!Idle
<1>2. save \in [Slots -> Shell!Saves] /\ \A s \in Slots : save[s] = Shell!Idle
  BY <1>1 DEF Shell!Init
<1>3. blobs = <<>> /\ blobs \in Seq([pending : Shell!URLs, crop : Shell!URLs])
      /\ DOMAIN blobs = {}
  BY DEF Shell!Init
<1>4. AvatarInv
  <2>1. pending = 0 /\ crop = 0 /\ made = 0 /\ deleting = FALSE /\ revoked = {}
    BY DEF Shell!Init
  <2>2. CapturedWasMade /\ RevokedByOne /\ Shell!ShownURLIsLive
    BY <1>2, <1>3, <2>1 DEF CapturedWasMade, RevokedByOne, Shell!ShownURLIsLive
  <2> QED BY <1>1, <1>3, <2>1, <2>2 DEF AvatarInv
<1>5. AccountInv
  BY <1>1, <1>2
  DEF Shell!Init, AccountInv, WireIsAccount, Shell!OnTheWire, Shell!Requests,
      Shell!SavedProfileIsShown
<1> QED BY <1>2, <1>4, <1>5, ShellParts

\* A save that is under way.
LEMMA SaveShape ==
  ASSUME ShellInv, NEW s \in Slots, save[s] # Shell!Idle
  PROVE  save[s] \in [st : Shell!Requests \cup {"preload"}, ans : {"waiting", "ok", "error"},
                      user : Shell!Profiles \cup {Shell!Null}, pending : Shell!URLs,
                      deleting : BOOLEAN, name : Names, here : BOOLEAN]
BY ShellParts DEF Shell!Saves

LEMMA OnTheWireIsSave ==
  ASSUME ShellInv, NEW s \in Slots, save[s].st # "none"
  PROVE  save[s] # Shell!Idle
BY DEF Shell!Idle

\* Saves go on with the URL they captured, and belong to the page they did.
SavesOnward ==
  \A s \in Slots : save'[s] # Shell!Idle =>
    save[s] # Shell!Idle /\ save'[s].pending = save[s].pending /\ save'[s].here = save[s].here

LEMMA AvatarAsIs ==
  ASSUME ShellInv, UNCHANGED Shell!avatarState, SavesOnward
  PROVE  AvatarInv'
<1>1. AvatarInv
  BY ShellParts
<1>2. UNCHANGED <<pending, deleting, crop, blobs, made, revoked>>
  BY DEF Shell!avatarState
<1>3. CapturedWasMade' /\ RevokedByOne'
  BY <1>1, <1>2 DEF AvatarInv, CapturedWasMade, RevokedByOne, SavesOnward
<1> QED BY <1>1, <1>2, <1>3 DEF AvatarInv, Shell!ShownURLIsLive

LEMMA AccountAsIs ==
  ASSUME ShellInv, UNCHANGED <<page, user, account, session, logout, apart>>,
         saving' \in BOOLEAN,
         \A s \in Slots : save'[s].st = save[s].st /\ save'[s].ans = save[s].ans
                            /\ save'[s].user = save[s].user
  PROVE  AccountInv'
BY ShellParts DEF AccountInv, WireIsAccount, Shell!OnTheWire, Shell!SavedProfileIsShown

-----------------------------------------------------------------------------
(* Mounting, and the logout.                                               *)

LEMMA UnmountedSaves ==
  ASSUME ShellInv, Shell!Unmounted
  PROVE  /\ save' \in [Slots -> Shell!Saves]
         /\ \A s \in Slots : /\ save'[s].st = save[s].st /\ save'[s].ans = save[s].ans
                             /\ save'[s].user = save[s].user
                             /\ save'[s] # Shell!Idle =>
                                  save[s] # Shell!Idle /\ save'[s].pending = save[s].pending
<1>1. ASSUME NEW s \in Slots
      PROVE  /\ save'[s] \in Shell!Saves /\ save'[s].st = save[s].st
             /\ save'[s].ans = save[s].ans /\ save'[s].user = save[s].user
             /\ save'[s] # Shell!Idle =>
                  save[s] # Shell!Idle /\ save'[s].pending = save[s].pending
  <2>1. save'[s] = IF save[s] = Shell!Idle THEN Shell!Idle ELSE [save[s] EXCEPT !.here = FALSE]
    BY DEF Shell!Unmounted
  <2>2. CASE save[s] = Shell!Idle
    BY <2>1, <2>2 DEF Shell!Saves
  <2>3. CASE save[s] # Shell!Idle
    BY <2>1, <2>3, SaveShape DEF Shell!Saves
  <2> QED BY <2>2, <2>3
<1>2. save' = [s \in Slots |-> save'[s]]
  BY DEF Shell!Unmounted
<1> QED BY <1>1, <1>2

LEMMA UnmountedAvatar ==
  ASSUME ShellInv, Shell!Unmounted
  PROVE  AvatarInv'
<1>1. AvatarInv
  BY ShellParts
<1>2. /\ pending' = 0 /\ deleting' = FALSE /\ crop' = 0 /\ blobs' = <<>>
      /\ UNCHANGED <<made, revoked>>
  BY DEF Shell!Unmounted
<1>3. 0 \in Shell!URLs /\ made \in Nat /\ 0 \notin revoked
  BY <1>1, ProfileAssumption DEF AvatarInv, Shell!URLs
<1>4. DOMAIN blobs' = {} /\ blobs' \in Seq([pending : Shell!URLs, crop : Shell!URLs])
  BY <1>2
<1>5. CapturedWasMade'
  BY <1>1, <1>2, <1>3, <1>4, UnmountedSaves DEF AvatarInv, CapturedWasMade
<1>6. RevokedByOne'
  BY <1>1, <1>2, UnmountedSaves DEF RevokedByOne
<1> QED BY <1>1, <1>2, <1>3, <1>4, <1>5, <1>6 DEF AvatarInv, Shell!ShownURLIsLive

LEMMA MountingKeeps ==
  ASSUME ShellInv,
         \/ Shell!Revisit \/ Shell!Logout \/ Shell!ServeLogout \/ Shell!LogoutAnswered
         \/ Shell!SignIn
  PROVE  ShellInv'
<1>1. AvatarInv /\ AccountInv /\ save \in [Slots -> Shell!Saves]
  BY ShellParts
<1>2. UNCHANGED save => SavesOnward
  BY DEF SavesOnward
<1>3. CASE Shell!Revisit
  <2>1. Shell!Unmounted /\ saving' = FALSE
        /\ UNCHANGED <<page, user, account, session, logout, apart>>
    BY <1>3 DEF Shell!Revisit, Shell!Unmounted
  <2> QED BY <2>1, UnmountedSaves, UnmountedAvatar, AccountAsIs, ShellOfParts
<1>4. CASE Shell!Logout
  <2>1. AvatarInv'
    BY <1>2, <1>4, AvatarAsIs DEF Shell!Logout
  <2>2. AccountInv'
    BY <1>1, <1>4 DEF Shell!Logout, AccountInv, WireIsAccount, Shell!OnTheWire,
       Shell!SavedProfileIsShown
  <2> QED BY <1>1, <1>4, <2>1, <2>2, ShellOfParts DEF Shell!Logout
<1>5. CASE Shell!ServeLogout
  <2>1. AvatarInv'
    BY <1>2, <1>5, AvatarAsIs DEF Shell!ServeLogout
  <2>2. AccountInv'
    BY <1>1, <1>5 DEF Shell!ServeLogout, AccountInv, WireIsAccount, Shell!OnTheWire,
       Shell!SavedProfileIsShown
  <2> QED BY <1>1, <1>5, <2>1, <2>2, ShellOfParts DEF Shell!ServeLogout
<1>6. CASE Shell!LogoutAnswered
  <2>1. /\ Shell!Unmounted /\ saving' = FALSE /\ user' = Shell!Null /\ page' = "login"
        /\ UNCHANGED <<account, session, logout, apart>>
    BY <1>6 DEF Shell!LogoutAnswered, Shell!Unmounted
  <2>2. AccountInv'
    BY <1>1, <2>1, UnmountedSaves DEF AccountInv, WireIsAccount, Shell!OnTheWire,
       Shell!SavedProfileIsShown
  <2> QED BY <2>1, <2>2, UnmountedSaves, UnmountedAvatar, ShellOfParts
<1>7. CASE Shell!SignIn
  <2>1. AvatarInv'
    BY <1>2, <1>7, AvatarAsIs DEF Shell!SignIn
  <2>2. AccountInv'
    BY <1>1, <1>7 DEF Shell!SignIn, AccountInv, WireIsAccount, Shell!OnTheWire,
       Shell!SavedProfileIsShown
  <2> QED BY <1>1, <1>7, <2>1, <2>2, ShellOfParts DEF Shell!SignIn
<1> QED BY <1>3, <1>4, <1>5, <1>6, <1>7
-----------------------------------------------------------------------------
(* The avatar before the save.                                             *)

\* What these steps leave alone.
LEMMA AvatarOnly ==
  ASSUME ShellInv, UNCHANGED <<page, user, account, session, logout, saving, save, apart>>,
         AvatarInv'
  PROVE  ShellInv'
<1>1. AccountInv'
  BY ShellParts, AccountAsIs DEF AccountInv
<1> QED BY <1>1, ShellParts, ShellOfParts

LEMMA AvatarFacts ==
  ASSUME ShellInv
  PROVE  /\ AvatarInv /\ made \in Nat /\ pending \in Nat /\ crop \in Nat /\ 0 \notin revoked
         /\ 0 \in Shell!URLs /\ made + 1 \notin revoked
         /\ \A i \in DOMAIN blobs : blobs[i].pending \in Nat /\ blobs[i].crop \in Nat
         /\ \A s \in Slots : save[s] # Shell!Idle => save[s].pending \in Nat
<1>1. AvatarInv
  BY ShellParts
<1>2. \A i \in DOMAIN blobs : blobs[i] \in [pending : Shell!URLs, crop : Shell!URLs]
  <2> DEFINE B == [pending : Shell!URLs, crop : Shell!URLs]
  <2>1. blobs \in Seq(B)
    BY <1>1 DEF AvatarInv
  <2> HIDE DEF B
  <2>2. \A i \in DOMAIN blobs : blobs[i] \in B
    BY <2>1
  <2> QED BY <2>2 DEF B
<1>3. \A s \in Slots : save[s] # Shell!Idle => save[s].pending \in Nat
  BY SaveShape, ProfileAssumption DEF Shell!URLs
<1> QED BY <1>1, <1>2, <1>3, ProfileAssumption DEF AvatarInv, Shell!URLs

LEMMA PickFileKeeps ==
  ASSUME ShellInv, Shell!PickFile
  PROVE  ShellInv'
<1>1. /\ made < MaxURLs /\ made' = made + 1 /\ crop' = made + 1
      /\ UNCHANGED <<page, user, account, session, logout, saving, save, apart>>
      /\ UNCHANGED <<pending, deleting, blobs, revoked>>
  BY DEF Shell!PickFile
<1>2. made' \in Shell!URLs /\ crop' \in Shell!URLs /\ 1..made \subseteq 1..made'
  BY <1>1, AvatarFacts, ProfileAssumption DEF Shell!URLs
<1>3. CapturedWasMade'
  BY <1>1, AvatarFacts DEF AvatarInv, CapturedWasMade
<1>4. RevokedByOne'
  BY <1>1, AvatarFacts DEF AvatarInv, CapturedWasMade, RevokedByOne
<1>5. AvatarInv'
  BY <1>1, <1>2, <1>3, <1>4, AvatarFacts DEF AvatarInv, Shell!ShownURLIsLive
<1> QED BY <1>1, <1>5, AvatarOnly

LEMMA ApplyKeeps ==
  ASSUME ShellInv, Shell!Apply
  PROVE  ShellInv'
<1>1. PICK b : b = [pending |-> pending, crop |-> crop] /\ blobs' = Append(blobs, b)
  BY DEF Shell!Apply
<1>2. /\ UNCHANGED <<page, user, account, session, logout, saving, save, apart>>
      /\ UNCHANGED <<pending, deleting, crop, made, revoked>>
  BY DEF Shell!Apply
<1>3. /\ b \in [pending : Shell!URLs, crop : Shell!URLs]
      /\ blobs \in Seq([pending : Shell!URLs, crop : Shell!URLs])
      /\ b.pending <= made /\ b.crop <= made
  BY <1>1, AvatarFacts DEF AvatarInv, CapturedWasMade
<1>4. /\ blobs' \in Seq([pending : Shell!URLs, crop : Shell!URLs])
      /\ \A i \in DOMAIN blobs' : blobs'[i] = b \/ (i \in DOMAIN blobs /\ blobs'[i] = blobs[i])
  BY <1>1, <1>3
<1>5. CapturedWasMade' /\ RevokedByOne'
  BY <1>2, <1>3, <1>4, AvatarFacts DEF AvatarInv, CapturedWasMade, RevokedByOne
<1>6. AvatarInv'
  BY <1>2, <1>4, <1>5, AvatarFacts DEF AvatarInv, Shell!ShownURLIsLive
<1> QED BY <1>2, <1>6, AvatarOnly

LEMMA CroppedKeeps ==
  ASSUME ShellInv, Shell!Cropped
  PROVE  ShellInv'
<1>1. /\ blobs # <<>> /\ made < MaxURLs /\ made' = made + 1 /\ pending' = made + 1
      /\ Shell!Revoke({Head(blobs).pending, Head(blobs).crop})
      /\ deleting' = FALSE /\ crop' = 0 /\ blobs' = Tail(blobs)
      /\ UNCHANGED <<page, user, account, session, logout, saving, save, apart>>
  BY DEF Shell!Cropped
<1>2. made' \in Shell!URLs /\ pending' \in Shell!URLs /\ 1..made \subseteq 1..made'
  BY <1>1, AvatarFacts, ProfileAssumption DEF Shell!URLs
<1>3. /\ blobs \in Seq([pending : Shell!URLs, crop : Shell!URLs])
      /\ 1 \in DOMAIN blobs /\ Head(blobs) = blobs[1]
      /\ blobs' \in Seq([pending : Shell!URLs, crop : Shell!URLs])
      /\ \A i \in DOMAIN blobs' : i + 1 \in DOMAIN blobs /\ blobs'[i] = blobs[i + 1]
  BY <1>1, AvatarFacts DEF AvatarInv
<1>4. /\ Head(blobs).pending \in Nat /\ Head(blobs).crop \in Nat
      /\ Head(blobs).pending <= made /\ Head(blobs).crop <= made
  BY <1>3, AvatarFacts DEF AvatarInv, CapturedWasMade
<1>5. revoked' \subseteq 1..made /\ made + 1 \notin revoked' /\ 0 \notin revoked'
  BY <1>1, <1>4, AvatarFacts DEF AvatarInv, Shell!Revoke
<1>6. CapturedWasMade'
  BY <1>1, <1>3, AvatarFacts DEF AvatarInv, CapturedWasMade
<1>7. RevokedByOne'
  BY <1>1, AvatarFacts DEF AvatarInv, CapturedWasMade, RevokedByOne
<1>8. AvatarInv'
  BY <1>1, <1>2, <1>3, <1>5, <1>6, <1>7, AvatarFacts DEF AvatarInv, Shell!ShownURLIsLive
<1> QED BY <1>1, <1>8, AvatarOnly

LEMMA CancelKeeps ==
  ASSUME ShellInv, Shell!CropCancelled \/ Shell!MarkDelete \/ Shell!CancelChanges
  PROVE  ShellInv'
<1>1. /\ UNCHANGED <<page, user, account, session, logout, saving, save, apart>>
      /\ UNCHANGED <<blobs, made>>
  BY DEF Shell!CropCancelled, Shell!MarkDelete, Shell!CancelChanges, Shell!DropPending
<1>2. \/ /\ pending' = pending /\ crop' = 0 /\ Shell!Revoke({crop}) /\ deleting' = deleting
      \/ /\ pending' = 0 /\ crop' = crop /\ crop = 0 /\ Shell!Revoke({pending})
         /\ deleting' \in BOOLEAN
  BY DEF Shell!CropCancelled, Shell!MarkDelete, Shell!CancelChanges, Shell!DropPending,
     Shell!Clickable
<1>3. revoked' \subseteq 1..made /\ {pending', crop'} \cap revoked' = {}
  BY <1>2, AvatarFacts
  DEF AvatarInv, CapturedWasMade, RevokedByOne, Shell!Revoke, Shell!ShownURLIsLive
<1>4. CapturedWasMade' /\ RevokedByOne'
  BY <1>1, <1>2, AvatarFacts DEF AvatarInv, CapturedWasMade, RevokedByOne
<1>5. AvatarInv'
  BY <1>1, <1>2, <1>3, <1>4, AvatarFacts DEF AvatarInv, Shell!ShownURLIsLive
<1> QED BY <1>1, <1>5, AvatarOnly
-----------------------------------------------------------------------------
(* The saves.                                                              *)

LEMMA SaveKeeps ==
  ASSUME ShellInv, NEW s \in Slots, NEW n \in Names, Shell!Save(s, n)
  PROVE  ShellInv'
<1>1. PICK x : /\ x = [st |-> Shell!FirstRequest, ans |-> "waiting", user |-> Shell!Null,
                       pending |-> pending, deleting |-> deleting, name |-> n, here |-> TRUE]
               /\ save' = [save EXCEPT ![s] = x]
  BY DEF Shell!Save
<1>2. /\ crop = 0 /\ save[s] = Shell!Idle /\ saving' = TRUE
      /\ apart' = \E t \in Slots : Shell!OnTheWire(t)
      /\ UNCHANGED <<page, user, account, session, logout, Shell!avatarState>>
  BY DEF Shell!Save, Shell!Clickable
<1>3. /\ x \in Shell!Saves /\ x # Shell!Idle /\ x.st \in Shell!Requests /\ x.ans = "waiting"
      /\ x.pending = pending /\ x.here = TRUE
  BY <1>1, AvatarFacts DEF AvatarInv, Shell!FirstRequest, Shell!Requests, Shell!Saves, Shell!Idle
<1>4. save \in [Slots -> Shell!Saves]
  BY ShellParts
<1>5. save' \in [Slots -> Shell!Saves] /\ save'[s] = x /\ \A t \in Slots \ {s} : save'[t] = save[t]
  BY <1>1, <1>3, <1>4
<1>6. AvatarInv'
  <2>1. UNCHANGED <<pending, deleting, crop, blobs, made, revoked>>
    BY <1>2 DEF Shell!avatarState
  <2>2. CapturedWasMade'
    BY <1>3, <1>5, <2>1, AvatarFacts DEF AvatarInv, CapturedWasMade
  <2>3. RevokedByOne'
    BY <1>2, <1>3, <1>5, <2>1, AvatarFacts DEF AvatarInv, RevokedByOne
  <2> QED BY <2>1, <2>2, <2>3, AvatarFacts DEF AvatarInv, Shell!ShownURLIsLive
<1>7. AccountInv'
  <2>1. AccountInv
    BY ShellParts
  <2>2. WireIsAccount'
    BY <1>2, <1>3, <1>5 DEF WireIsAccount, Shell!OnTheWire
  <2>3. Shell!SavedProfileIsShown'
    BY <1>3, <1>5 DEF Shell!SavedProfileIsShown, Shell!OnTheWire
  <2> QED BY <1>2, <2>1, <2>2, <2>3 DEF AccountInv
<1> QED BY <1>5, <1>6, <1>7, ShellOfParts

\* One slot's save goes on, or ends.
LEMMA SlotShape ==
  ASSUME ShellInv, NEW s \in Slots, NEW x \in Shell!Saves, save' = [save EXCEPT ![s] = x]
  PROVE  /\ save' \in [Slots -> Shell!Saves] /\ save'[s] = x
         /\ \A t \in Slots \ {s} : save'[t] = save[t]
BY ShellParts

LEMMA ServedSave ==
  ASSUME ShellInv, NEW s \in Slots, Shell!Serve(s)
  PROVE  ShellInv'
<1>1. /\ Shell!OnTheWire(s) /\ save[s] # Shell!Idle
      /\ UNCHANGED <<page, user, session, logout, saving, apart>>
      /\ UNCHANGED Shell!avatarState
  BY OnTheWireIsSave DEF Shell!Serve, Shell!OnTheWire, Shell!Requests
<1>2. AccountInv /\ save \in [Slots -> Shell!Saves]
  BY ShellParts
<1>3. account' \in Shell!Profiles
  BY <1>1, <1>2, SaveShape
  DEF Shell!Serve, Shell!Updated, AccountInv, Shell!Profiles
<1>4. PICK x : /\ save' = [save EXCEPT ![s] = x]
               /\ \/ x = [save[s] EXCEPT !.ans = "ok", !.user = account']
                  \/ x = [save[s] EXCEPT !.ans = "error"] /\ account' = account
                  \/ x = [save[s] EXCEPT !.ans = "error"]
  BY <1>2 DEF Shell!Serve
<1>5. /\ x \in Shell!Saves /\ x # Shell!Idle /\ x.st = save[s].st /\ x.pending = save[s].pending
      /\ x.here = save[s].here
      /\ x.ans = "ok" => x.user = account'
  BY <1>1, <1>3, <1>4, SaveShape DEF Shell!Saves, Shell!Idle
<1>6. /\ save' \in [Slots -> Shell!Saves] /\ save'[s] = x
      /\ \A t \in Slots \ {s} : save'[t] = save[t]
  BY <1>4, <1>5, SlotShape
<1>7. AvatarInv'
  BY <1>1, <1>5, <1>6, AvatarAsIs DEF SavesOnward
<1>8. WireIsAccount'
  BY <1>1, <1>2, <1>5, <1>6 DEF AccountInv, WireIsAccount, Shell!OnTheWire
<1>9. Shell!SavedProfileIsShown'
  BY <1>1, <1>5, <1>6 DEF Shell!SavedProfileIsShown, Shell!OnTheWire
<1>10. AccountInv'
  BY <1>1, <1>2, <1>3, <1>8, <1>9 DEF AccountInv
<1> QED BY <1>6, <1>7, <1>10, ShellOfParts

LEMMA RequestDoneKeeps ==
  ASSUME ShellInv, NEW s \in Slots, Shell!RequestDone(s)
  PROVE  ShellInv'
<1>1. /\ save[s].st \in {"avatar", "delete"} /\ save[s] # Shell!Idle
      /\ UNCHANGED <<page, user, account, session, logout, saving, apart>>
      /\ UNCHANGED Shell!avatarState
  BY OnTheWireIsSave DEF Shell!RequestDone
<1>2. AccountInv /\ save \in [Slots -> Shell!Saves]
  BY ShellParts
<1>3. PICK x : /\ save' = [save EXCEPT ![s] = x]
               /\ x = [save[s] EXCEPT !.st = Shell!NextRequest(save[s]), !.ans = "waiting",
                                      !.user = Shell!Null]
  BY <1>2 DEF Shell!RequestDone
<1>4. /\ x \in Shell!Saves /\ x # Shell!Idle /\ x.st \in Shell!Requests
      /\ x.pending = save[s].pending /\ x.here = save[s].here /\ x.ans = "waiting"
  BY <1>1, <1>3, SaveShape DEF Shell!Saves, Shell!Idle, Shell!NextRequest, Shell!Requests
<1>5. /\ save' \in [Slots -> Shell!Saves] /\ save'[s] = x
      /\ \A t \in Slots \ {s} : save'[t] = save[t]
  BY <1>3, <1>4, SlotShape
<1>6. AvatarInv'
  BY <1>1, <1>4, <1>5, AvatarAsIs DEF SavesOnward
<1>7. WireIsAccount'
  BY <1>1, <1>2, <1>4, <1>5 DEF AccountInv, WireIsAccount, Shell!OnTheWire, Shell!Requests
<1>8. Shell!SavedProfileIsShown'
  BY <1>1, <1>4, <1>5 DEF Shell!SavedProfileIsShown, Shell!OnTheWire
<1>9. AccountInv'
  BY <1>1, <1>2, <1>7, <1>8 DEF AccountInv
<1> QED BY <1>5, <1>6, <1>9, ShellOfParts

\* The end of a save: the URL it captured is revoked, and displayed by no one.
LEMMA ClearedAvatar ==
  ASSUME ShellInv, NEW s \in Slots, save[s] # Shell!Idle, Shell!ClearPending(save[s]),
         UNCHANGED <<crop, blobs, made>>, save' = [save EXCEPT ![s] = Shell!Idle]
  PROVE  AvatarInv' /\ save' \in [Slots -> Shell!Saves]
<1>1. save'[s] = Shell!Idle /\ \A t \in Slots \ {s} : save'[t] = save[t]
  BY ShellParts
<1>2. /\ revoked' = revoked \cup ({save[s].pending} \ {0})
      /\ IF save[s].here THEN pending' = 0 /\ deleting' = FALSE
         ELSE pending' = pending /\ deleting' = deleting
  BY DEF Shell!ClearPending, Shell!Revoke
<1>3. /\ save[s].pending \in Nat /\ save[s].pending <= made
      /\ save[s].pending # 0 => save[s].pending # crop
                                 /\ (~save[s].here => save[s].pending # pending)
  BY AvatarFacts DEF AvatarInv, CapturedWasMade, RevokedByOne
<1>4. revoked' \subseteq 1..made /\ {pending', crop'} \cap revoked' = {}
  BY <1>2, <1>3, AvatarFacts DEF AvatarInv, Shell!ShownURLIsLive
<1>5. CapturedWasMade' /\ RevokedByOne'
  BY <1>1, <1>2, AvatarFacts DEF AvatarInv, CapturedWasMade, RevokedByOne
<1>6. save' \in [Slots -> Shell!Saves]
  BY ShellParts DEF Shell!Saves
<1>7. pending' \in Shell!URLs /\ deleting' \in BOOLEAN
  BY <1>2, AvatarFacts DEF AvatarInv
<1> QED BY <1>2, <1>4, <1>5, <1>6, <1>7, AvatarFacts DEF AvatarInv, Shell!ShownURLIsLive

LEMMA SavedKeeps ==
  ASSUME ShellInv, NEW s \in Slots, Shell!Saved(s)
  PROVE  ShellInv'
<1>1. /\ save[s].st = "patch" /\ save[s].ans = "ok" /\ save[s] # Shell!Idle
      /\ user' = save[s].user /\ saving' = (saving /\ ~save[s].here)
      /\ UNCHANGED <<page, account, session, logout, crop, blobs, made, apart>>
      /\ \/ /\ save' = [save EXCEPT ![s].st = "preload", ![s].ans = "waiting",
                                    ![s].user = Shell!Null]
            /\ UNCHANGED <<pending, deleting, revoked>>
         \/ save' = [save EXCEPT ![s] = Shell!Idle] /\ Shell!ClearPending(save[s])
  BY OnTheWireIsSave DEF Shell!Saved, Shell!SetUser
<1>2. AccountInv /\ save \in [Slots -> Shell!Saves]
  BY ShellParts
<1>3. AvatarInv' /\ save' \in [Slots -> Shell!Saves] /\ save'[s].st \in {"none", "preload"}
      /\ \A t \in Slots \ {s} : save'[t] = save[t]
  <2>1. CASE /\ save' = [save EXCEPT ![s].st = "preload", ![s].ans = "waiting",
                                     ![s].user = Shell!Null]
             /\ UNCHANGED <<pending, deleting, revoked>>
    <3>1. PICK x : /\ save' = [save EXCEPT ![s] = x]
                   /\ x = [save[s] EXCEPT !.st = "preload", !.ans = "waiting",
                                          !.user = Shell!Null]
      BY <1>2, <2>1
    <3>2. /\ x \in Shell!Saves /\ x # Shell!Idle /\ x.st = "preload"
          /\ x.pending = save[s].pending /\ x.here = save[s].here
      BY <1>1, <3>1, SaveShape DEF Shell!Saves, Shell!Idle
    <3>3. /\ save' \in [Slots -> Shell!Saves] /\ save'[s] = x
          /\ \A t \in Slots \ {s} : save'[t] = save[t]
      BY <3>1, <3>2, SlotShape
    <3> QED BY <1>1, <2>1, <3>2, <3>3, AvatarAsIs DEF SavesOnward, Shell!avatarState
  <2>2. CASE save' = [save EXCEPT ![s] = Shell!Idle] /\ Shell!ClearPending(save[s])
    BY <1>1, <1>2, <2>2, ClearedAvatar DEF Shell!Idle
  <2> QED BY <1>1, <2>1, <2>2
<1>4. save[s].user \in Shell!Profiles \cup {Shell!Null} /\ save[s].here \in BOOLEAN
  BY <1>1, SaveShape
<1>5. ~Shell!OnTheWire(s)' /\ \A t \in Slots \ {s} : Shell!OnTheWire(t)' <=> Shell!OnTheWire(t)
  BY <1>3 DEF Shell!OnTheWire, Shell!Requests
<1>6. Shell!OnTheWire(s)
  BY <1>1 DEF Shell!OnTheWire, Shell!Requests
<1>7. WireIsAccount'
  BY <1>1, <1>2, <1>3, <1>5 DEF AccountInv, WireIsAccount
<1>8. Shell!SavedProfileIsShown'
  BY <1>1, <1>2, <1>6 DEF AccountInv, WireIsAccount, Shell!SavedProfileIsShown
<1>9. AccountInv'
  BY <1>1, <1>2, <1>4, <1>7, <1>8 DEF AccountInv
<1> QED BY <1>3, <1>9, ShellOfParts

LEMMA PreloadedKeeps ==
  ASSUME ShellInv, NEW s \in Slots, Shell!Preloaded(s)
  PROVE  ShellInv'
<1>1. /\ save[s].st = "preload" /\ save[s] # Shell!Idle /\ Shell!ClearPending(save[s])
      /\ save' = [save EXCEPT ![s] = Shell!Idle]
      /\ UNCHANGED <<page, user, account, session, logout, saving, crop, blobs, made, apart>>
  BY OnTheWireIsSave DEF Shell!Preloaded
<1>2. AccountInv /\ save \in [Slots -> Shell!Saves]
  BY ShellParts
<1>3. AvatarInv' /\ save' \in [Slots -> Shell!Saves]
  BY <1>1, ClearedAvatar
<1>4. save'[s].st = "none" /\ \A t \in Slots \ {s} : save'[t] = save[t]
  BY <1>1, <1>2 DEF Shell!Idle
<1>5. \A t \in Slots : Shell!OnTheWire(t)' <=> Shell!OnTheWire(t)
  BY <1>1, <1>4 DEF Shell!OnTheWire, Shell!Requests
<1>6. \A t \in Slots : Shell!OnTheWire(t) => save'[t] = save[t]
  BY <1>1, <1>4 DEF Shell!OnTheWire, Shell!Requests
<1>7. WireIsAccount'
  BY <1>1, <1>2, <1>5, <1>6 DEF AccountInv, WireIsAccount
<1>8. Shell!SavedProfileIsShown'
  BY <1>1, <1>2, <1>5 DEF AccountInv, Shell!SavedProfileIsShown
<1>9. AccountInv'
  BY <1>1, <1>2, <1>7, <1>8 DEF AccountInv
<1> QED BY <1>3, <1>9, ShellOfParts

LEMMA SaveFailedKeeps ==
  ASSUME ShellInv, NEW s \in Slots, Shell!SaveFailed(s)
  PROVE  ShellInv'
<1>1. /\ save[s] # Shell!Idle /\ saving' = (saving /\ ~save[s].here) /\ apart' = TRUE
      /\ save' = [save EXCEPT ![s] = Shell!Idle]
      /\ UNCHANGED <<page, user, account, session, logout>>
      /\ UNCHANGED Shell!avatarState
  BY OnTheWireIsSave DEF Shell!SaveFailed, Shell!OnTheWire, Shell!Requests
<1>2. AccountInv /\ save \in [Slots -> Shell!Saves]
  BY ShellParts
<1>3. save' \in [Slots -> Shell!Saves] /\ SavesOnward
  BY <1>1, <1>2 DEF SavesOnward, Shell!Saves
<1>4. AvatarInv'
  BY <1>1, <1>3, AvatarAsIs
<1>5. AccountInv'
  BY <1>1, <1>2, SaveShape DEF AccountInv, WireIsAccount, Shell!SavedProfileIsShown
<1> QED BY <1>3, <1>4, <1>5, ShellOfParts

LEMMA ShellStep == ShellInv /\ Shell!Next => ShellInv'
BY MountingKeeps, PickFileKeeps, ApplyKeeps, CroppedKeeps, CancelKeeps, SaveKeeps,
   ServedSave, RequestDoneKeeps, SavedKeeps, PreloadedKeeps, SaveFailedKeeps
DEF Shell!Next, Shell!Pressed, Shell!SaveStep
-----------------------------------------------------------------------------
(* A visit.                                                                *)

LEMMA StutterCards == ASSUME CardsInv, UNCHANGED cards PROVE CardsInv'
<1>1. UNCHANGED <<row, gone, listed, secret, busy, attended, generation, dialog, load, calls>>
  BY DEF cards
<1>2. Cards!TypeOK'
  BY <1>1 DEF CardsInv, Cards!TypeOK
<1>3. \A k \in calls' : CallInv(k)'
  BY <1>1, QuietCall DEF CardsInv, Cards!backend
<1> QED BY <1>1, <1>2, <1>3 DEF CardsInv, DialogKnown, LoadFollows, Follows,
   Cards!NothingShownUnattended, Cards!CanRetainClientSecret, Cards!CardsFollowRows

LEMMA StutterDialog == ASSUME DialogInv, UNCHANGED dialogs PROVE DialogInv'
BY DEF dialogs, DialogInv, Access!TypeOK, UserKnown, LookupIsOfField, SavedOnce,
   Access!CandidateWasTyped, Access!OneSaveInFlight

LEMMA StutterTables == ASSUME TablesInv, UNCHANGED tables PROVE TablesInv'
<1>1. /\ UNCHANGED <<kind, rows, on, search, due, deps, stale, fetch, shown, count>>
      /\ UNCHANGED <<loading, alert, ready, act, failed, removed>>
  BY DEF tables
<1>2. Tables!TypeOK'
  BY <1>1 DEF TablesInv, Tables!TypeOK
<1>3. PagesAreFull'
  <2>1. \A t : Tables!TotalPages(t)' = Tables!TotalPages(t)
    BY DEF Tables!TotalPages
  <2> QED BY <1>1, <2>1 DEF TablesInv, PagesAreFull
<1> QED BY <1>1, <1>2, <1>3
  DEF TablesInv, FetchIsOfDeps, SessionsFetchedOnce, EmptyIsCounted, BackFromPage,
      ActOfKind, RemovedIsGone, Tables!ListIsTheOneAsked, Tables!RemovedStaysUnlisted,
      Tables!Settled

LEMMA StutterShell == ASSUME ShellInv, UNCHANGED shell PROVE ShellInv'
<1>1. /\ UNCHANGED <<page, user, account, session, logout, saving, save, apart>>
      /\ UNCHANGED Shell!avatarState
  BY DEF shell, Shell!avatarState
<1>2. AvatarInv'
  BY <1>1, AvatarAsIs DEF SavesOnward
<1> QED BY <1>1, <1>2, AvatarOnly

LEMMA InitHolds == Init => IInv
BY InitCards, InitDialog, InitTables, InitShell DEF Init, IInv

LEMMA StepHolds == IInv /\ [Next]_vars => IInv'
<1> SUFFICES ASSUME IInv, [Next]_vars PROVE IInv'
  OBVIOUS
<1>1. CASE visit = "cards" /\ Cards!Next /\ UNCHANGED <<visit, dialogs, tables, shell>>
  <2>1. CardsInv' /\ visit' = "cards"
    BY <1>1, CardsStep DEF IInv
  <2> QED BY <2>1 DEF IInv
<1>2. CASE visit = "dialog" /\ Access!Next /\ UNCHANGED <<visit, cards, tables, shell>>
  <2>1. DialogInv' /\ visit' = "dialog"
    BY <1>2, DialogStep DEF IInv
  <2> QED BY <2>1 DEF IInv
<1>3. CASE visit = "tables" /\ Tables!Next /\ UNCHANGED <<visit, cards, dialogs, shell>>
  <2>1. TablesInv' /\ visit' = "tables"
    BY <1>3, TablesStep DEF IInv
  <2> QED BY <2>1 DEF IInv
<1>4. CASE visit = "shell" /\ Shell!Next /\ UNCHANGED <<visit, cards, dialogs, tables>>
  <2>1. ShellInv' /\ visit' = "shell"
    BY <1>4, ShellStep DEF IInv
  <2> QED BY <2>1 DEF IInv
<1>5. CASE UNCHANGED vars
  <2>1. UNCHANGED <<visit, cards, dialogs, tables, shell>>
    BY <1>5 DEF vars
  <2> QED BY <2>1, StutterCards, StutterDialog, StutterTables, StutterShell DEF IInv
<1> QED BY <1>1, <1>2, <1>3, <1>4, <1>5 DEF Next

LEMMA InvariantHolds == Spec => []IInv
BY InitHolds, StepHolds, PTL DEF Spec
-----------------------------------------------------------------------------
(* The theorems.                                                           *)

\* The state of the page visited has the types its module states.
THEOREM DashboardTypes == Spec => []TypeOK
<1>1. IInv => TypeOK
  BY DEF IInv, TypeOK, CardsInv, DialogInv, TablesInv, ShellInv
<1> QED BY <1>1, InvariantHolds, PTL

\* aplikasi/page.tsx shows no secret in a window that is hidden or has lost the
\* focus, however many secrets are answered there (clearSecrets, canRetainClientSecret).
THEOREM UnattendedSafe == Spec => []NothingShownUnattended
<1>1. IInv => NothingShownUnattended
  BY DEF IInv, NothingShownUnattended, CardsInv
<1> QED BY <1>1, InvariantHolds, PTL

\* A secret that was asked for before the window was left is dropped by the
\* generation it was asked in, for every number of leaves and of requests.
THEOREM LateSecretSafe == Spec => LateSecretIsDropped
<1>1. IInv /\ [Next]_vars => [visit = "cards" => Cards!AskedInThisVisit]_vars
  <2> SUFFICES ASSUME IInv, Next, visit = "cards" PROVE Cards!AskedInThisVisit
    OBVIOUS
  <2>1. CardsInv /\ Cards!Next
    BY DEF IInv, Next
  <2> QED BY <2>1, SecretWasAsked
<1> QED BY <1>1, InvariantHolds, PTL DEF Spec, LateSecretIsDropped

\* No card carries a secret_version ahead of its row, in whatever order the list,
\* the details, the regenerations and the deletions are answered.
THEOREM VersionSafe == Spec => []CardsFollowRows
<1>1. IInv => CardsFollowRows
  BY DEF IInv, CardsFollowRows, CardsInv
<1> QED BY <1>1, InvariantHolds, PTL

\* The account the access dialog offers is the one whose identifier is in the
\* field, whichever lookups were aborted on the way.
THEOREM CandidateSafe == Spec => []CandidateWasTyped
<1>1. IInv => CandidateWasTyped
  BY DEF IInv, CandidateWasTyped, DialogInv
<1> QED BY <1>1, InvariantHolds, PTL

\* The button to save an assignment waits exactly while one is being saved, also
\* when the dialog was opened again for another client in between.
THEOREM OneSaveSafe == Spec => []OneSaveInFlight
<1>1. IInv => OneSaveInFlight
  BY DEF IInv, OneSaveInFlight, DialogInv
<1> QED BY <1>1, InvariantHolds, PTL

\* A list that has settled displays the rows of the search, the filter and the page
\* it stands at, for every length of the list and of its pages, although answers to
\* earlier fetches are displayed until the effect of a change has run
\* (latestRequest and active in the effects of the pages).
THEOREM ListSafe == Spec => []ListIsTheOneAsked
<1>1. IInv => ListIsTheOneAsked
  BY DEF IInv, ListIsTheOneAsked, TablesInv
<1> QED BY <1>1, InvariantHolds, PTL

\* pengguna/page.tsx calls the directory empty only where the search had no hit:
\* from a page beyond the last one it moves to the last one, and that holds a row.
THEOREM EmptySafe == Spec => []EmptyDirectoryIsTrue
<1>1. IInv => EmptyDirectoryIsTrue
  BY DEF IInv, EmptyDirectoryIsTrue, TablesInv, EmptyIsCounted, Tables!EmptyDirectoryIsTrue
<1> QED BY <1>1, InvariantHolds, PTL

\* Who lost the access by aplikasi/[id], and did not get it back, is not listed once
\* the list has settled: the fetch that follows every removal is the last one to be
\* displayed.  sesi never lists it again.
THEOREM RemovedSafe == Spec => []RemovedStaysUnlisted
<1>1. IInv => RemovedStaysUnlisted
  BY DEF IInv, RemovedStaysUnlisted, TablesInv
<1> QED BY <1>1, InvariantHolds, PTL

\* No handler of profil/page.tsx revokes an object URL that is displayed, for
\* every number of clicks on "Terapkan" and of saves under way.
THEOREM URLSafe == Spec => []ShownURLIsLive
<1>1. IInv => ShownURLIsLive
  BY DEF IInv, ShownURLIsLive, ShellInv
<1> QED BY <1>1, InvariantHolds, PTL

\* After saves that all succeeded and did not overlap, the name and the avatar that
\* the dashboard shows are those the database keeps.
THEOREM ProfileSafe == Spec => []SavedProfileIsShown
<1>1. IInv => SavedProfileIsShown
  BY DEF IInv, SavedProfileIsShown, ShellInv
<1> QED BY <1>1, InvariantHolds, PTL
=============================================================================
