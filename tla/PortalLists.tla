----------------------------- MODULE PortalLists -----------------------------
(* The lists of the dashboard (src/frontend/src/app/dashboard): the users of   *)
(* an application ("detail", aplikasi/[id]), "audit-log", "pengguna" and the   *)
(* connected applications of "sesi".                                           *)
(*                                                                             *)
(* An effect fetches the page again when the search, the filter, the page or   *)
(* reloadKey changes, and drops or ignores what it had fetched before; loading *)
(* is set by the controls and reset by an answer.  The effect runs some time   *)
(* after the timer or the answer that changed what it depends on, so that an   *)
(* answer to the old fetch may come in between; the press of a button runs it  *)
(* before and after.  The rows change under the list, by other people and by   *)
(* its own buttons.                                                            *)
EXTENDS Naturals, FiniteSets, FiniteSetsExt

CONSTANTS
  Last,       \* rows are numbered in the order of the list, 1..Last
  Hits,       \* rows that the one search, or the one filter, selects
  Protected,  \* the owner of the application, the administrator who looks
  PageSize

VARIABLES
  kind,     \* which of the four pages is displayed
  rows,     \* the rows there are
  on,       \* of the rows: users that are active
  search,   \* the field, trimmed
  due,      \* the timer of the field runs
  deps,     \* what the effect depends on: debouncedSearch, action, page
  stale,    \* they have changed, and the effect has not run yet
  fetch,    \* the request of the effect
  shown,    \* the rows displayed, those displayed as active, and what was asked
  count,    \* total and totalPages
  loading,
  alert,    \* errorMessage is shown
  ready,    \* client is not null
  act,      \* the request of a row's button
  failed,   \* the last fetch that ended failed (history)
  removed   \* rows that this list has removed (history)

table == <<rows, on>>
list == <<fetch, shown, count, alert, ready, failed>>
vars == <<kind, table, search, due, deps, stale, list, loading, act, removed>>

Kinds == {"detail", "audit-log", "pengguna", "sesi"}
Items == 1..Last
Searches == {"", "q"}
Deps == [search : Searches, filter : {"all", "some"}, page : 0..Last + 1]
NoFetch == [st |-> "none"]
Fetches ==
  {NoFetch}
    \cup [st : {"waiting", "error"}, asked : Deps]
    \cup [st : {"ok"}, asked : Deps, rows : SUBSET Items, on : SUBSET Items, total : 0..Last]
Idle == [op |-> "none"]
Acts ==
  {Idle} \cup [op : {"revoke", "update", "delete", "disconnect"}, row : Items,
               to : BOOLEAN, back : BOOLEAN, total : 0..Last,
               ans : {"waiting", "ok", "error"}]

TypeOK ==
  /\ kind \in Kinds
  /\ on \subseteq rows /\ rows \subseteq Items
  /\ search \in Searches
  /\ deps \in Deps
  /\ fetch \in Fetches
  /\ shown \in [rows : SUBSET Items, on : SUBSET Items, asked : Deps]
  /\ count \in [total : 0..Last, pages : 1..Last + 1]
  /\ {due, stale, loading, alert, ready, failed} \subseteq BOOLEAN
  /\ act \in Acts
  /\ removed \subseteq Items

First == [search |-> "", filter |-> "all", page |-> 1]
Fetch(d) == [st |-> "waiting", asked |-> d]

Init ==
  /\ kind \in Kinds
  /\ rows \in SUBSET Items /\ on = rows
  /\ search = "" /\ due = (kind # "sesi")
  /\ deps = First /\ stale = FALSE
  /\ fetch = Fetch(First)
  /\ shown = [rows |-> {}, on |-> {}, asked |-> First]
  /\ count = [total |-> 0, pages |-> 1]
  /\ loading = TRUE /\ alert = FALSE /\ ready = FALSE
  /\ act = Idle
  /\ failed = FALSE /\ removed = {}
-----------------------------------------------------------------------------
(* The effect *)

\* setState with the same values runs nothing.
Depend(d) == deps' = d /\ stale' = (stale \/ d # deps) /\ fetch' = fetch
\* setReloadKey
Reload == deps' = deps /\ stale' = TRUE /\ fetch' = fetch

\* Slip: what was fetched for other dependencies is not dropped.
Unsuperseded == IF fetch.st = "none" THEN Fetch(deps) ELSE fetch
Superseding == Fetch(deps)

\* The effect of a timer or an answer, in a task of its own.
EffectRuns ==
  /\ stale /\ stale' = FALSE
  /\ fetch' = Superseding
  /\ UNCHANGED <<kind, table, search, due, deps, shown, count, loading, alert, ready, act,
                 failed, removed>>

\* The press of a button runs what is due before its own update, and the effect of
\* that one with it.
Press(d, reload) ==
  /\ ~stale /\ UNCHANGED stale
  /\ deps' = d
  /\ fetch' = IF d = deps /\ ~reload THEN fetch ELSE Fetch(d)
-----------------------------------------------------------------------------
(* Search, filter and pagination *)

SearchShown == kind \in {"audit-log", "pengguna"} \/ (kind = "detail" /\ ready)

\* A blank changes the field but not the search.
Type(s) ==
  /\ SearchShown /\ ~stale
  /\ search' = s /\ due' = TRUE
  /\ loading' = (loading \/ kind = "audit-log")
  /\ alert' = (alert /\ kind # "detail")
  /\ UNCHANGED <<kind, table, deps, stale, fetch, shown, count, ready, act, failed, removed>>

\* 350 milliseconds without typing.
DebounceFires ==
  /\ due /\ due' = FALSE
  /\ LET changed == search # deps.search IN
       /\ IF kind = "audit-log" \/ changed
          THEN Depend([deps EXCEPT !.search = search, !.page = 1])
          ELSE UNCHANGED <<deps, stale, fetch>>
       /\ loading' = (loading \/ (changed /\ kind # "audit-log"))
       /\ alert' = (alert /\ ~(changed /\ kind = "pengguna"))
  /\ UNCHANGED <<kind, table, search, shown, count, ready, act, failed, removed>>

PickFilter(f) ==
  /\ kind = "audit-log"
  /\ f # deps.filter
  /\ loading' = TRUE
  /\ Press([deps EXCEPT !.filter = f, !.page = 1], FALSE)
  /\ UNCHANGED <<kind, table, search, due, shown, count, alert, ready, act, failed, removed>>

\* The numbers among pageItems.
PageItems(page, pages) ==
  IF pages <= 7 THEN 1..pages
  ELSE IF page <= 4 THEN 1..5 \cup {pages}
  ELSE IF page >= pages - 3 THEN {1} \cup (pages - 4)..pages
  ELSE {1, page - 1, page, page + 1, pages}

PagerShown == kind # "sesi" /\ ~loading /\ shown.rows # {}
PagerTargets ==
  PageItems(deps.page, count.pages)
    \cup (IF deps.page <= 1 THEN {} ELSE {deps.page - 1})
    \cup (IF deps.page >= count.pages THEN {} ELSE {deps.page + 1})

\* The number of the current page is a button too.
PickPage(p) ==
  /\ PagerShown
  /\ p \in PagerTargets
  /\ loading' = TRUE /\ alert' = FALSE
  /\ Press([deps EXCEPT !.page = p], FALSE)
  /\ UNCHANGED <<kind, table, search, due, shown, count, ready, act, failed, removed>>

RetryShown ==
  \/ kind = "detail" /\ ~ready /\ ~loading
  \/ kind = "pengguna" /\ alert
Retry ==
  /\ RetryShown
  /\ loading' = TRUE /\ alert' = FALSE
  /\ Press(deps, TRUE)
  /\ UNCHANGED <<kind, table, search, due, shown, count, ready, act, failed, removed>>
-----------------------------------------------------------------------------
(* The backend *)

Selected(d) ==
  {i \in rows : (d.search = "" \/ i \in Hits) /\ (d.filter = "all" \/ i \in Hits)}
PageOf(d) ==
  LET found == Selected(d) IN
    {i \in found :
       Cardinality({j \in found : j < i}) \in (d.page - 1) * PageSize .. d.page * PageSize - 1}

\* Page 0 is refused; any request may fail.
ServeFetch ==
  /\ fetch.st = "waiting"
  /\ \/ /\ fetch.asked.page > 0
        /\ fetch' = LET r == IF kind = "sesi" THEN rows ELSE PageOf(fetch.asked) IN
             [st |-> "ok", asked |-> fetch.asked, rows |-> r, on |-> r \cap on,
              total |-> Cardinality(Selected(fetch.asked))]
     \/ fetch' = [fetch EXCEPT !.st = "error"]
  /\ UNCHANGED <<kind, table, search, due, deps, stale, shown, count, loading, alert, ready,
                 act, failed, removed>>

AnswerAct(a) ==
  /\ act' = [act EXCEPT !.ans = a]
  /\ UNCHANGED <<kind, search, due, deps, stale, list, loading, removed>>
Waiting(ops) == act.op \in ops /\ act.ans = "waiting"

\* A removal or an update is carried out, and its answer may be lost.
ServeRemoval ==
  /\ Waiting({"revoke", "delete", "disconnect"})
  /\ act.row \in rows
  /\ rows' = rows \ {act.row} /\ on' = on \ {act.row}
  /\ \E a \in {"ok", "error"} : AnswerAct(a)

ServeUpdate ==
  /\ Waiting({"update"})
  /\ act.row \in rows
  /\ on' = IF act.to THEN on \cup {act.row} ELSE on \ {act.row}
  /\ UNCHANGED rows
  /\ \E a \in {"ok", "error"} : AnswerAct(a)

RefuseAct == act.op # "none" /\ act.ans = "waiting" /\ AnswerAct("error") /\ UNCHANGED table

\* Other people: registrations and assignments, removals, new entries of the log.
RowAppears(i) ==
  /\ i \notin rows
  /\ rows' = rows \cup {i} /\ on' = on \cup {i}
  /\ removed' = removed \ {i}
  /\ UNCHANGED <<kind, search, due, deps, stale, list, loading, act>>
RowGoes(i) ==
  /\ i \in rows \ Protected
  /\ kind # "audit-log"
  /\ rows' = rows \ {i} /\ on' = on \ {i}
  /\ UNCHANGED <<kind, search, due, deps, stale, list, loading, act, removed>>
-----------------------------------------------------------------------------
(* The answers of the effect *)

\* Slip: a page beyond the last one is displayed like any other.
TakeAnyPage(pages) == FALSE
MoveToValidPage(pages) == kind \in {"audit-log", "pengguna"} /\ fetch.asked.page > pages

\* Slip: an empty list has no page.
NoPages(total) == (total + PageSize - 1) \div PageSize
TotalPages(total) == Max({1, (total + PageSize - 1) \div PageSize})

\* The page that is compared is the one the fetch asked for.  pengguna moves before
\* it displays anything, audit-log after it has displayed the empty page.
FetchAnswered ==
  /\ fetch.st = "ok"
  /\ LET pages == TotalPages(fetch.total)
         move == MoveToValidPage(pages)
     IN  /\ IF move /\ kind = "pengguna" THEN UNCHANGED <<shown, count, loading, failed>>
            ELSE /\ shown' = [rows |-> fetch.rows, on |-> fetch.on, asked |-> fetch.asked]
                 /\ count' = [total |-> fetch.total, pages |-> pages]
                 /\ loading' = FALSE /\ failed' = FALSE
         /\ deps' = IF move THEN [deps EXCEPT !.page = pages] ELSE deps
         /\ stale' = (stale \/ deps' # deps)
         /\ fetch' = NoFetch
  /\ alert' = (alert /\ kind # "detail")
  /\ ready' = TRUE
  /\ UNCHANGED <<kind, table, search, due, act, removed>>

\* audit-log and sesi only toast.
FetchFailed ==
  /\ fetch.st = "error"
  /\ fetch' = NoFetch
  /\ loading' = FALSE
  /\ failed' = TRUE
  /\ alert' = (kind \in {"detail", "pengguna"})
  /\ UNCHANGED <<kind, table, search, due, deps, stale, shown, count, ready, act, removed>>
-----------------------------------------------------------------------------
(* The buttons of a row.  One request at a time: a guard in detail, a bound of  *)
(* this model elsewhere.                                                        *)

\* While the list is loading too: a dialog that was opened before is displayed
\* above it, and the keyboard reaches the buttons.
RowClickable(i) ==
  /\ i \in shown.rows
  /\ kind # "audit-log"
  /\ kind = "sesi" \/ i \notin Protected

\* What the buttons of a row ask for.
RowOps ==
  CASE kind = "detail" -> {"revoke"} [] kind = "sesi" -> {"disconnect"}
    [] OTHER -> {"update", "delete"}

\* What the closure captures of the list: whether this is the last row of a page
\* that is not the first, and the total.
Confirm(op, i) ==
  /\ act = Idle /\ ~stale
  /\ RowClickable(i)
  /\ op \in RowOps
  /\ act' = [op |-> op, row |-> i, to |-> op = "update" /\ i \notin shown.on,
             back |-> op = "revoke" /\ shown.rows = {i} /\ deps.page > 1,
             total |-> IF op = "revoke" THEN count.total ELSE 0, ans |-> "waiting"]
  /\ UNCHANGED <<kind, table, search, due, deps, stale, list, loading, removed>>

Ended(op, a) == act.op = op /\ act.ans = a
Unlisted(s, i) == [s EXCEPT !.rows = @ \ {i}, !.on = @ \ {i}]

\* Slip: the list is not fetched again after a removal on a page that keeps rows.
NotReloaded == UNCHANGED <<deps, stale, fetch>>
Reloaded == Reload

AssignmentRevoked ==
  /\ Ended("revoke", "ok")
  /\ shown' = Unlisted(shown, act.row)
  /\ count' = [count EXCEPT !.total = IF act.total = 0 THEN 0 ELSE act.total - 1]
  /\ IF act.back THEN loading' = TRUE /\ Depend([deps EXCEPT !.page = @ - 1])
     ELSE Reloaded /\ UNCHANGED loading
  /\ act' = Idle
  /\ removed' = removed \cup ({act.row} \ rows)
  /\ UNCHANGED <<kind, table, search, due, alert, ready, failed>>

UserDeleted ==
  /\ Ended("delete", "ok")
  /\ loading' = TRUE
  /\ Reload
  /\ act' = Idle
  /\ UNCHANGED <<kind, table, search, due, shown, count, alert, ready, failed, removed>>

UserUpdated ==
  /\ Ended("update", "ok")
  /\ shown' = [shown EXCEPT !.on =
       IF act.to THEN @ \cup ({act.row} \cap shown.rows) ELSE @ \ {act.row}]
  /\ act' = Idle
  /\ UNCHANGED <<kind, table, search, due, deps, stale, fetch, count, loading, alert, ready,
                 failed, removed>>

Disconnected ==
  /\ Ended("disconnect", "ok")
  /\ shown' = Unlisted(shown, act.row)
  /\ act' = Idle
  /\ removed' = removed \cup ({act.row} \ rows)
  /\ UNCHANGED <<kind, table, search, due, deps, stale, fetch, count, loading, alert, ready,
                 failed>>

ActRefused ==
  /\ act.op # "none" /\ act.ans = "error"
  /\ act' = Idle
  /\ UNCHANGED <<kind, table, search, due, deps, stale, list, loading, removed>>
-----------------------------------------------------------------------------
Pressed ==
  \/ \E s \in Searches : Type(s)
  \/ \E f \in {"all", "some"} : PickFilter(f)
  \/ \E p \in PagerTargets : PickPage(p)
  \/ Retry
  \/ \E op \in {"revoke", "update", "delete", "disconnect"}, i \in Items : Confirm(op, i)
ServeAct == ServeRemoval \/ ServeUpdate \/ RefuseAct
ActAnswered ==
  AssignmentRevoked \/ UserDeleted \/ UserUpdated \/ Disconnected \/ ActRefused

Next ==
  \/ Pressed \/ DebounceFires \/ EffectRuns
  \/ ServeFetch \/ FetchAnswered \/ FetchFailed
  \/ ServeAct \/ ActAnswered
  \/ \E i \in Items : RowAppears(i) \/ RowGoes(i)

Spec == Init /\ [][Next]_vars
-----------------------------------------------------------------------------
(* Properties *)

\* No answer is awaited and no effect is due.
Settled == fetch = NoFetch /\ ~stale

\* When the list has settled its rows are those of the search, the filter and the
\* page that the person sees, however the fetches overtake each other: no answer to
\* an earlier fetch stays, even if it came between a change and its effect.
ListIsTheOneAsked == Settled => failed \/ shown.rows = {} \/ shown.asked = deps

\* The directory says "Pengguna tidak ditemukan" only of a search without a hit,
\* not of a page that deletions have emptied (pengguna/page.tsx:78-79).
EmptyDirectoryIsTrue ==
  kind = "pengguna" /\ ~loading /\ ~failed /\ shown.rows = {} => count.total = 0

\* Who lost the access by this list, and did not get it back, is not listed when
\* the list has settled: every removal starts another fetch, and no answer that was
\* given before the removal is the last one.  sesi, which does not fetch again,
\* never lists it.
RemovedStaysUnlisted ==
  (Settled /\ ~failed) \/ kind = "sesi" => removed \cap shown.rows = {}

\* Does not hold, see the README: rows of another search or page are marked as
\* loading, and who was removed is not listed again even for a moment.  An answer to
\* the old fetch comes before the effect that drops it.
OldRowsAreMarked ==
  ~loading /\ kind # "audit-log" => failed \/ shown.rows = {} \/ shown.asked = deps
RemovedIsNotListedAgain == removed \cap shown.rows = {}

\* Does not hold, see the README: the list asks for pages from 1 on, as the backend
\* requires ("page harus berupa angka positif.", client_assignment.go:21).  Going
\* back from a page is decided when the button is pressed, and done when the answer
\* comes.
PageIsPositive == deps.page > 0
=============================================================================
