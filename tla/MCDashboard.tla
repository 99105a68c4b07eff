----------------------------- MODULE MCDashboard -----------------------------
(* Dashboard for TLC.                                                          *)
EXTENDS Dashboard, TLC

Symmetry == Permutations(Clients) \cup Permutations(Names) \cup Permutations(Slots)

\* Of the object URLs revoked, those that something still holds.
Held ==
  {pending, crop} \cup {save[s].pending : s \in {t \in Slots : save[t] # Shell!Idle}}
    \cup UNION {{blobs[i].pending, blobs[i].crop} : i \in DOMAIN blobs}

\* Of the rows removed, those that an answer has listed; of what was asked, that
\* which an answer with rows was about.  Only pengguna reads the total.
Listed == shown.rows \cup (IF fetch.st = "ok" THEN fetch.rows ELSE {})
Asked ==
  <<IF fetch.st = "error" THEN [fetch EXCEPT !.asked = Tables!First] ELSE fetch,
    IF failed \/ shown.rows = {} THEN [shown EXCEPT !.asked = Tables!First] ELSE shown>>
Counted ==
  IF kind = "pengguna" THEN <<count, act>>
  ELSE <<count.pages, IF act = Tables!Idle THEN act ELSE [act EXCEPT !.total = 0]>>

ReadOnly ==
  <<visit, cards, dialogs,
    IF visit = "tables"
    THEN <<kind, rows, on, search, due, deps, stale, loading, alert,
           ready \/ kind # "detail", failed, removed \cap Listed, Asked, Counted>>
    ELSE tables,
    page, user, account, session, logout, saving, pending, deleting, crop, blobs, made,
    IF visit = "shell" THEN revoked \cap Held ELSE revoked, save, apart>>
=============================================================================
