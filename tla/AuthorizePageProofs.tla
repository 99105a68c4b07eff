------------------------- MODULE AuthorizePageProofs -------------------------
(* The sign-in pages for any number of accounts and tabs.  A step changes one  *)
(* tab, and PageInv says of each tab what its page and its requests have to do *)
(* with one another.                                                           *)
EXTENDS AuthorizePage, TLAPS

\* A decision is in flight only on the page that sent it, a login never on the
\* authorize page, and consent is claimed only from the card.
PageInv(s, c) ==
  /\ s \in TabState
  /\ c \in [Slots -> CallState]
  /\ c["context"] = Idle \/
       (c["context"].op = "context"
          /\ c["context"].ans \in {"waiting", "known", "ask", "error"})
  /\ \A k \in {"act", "left"} :
       /\ c[k].op # "context"
       /\ c[k].op = "authorize" /\ c[k].approved => c[k].card
  /\ s.page = "authorize" =>
       (s.approving <=> c["act"] # Idle) /\ c["act"].op # "login"
  /\ s.page # "authorize" => c["act"].op \in {"none", "login"}

BackendInv ==
  cookie \in Users \cup {Nobody} /\ live \subseteq Users /\ consents \subseteq Users

IInv ==
  /\ BackendInv
  /\ tab \in [Tabs -> TabState]
  /\ call \in [Tabs -> [Slots -> CallState]]
  /\ \A t \in Tabs : PageInv(tab[t], call[t])
-----------------------------------------------------------------------------
(* Pages *)

LEMMA ClosedPage == PageInv(Closed, NoCalls)
  BY DEF PageInv, Closed, NoCalls, Idle, TabState, Clients, NoClient, Pages, Slots,
         CallState

LEMMA MountedType ==
  ASSUME NEW s \in TabState, NEW p \in Pages
  PROVE  Mounted(s, p) \in TabState /\ Mounted(s, p).approving = FALSE
<1>1. Mounted(s, p) \in TabState
  BY Zenon DEF Mounted, TabState, Clients
<1>2. Mounted(s, p).approving = FALSE
  BY DEF Mounted, TabState
<1> QED BY <1>1, <1>2

LEMMA CallbackType ==
  ASSUME NEW s \in TabState, NEW cb \in BOOLEAN
  PROVE  /\ [s EXCEPT !.callback = cb] \in TabState
         /\ [s EXCEPT !.callback = cb].approving = s.approving
  BY DEF TabState

\* A page that is mounted has nothing in flight, whatever the one before it had.
LEMMA MountedPage ==
  ASSUME NEW s, NEW r, NEW c, PageInv(s, c), r \in TabState, ~r.approving
  PROVE  PageInv(r, Abandon(c)) /\ PageInv(r, NoCalls)
<1>1. Abandon(c) \in [Slots -> CallState] /\ NoCalls \in [Slots -> CallState]
  BY DEF Abandon, NoCalls, Idle, CallState, Slots, PageInv
<1>2. /\ Abandon(c)["context"] = Idle /\ Abandon(c)["act"] = Idle
      /\ Abandon(c)["left"] \in {c["act"], c["left"]}
  BY DEF Abandon, Slots, PageInv
<1>3. NoCalls["context"] = Idle /\ NoCalls["act"] = Idle /\ NoCalls["left"] = Idle
  BY DEF NoCalls, Slots
<1>4. r.approving \in BOOLEAN
  BY DEF TabState
<1> QED BY <1>1, <1>2, <1>3, <1>4 DEF PageInv, Idle

\* A request that has been continued leaves the page as it was, and no longer
\* busy if it was the page's own.
LEMMA EndedRequest ==
  ASSUME NEW s, NEW c, NEW k \in {"act", "left"}, PageInv(s, c)
  PROVE  /\ k = "left" => PageInv(s, [c EXCEPT ![k] = Idle])
         /\ s.page # "authorize" => PageInv(s, [c EXCEPT ![k] = Idle])
         /\ \A r \in TabState : r.page = s.page /\ ~r.approving /\ k = "act"
              => PageInv(r, [c EXCEPT ![k] = Idle])
  BY DEF PageInv, Idle, Slots, CallState

\* An answer is one its request can have.
LEMMA AnsweredRequest ==
  ASSUME NEW s, NEW c, NEW k \in Slots, NEW a \in Answers, PageInv(s, c), c[k] # Idle,
         k = "context" => a \in {"known", "ask", "error"}
  PROVE  PageInv(s, [c EXCEPT ![k].ans = a])
<1>1. [c[k] EXCEPT !.ans = a] \in CallState
  BY DEF PageInv, CallState, Idle
<1>2. [c EXCEPT ![k].ans = a] \in [Slots -> CallState]
  BY <1>1 DEF PageInv
<1>3. /\ [c[k] EXCEPT !.ans = a].op = c[k].op
      /\ [c[k] EXCEPT !.ans = a].ans = a
      /\ [c[k] EXCEPT !.ans = a] # Idle
      /\ c[k].op = "authorize" =>
           /\ [c[k] EXCEPT !.ans = a].approved = c[k].approved
           /\ [c[k] EXCEPT !.ans = a].card = c[k].card
  BY DEF PageInv, CallState, Idle
<1>4. \A j \in Slots : [c EXCEPT ![k].ans = a][j] =
        IF j = k THEN [c[k] EXCEPT !.ans = a] ELSE c[j]
  BY DEF PageInv
<1> QED BY <1>2, <1>3, <1>4 DEF PageInv, Slots
-----------------------------------------------------------------------------
(* Steps *)

LEMMA OneTab ==
  ASSUME IInv, BackendInv', NEW t \in Tabs, NEW s, NEW c, PageInv(s, c), GoTo(t, s, c)
  PROVE  IInv'
<1>1. s \in TabState /\ c \in [Slots -> CallState]
  BY DEF PageInv
<1> QED BY <1>1 DEF IInv, GoTo

LEMMA OneAnswer ==
  ASSUME IInv, BackendInv', NEW t \in Tabs, NEW k \in Slots, NEW a \in Answers,
         call[t][k] # Idle, k = "context" => a \in {"known", "ask", "error"},
         Reply(t, k, a), tab' = tab
  PROVE  IInv'
<1>1. PageInv(tab[t], [call[t] EXCEPT ![k].ans = a])
  BY AnsweredRequest DEF IInv
<1>2. GoTo(t, tab[t], [call[t] EXCEPT ![k].ans = a])
  BY DEF GoTo, Reply, IInv
<1> QED BY <1>1, <1>2, OneTab

\* What the controls and the effects of a page do to its own tab.
LEMMA PortalStep ==
  ASSUME IInv, NEW t \in Tabs, Portal(t)
  PROVE  IInv'
<1> DEFINE s == tab[t]
<1> DEFINE c == call[t]
<1>1. s \in TabState /\ PageInv(s, c) /\ c \in [Slots -> CallState]
  BY DEF IInv
<1>2. BackendInv'
  <2>1. UNCHANGED backend
    BY DEF Portal, Open, Navigate, SignInFirst, RefuseIncomplete, LoadContext, Approve,
           Cancel, UseAnotherAccount, SubmitLogin, Press, backend
  <2> QED BY <2>1 DEF IInv, BackendInv, backend
<1>3. CASE Open(t)
  <2>1. PICK u \in GetInitialUser, complete \in BOOLEAN :
          GoTo(t, Mounted([Closed EXCEPT !.user = u, !.complete = complete], "authorize"),
               NoCalls)
    BY <1>3 DEF Open
  <2> DEFINE r == [Closed EXCEPT !.user = u, !.complete = complete]
  <2>2. r \in TabState
    BY <2>1, Zenon DEF Closed, TabState, Clients, Pages, GetInitialUser, IInv, BackendInv
  <2>3. "authorize" \in Pages
    BY DEF Pages
  <2>4. Mounted(r, "authorize") \in TabState /\ Mounted(r, "authorize").approving = FALSE
    BY <2>2, <2>3, MountedType
  <2>5. PageInv(Mounted(r, "authorize"), NoCalls)
    BY <1>1, <2>4, MountedPage
  <2> QED BY <1>2, <2>1, <2>5, OneTab
<1>4. ASSUME NEW p \in Pages, Navigate(t, p)
      PROVE  IInv'
  <2>1. [Mounted(s, p) EXCEPT !.callback = FALSE] \in TabState
          /\ [Mounted(s, p) EXCEPT !.callback = FALSE].approving = FALSE
    BY <1>1, MountedType, CallbackType
  <2>2. PageInv([Mounted(s, p) EXCEPT !.callback = FALSE], Abandon(c))
    BY <1>1, <2>1, MountedPage
  <2> QED BY <1>2, <1>4, <2>2, OneTab DEF Navigate
<1>5. CASE SignInFirst(t)
  <2>1. "login" \in Pages
    BY DEF Pages
  <2>2. [Mounted(s, "login") EXCEPT !.callback = TRUE] \in TabState
          /\ [Mounted(s, "login") EXCEPT !.callback = TRUE].approving = FALSE
    BY <1>1, <2>1, MountedType, CallbackType
  <2>3. PageInv([Mounted(s, "login") EXCEPT !.callback = TRUE], Abandon(c))
    BY <1>1, <2>2, MountedPage
  <2> QED BY <1>2, <1>5, <2>3, OneTab DEF SignInFirst
<1>6. CASE RefuseIncomplete(t)
  <2> DEFINE r == [s EXCEPT !.due = FALSE, !.loading = FALSE]
  <2>1. r \in TabState /\ r.page = s.page /\ r.approving = s.approving
    BY <1>1 DEF TabState
  <2>2. PageInv(r, c)
    BY <1>1, <2>1 DEF PageInv
  <2>3. GoTo(t, r, c)
    BY <1>6 DEF RefuseIncomplete, GoTo, IInv
  <2> QED BY <1>2, <2>2, <2>3, OneTab
<1>7. CASE LoadContext(t)
  <2> DEFINE r == [s EXCEPT !.due = FALSE]
  <2> DEFINE k == [op |-> "context", ans |-> "waiting", as |-> cookie]
  <2> DEFINE d == [c EXCEPT !["context"] = k]
  <2>1. r \in TabState /\ r.page = s.page /\ r.approving = s.approving
    BY <1>1 DEF TabState
  <2>2. k \in CallState
    BY DEF CallState, Answers, IInv, BackendInv
  <2>3. d \in [Slots -> CallState] /\ d["context"] = k
          /\ d["act"] = c["act"] /\ d["left"] = c["left"]
    BY <1>1, <2>2 DEF Slots
  <2>4. PageInv(r, d)
    BY <1>1, <2>1, <2>3 DEF PageInv
  <2>5. GoTo(t, r, d)
    BY <1>7 DEF LoadContext, GoTo, IInv
  <2> QED BY <1>2, <2>4, <2>5, OneTab
<1>8. ASSUME NEW k \in CallState, k.op \in {"authorize", "logout"},
             k.op = "authorize" /\ k.approved => k.card,
             s.page = "authorize", Press(t, k)
      PROVE  IInv'
  <2> DEFINE r == [s EXCEPT !.approving = TRUE]
  <2> DEFINE d == [c EXCEPT !["act"] = k]
  <2>1. r \in TabState /\ r.page = s.page /\ r.approving
    BY <1>1 DEF TabState
  <2>2. d \in [Slots -> CallState] /\ d["context"] = c["context"]
          /\ d["act"] = k /\ d["left"] = c["left"]
    BY <1>1, <1>8 DEF Slots
  <2>3. PageInv(r, d)
    BY <1>1, <1>8, <2>1, <2>2 DEF PageInv, Idle
  <2>4. GoTo(t, r, d)
    BY <1>8 DEF Press, GoTo, IInv
  <2> QED BY <1>2, <2>3, <2>4, OneTab
<1>9. CASE Approve(t)
  <2> DEFINE k == [op |-> "authorize", ans |-> "waiting", as |-> cookie,
                   approved |-> ConsentApproved(t), card |-> ConsentCardShown(t),
                   shown |-> tab[t].user]
  <2>1. ConsentApproved(t) \in BOOLEAN /\ ConsentCardShown(t) \in BOOLEAN
    BY DEF ConsentApproved, ConsentCardShown
  <2>2. s.page = "authorize" /\ tab[t].user \in Users
    BY <1>1, <1>9 DEF Approve, DecisionEnabled, AccountChoiceShown, ConsentCardShown,
         SkeletonShown, OnAuthorize, TabState
  <2>3. ConsentApproved(t) => ConsentCardShown(t)
    BY <1>9 DEF Approve, DecisionEnabled, AccountChoiceShown, ConsentApproved
  <2>4. k \in CallState
    BY <2>1, <2>2, Zenon DEF CallState, Answers, IInv, BackendInv
  <2>5. k.op = "authorize" /\ k.approved = ConsentApproved(t)
          /\ k.card = ConsentCardShown(t)
    OBVIOUS
  <2>6. Press(t, k)
    BY <1>9 DEF Approve
  <2> HIDE DEF k
  <2> QED BY <1>8, <2>2, <2>3, <2>4, <2>5, <2>6
<1>10. CASE UseAnotherAccount(t)
  <2> DEFINE k == [op |-> "logout", ans |-> "waiting", as |-> cookie]
  <2>1. s.page = "authorize"
    BY <1>10 DEF UseAnotherAccount, SwitchEnabled, AccountChoiceShown, ConsentCardShown,
         OnAuthorize
  <2>2. k \in CallState
    BY DEF CallState, Answers, IInv, BackendInv
  <2> QED BY <1>8, <1>10, <2>1, <2>2 DEF UseAnotherAccount
<1>11. CASE Cancel(t)
  BY <1>2, <1>11, ClosedPage, OneTab DEF Cancel, LeavePortal
<1>12. ASSUME NEW u \in Users, SubmitLogin(t, u)
       PROVE  IInv'
  <2> DEFINE k == [op |-> "login", ans |-> "waiting", as |-> u,
                   dest |-> SafeLoginDestination(t)]
  <2> DEFINE d == [c EXCEPT !["act"] = k]
  <2>1. k \in CallState
    BY DEF CallState, Answers, SafeLoginDestination
  <2>2. d \in [Slots -> CallState] /\ d["context"] = c["context"]
          /\ d["act"] = k /\ d["left"] = c["left"]
    BY <1>1, <2>1 DEF Slots
  <2>3. PageInv(s, d)
    BY <1>1, <1>12, <2>2 DEF PageInv, SubmitLogin
  <2>4. GoTo(t, s, d)
    BY <1>12 DEF SubmitLogin, GoTo, IInv
  <2> QED BY <1>2, <2>3, <2>4, OneTab
<1> QED BY <1>3, <1>4, <1>5, <1>6, <1>7, <1>9, <1>10, <1>11, <1>12 DEF Portal

\* What the backend answers.
LEMMA BackendStep ==
  ASSUME IInv, NEW t \in Tabs, Backend(t)
  PROVE  IInv'
<1>1. \A k \in Slots : call[t][k] # Idle /\ call[t][k].as \in live =>
        call[t][k].as \in Users
  BY DEF IInv, BackendInv
<1>2. tab' = tab
  BY DEF Backend, Decide, RefuseContext, ServeContext, RefuseAuthorize, RedirectError,
         AskConsent, IssueCode, ServeLogout, ServeLogin, Refuse
<1>3. ASSUME NEW k \in Slots, NEW op, op # "none", Waiting(t, k, op)
      PROVE  call[t][k] # Idle
  BY <1>3 DEF Waiting, Idle
<1>4. ASSUME NEW k \in Slots, call[t][k] # Idle, Refuse(t, k)
      PROVE  IInv'
  <2>1. BackendInv'
    BY <1>4 DEF Refuse, IInv, BackendInv
  <2> QED BY <1>2, <1>4, <2>1, OneAnswer DEF Refuse, Answers
<1>5. CASE RefuseContext(t)
  BY <1>3, <1>4, <1>5 DEF RefuseContext, Slots
<1>6. CASE ServeContext(t)
  <2>1. BackendInv'
    BY <1>6 DEF ServeContext, IInv, BackendInv
  <2>2. PICK a \in {"known", "ask"} : Reply(t, "context", a)
    BY <1>6 DEF ServeContext
  <2>3. call[t]["context"] # Idle /\ "context" \in Slots
    BY <1>3, <1>6 DEF ServeContext, Slots
  <2> QED BY <1>2, <2>1, <2>2, <2>3, OneAnswer DEF Answers
<1>7. ASSUME NEW k \in {"act", "left"}, Decide(t, k)
      PROVE  IInv'
  <2>1. k \in Slots /\ k # "context"
    BY <1>7 DEF Slots
  <2>2. CASE RefuseAuthorize(t, k)
    BY <1>3, <1>4, <2>1, <2>2 DEF RefuseAuthorize
  <2>3. ASSUME ~RefuseAuthorize(t, k)
        PROVE  /\ BackendInv'
               /\ call[t][k] # Idle
               /\ \E a \in Answers : Reply(t, k, a)
    <3>1. CASE RedirectError(t, k)
      BY <1>3, <2>1, <3>1 DEF RedirectError, IInv, BackendInv, Answers
    <3>2. CASE AskConsent(t, k)
      BY <1>3, <2>1, <3>2 DEF AskConsent, IInv, BackendInv, Answers
    <3>3. CASE IssueCode(t, k)
      BY <1>1, <1>3, <2>1, <3>3 DEF IssueCode, SignedIn, IInv, BackendInv, Answers
    <3>4. CASE ServeLogout(t, k)
      BY <1>3, <2>1, <3>4 DEF ServeLogout, IInv, BackendInv, Answers
    <3>5. CASE ServeLogin(t, k)
      <4>1. call[t][k].op = "login" /\ call[t][k] # Idle
        BY <1>3, <2>1, <3>5 DEF ServeLogin, Waiting
      <4>2. call[t][k].as \in Users
        BY <2>1, <4>1 DEF IInv, CallState, Idle
      <4> QED BY <3>5, <4>1, <4>2 DEF ServeLogin, IInv, BackendInv, Answers
    <3> QED BY <1>7, <2>3, <3>1, <3>2, <3>3, <3>4, <3>5 DEF Decide
  <2> QED BY <1>2, <2>1, <2>2, <2>3, OneAnswer
<1> QED BY <1>5, <1>6, <1>7 DEF Backend

\* What follows an await, on the page that sent the request or after it was left.
LEMMA ContinuationStep ==
  ASSUME IInv, NEW t \in Tabs, Continuation(t)
  PROVE  IInv'
<1> DEFINE s == tab[t]
<1> DEFINE c == call[t]
<1>1. s \in TabState /\ PageInv(s, c) /\ c \in [Slots -> CallState]
  BY DEF IInv
<1>2. BackendInv'
  <2>1. UNCHANGED backend
    BY DEF Continuation, ContextAnswered, AuthorizeRedirected, AuthorizeRefused,
           LogoutAnswered, LoginAnswered, backend
  <2> QED BY <2>1 DEF IInv, BackendInv, backend
<1>3. CASE ContextAnswered(t)
  <2> DEFINE a == c["context"].ans
  <2> DEFINE r == [s EXCEPT !.client = ClientAfter(@, a),
                            !.loading = @ /\ LoadingAfter(a)]
  <2> DEFINE d == [c EXCEPT !["context"] = Idle]
  <2>1. c["context"] # Idle /\ a \in {"known", "ask", "error"}
    BY <1>1, <1>3 DEF ContextAnswered, Answered, PageInv, Idle
  <2>2. ClientAfter(s.client, a) \in Clients /\ (s.loading /\ LoadingAfter(a)) = FALSE
    BY <1>1, <2>1 DEF ClientAfter, LoadingAfter, Clients, TabState
  <2>3. r \in TabState /\ r.page = s.page /\ r.approving = s.approving
    BY <1>1, <2>2 DEF TabState
  <2>4. d \in [Slots -> CallState] /\ d["context"] = Idle
          /\ d["act"] = c["act"] /\ d["left"] = c["left"]
    BY <1>1 DEF Slots, CallState
  <2>5. PageInv(r, d)
    BY <1>1, <2>3, <2>4 DEF PageInv
  <2>6. GoTo(t, r, d)
    BY <1>3 DEF ContextAnswered, Done
  <2> QED BY <1>2, <2>5, <2>6, OneTab
<1>4. ASSUME NEW k \in {"act", "left"}
      PROVE  /\ k = "left" => PageInv(s, Done(t, k))
             /\ s.page # "authorize" => PageInv(s, Done(t, k))
             /\ \A r \in TabState : r.page = s.page /\ ~r.approving /\ k = "act"
                  => PageInv(r, Done(t, k))
             /\ \E q : PageInv(q, Done(t, k))
  <2> DEFINE r == [s EXCEPT !.approving = FALSE]
  <2>1. r \in TabState /\ r.page = s.page /\ ~r.approving
    BY <1>1 DEF TabState
  <2> QED BY <1>1, <2>1, EndedRequest DEF Done
<1>5. ASSUME NEW k \in {"act", "left"}, AuthorizeRedirected(t, k)
      PROVE  IInv'
  BY <1>2, <1>5, ClosedPage, OneTab DEF AuthorizeRedirected, LeavePortal
<1>6. ASSUME NEW k \in {"act", "left"}, AuthorizeRefused(t, k)
      PROVE  IInv'
  <2> DEFINE cl == IF c[k].ans = "consent_required" /\ s.client # NoClient
                   THEN "ask" ELSE s.client
  <2> DEFINE r == [s EXCEPT !.approving = FALSE, !.client = cl]
  <2>1. cl \in Clients
    BY <1>1 DEF Clients, TabState
  <2> HIDE DEF cl
  <2>2. r \in TabState /\ r.page = s.page /\ ~r.approving
    BY <1>1, <2>1 DEF TabState
  <2>3. GoTo(t, IF k = "act" THEN r ELSE s, Done(t, k))
    BY <1>6, Zenon DEF AuthorizeRefused, PageState, ApprovingAfter, cl
  <2>4. PageInv(IF k = "act" THEN r ELSE s, Done(t, k))
    BY <1>4, <2>2
  <2> QED BY <1>2, <2>3, <2>4, OneTab
<1>7. ASSUME NEW k \in {"act", "left"}, LogoutAnswered(t, k)
      PROVE  IInv'
  <2>1. CASE c[k].ans = "ok"
    <3> DEFINE r == [Mounted(s, "login") EXCEPT !.callback = OnAuthorize(t)]
    <3>1. "login" \in Pages /\ OnAuthorize(t) \in BOOLEAN
      BY DEF Pages, OnAuthorize
    <3>2. r \in TabState /\ r.approving = FALSE
      BY <1>1, <3>1, MountedType, CallbackType
    <3>3. PageInv(r, Abandon(Done(t, k)))
      BY <1>4, <3>2, MountedPage
    <3>4. GoTo(t, r, Abandon(Done(t, k)))
      BY <1>7, <2>1 DEF LogoutAnswered
    <3> QED BY <1>2, <3>3, <3>4, OneTab
  <2>2. CASE c[k].ans # "ok"
    <3> DEFINE r == [s EXCEPT !.approving = FALSE]
    <3>1. r \in TabState /\ r.page = s.page /\ ~r.approving
      BY <1>1 DEF TabState
    <3>2. GoTo(t, IF k = "act" THEN r ELSE s, Done(t, k))
      BY <1>7, <2>2 DEF LogoutAnswered, PageState
    <3>3. PageInv(IF k = "act" THEN r ELSE s, Done(t, k))
      BY <1>4, <3>1
    <3> QED BY <1>2, <3>2, <3>3, OneTab
  <2> QED BY <2>1, <2>2
<1>8. ASSUME NEW k \in {"act", "left"}, LoginAnswered(t, k)
      PROVE  IInv'
  <2>1. c[k] # Idle /\ c[k].op = "login" /\ k \in Slots
    BY <1>8 DEF LoginAnswered, Answered, Idle, Slots
  <2>2. c[k].as \in Users /\ c[k].dest \in Pages
    BY <1>1, <2>1 DEF CallState, Idle, Pages
  <2>3. PageInv(s, Done(t, k)) /\ (OnAuthorize(t) => k = "left")
    BY <1>1, <1>4, <2>1 DEF PageInv, OnAuthorize
  <2> DEFINE known == [s EXCEPT !.user = c[k].as]
  <2>4. known \in TabState /\ known.page = s.page /\ known.approving = s.approving
    BY <1>1, <2>2 DEF TabState
  <2> HIDE DEF known
  <2>5. CASE c[k].ans # "ok"
    BY <1>2, <1>8, <2>3, <2>5, OneTab DEF LoginAnswered
  <2>6. CASE c[k].ans = "ok" /\ OnAuthorize(t) /\ c[k].dest = "authorize"
    <3> DEFINE r == [known EXCEPT !.due = TRUE]
    <3>1. r \in TabState /\ r.page = s.page /\ r.approving = s.approving
      BY <2>4 DEF TabState
    <3>2. PageInv(r, Done(t, k))
      BY <2>3, <3>1 DEF PageInv
    <3>3. GoTo(t, r, Done(t, k))
      BY <1>8, <2>6 DEF LoginAnswered, known
    <3> QED BY <1>2, <3>2, <3>3, OneTab
  <2>7. CASE c[k].ans = "ok" /\ ~(OnAuthorize(t) /\ c[k].dest = "authorize")
    <3> DEFINE r == Mounted(known, c[k].dest)
    <3>1. r \in TabState /\ r.approving = FALSE
      BY <2>2, <2>4, MountedType
    <3>2. PageInv(r, Abandon(Done(t, k)))
      BY <2>3, <3>1, MountedPage
    <3>3. GoTo(t, r, Abandon(Done(t, k)))
      BY <1>8, <2>7 DEF LoginAnswered, known
    <3> QED BY <1>2, <3>2, <3>3, OneTab
  <2> QED BY <2>5, <2>6, <2>7
<1> QED BY <1>3, <1>5, <1>6, <1>7, <1>8 DEF Continuation
-----------------------------------------------------------------------------
(* The invariant and what follows from it *)

LEMMA IInvInit == Init => IInv
<1> SUFFICES ASSUME Init PROVE IInv
  OBVIOUS
<1>1. Closed \in TabState /\ NoCalls \in [Slots -> CallState]
  BY ClosedPage DEF PageInv
<1>2. BackendInv
  BY DEF Init, BackendInv
<1> QED BY <1>1, <1>2, ClosedPage DEF Init, IInv

LEMMA IInvStep == IInv /\ [Next]_vars => IInv'
<1> SUFFICES ASSUME IInv, [Next]_vars PROVE IInv'
  OBVIOUS
<1>1. ASSUME NEW u \in Users, SessionEnds(u) \/ ConsentRevoked(u)
      PROVE  IInv'
  BY <1>1 DEF SessionEnds, ConsentRevoked, IInv, BackendInv
<1>2. CASE UNCHANGED vars
  BY <1>2 DEF vars, IInv, BackendInv
<1> QED BY <1>1, <1>2, PortalStep, BackendStep, ContinuationStep DEF Next

LEMMA Invariant == Spec => []IInv
  BY IInvInit, IInvStep, PTL DEF Spec

\* Cookie, sessions, consents, tabs and requests keep their types: what a button
\* sends and a request is answered is of the kind its continuation expects.
THEOREM PageTypes == Spec => []TypeOK
<1>1. IInv => TypeOK
  BY DEF IInv, BackendInv, TypeOK
<1> QED BY <1>1, Invariant, PTL

\* In every tab the buttons of the authorize page wait exactly while the decision
\* that was pressed there is in flight, and for no request of a page left before.
THEOREM DecisionSafe == Spec => []OneDecisionInFlight
<1>1. IInv => OneDecisionInFlight
  BY DEF IInv, PageInv, OneDecisionInFlight, OnAuthorize
<1> QED BY <1>1, Invariant, PTL

LEMMA ConsentStep ==
  ASSUME IInv, [Next]_vars, NEW u \in consents' \ consents
  PROVE  \E t \in Tabs, s \in Slots : Granted(t, s, u) /\ call[t][s].card
<1>1. PICK t \in Tabs, s \in {"act", "left"} : IssueCode(t, s)
  <2>1. \A t \in Tabs : Portal(t) \/ Continuation(t) => UNCHANGED consents
    BY DEF Portal, Open, Navigate, SignInFirst, RefuseIncomplete, LoadContext, Approve,
           Cancel, UseAnotherAccount, SubmitLogin, Press, Continuation, ContextAnswered,
           AuthorizeRedirected, AuthorizeRefused, LogoutAnswered, LoginAnswered, backend
  <2>2. \A t \in Tabs : RefuseContext(t) \/ ServeContext(t) => UNCHANGED consents
    BY DEF RefuseContext, ServeContext, Refuse
  <2>3. \A t \in Tabs, s \in {"act", "left"} :
          Decide(t, s) /\ ~IssueCode(t, s) => UNCHANGED consents
    BY DEF Decide, RefuseAuthorize, Refuse, RedirectError, AskConsent, ServeLogout,
           ServeLogin
  <2>4. \A v \in Users : SessionEnds(v) \/ ConsentRevoked(v) => consents' \subseteq consents
    BY DEF SessionEnds, ConsentRevoked
  <2> QED BY <2>1, <2>2, <2>3, <2>4 DEF Next, Backend, vars
<1>2. s \in Slots /\ call[t][s].op = "authorize" /\ call[t][s].as = u
        /\ call[t][s].approved
  BY <1>1 DEF IssueCode, Waiting, Slots
<1>3. call[t][s].card
  BY <1>2 DEF IInv, PageInv
<1>4. PICK a \in {"redirect", "error"} : Reply(t, s, a)
  BY <1>1 DEF IssueCode
<1>5. call[t][s].ans = "waiting" /\ call'[t][s].ans = a
  BY <1>1, <1>2, <1>4 DEF IssueCode, Waiting, Reply, IInv, CallState, Idle
<1> QED BY <1>1, <1>2, <1>3, <1>4, <1>5 DEF Granted, IssueCode

\* Whatever the tabs do meanwhile, a consent is stored only by an authorization
\* that was pressed on the card that lists the scopes.
THEOREM CardSafe == Spec => ConsentNeedsItsCard
<1>1. IInv /\ [Next]_vars =>
        [\A u \in consents' \ consents :
           \E t \in Tabs, s \in Slots : Granted(t, s, u) /\ call[t][s].card]_vars
  BY ConsentStep
<1> QED BY <1>1, Invariant, PTL DEF Spec, ConsentNeedsItsCard
=============================================================================
