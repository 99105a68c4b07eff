--------------------------- MODULE AuthorizePage ---------------------------
(* The sign-in pages of the portal (src/frontend/src/app/oauth/authorize and  *)
(* src/frontend/src/app/login) in the tabs of one browser.  The tabs share    *)
(* the session cookie; each tab keeps the account it displays in AuthProvider *)
(* (components/auth-provider.tsx), filled once from the document request and  *)
(* then only by setUser.                                                      *)
(*                                                                            *)
(* A request is three steps: sent by a control, served by the backend, and    *)
(* its answer handled by the continuation after the await.  Whatever else the *)
(* tabs do may happen between two of them, leaving the page included: the     *)
(* continuation of a page that was left still runs, its setState calls change *)
(* nothing, its router and location calls do.                                 *)
EXTENDS Naturals

CONSTANTS
  Users,    \* accounts a person at this browser can sign in to
  Tabs,     \* tabs of the browser
  Nobody    \* no account: no session, or the user null of AuthProvider

ASSUME NobodyAssumption == Nobody \notin Users

VARIABLES
  cookie,   \* the account of the session the browser's cookie names, or Nobody
  live,     \* accounts whose session is neither revoked nor expired
  consents, \* accounts with an active consent that covers the request
  tab,      \* the state of each tab
  call      \* the requests of each tab

backend == <<cookie, live, consents>>
vars == <<cookie, live, consents, tab, call>>

\* "elsewhere" is any other page of the portal, "away" a document that is not
\* the portal's (the application that asked for the login, or none).
Pages == {"away", "authorize", "login", "elsewhere"}

\* The ClientInfo of the page, reduced to its consent_required.
NoClient == "none"
Clients == {NoClient, "known", "ask"}

TabState ==
  [page : Pages, user : Users \cup {Nobody}, client : Clients, loading : BOOLEAN,
   approving : BOOLEAN, due : BOOLEAN, complete : BOOLEAN, callback : BOOLEAN]

\* "context" loads ClientInfo, "act" is the request of the last button of the
\* page, "left" one whose page has been left.  Only one request of a tab is
\* left behind at a time (the bound of this model).
Slots == {"context", "act", "left"}
Idle == [op |-> "none"]
Answers == {"waiting", "ok", "known", "ask", "redirect", "consent_required", "error"}
CallState ==
  {Idle}
    \cup [op : {"context", "logout"}, ans : Answers, as : Users \cup {Nobody}]
    \cup [op : {"authorize"}, ans : Answers, as : Users \cup {Nobody},
          approved : BOOLEAN, card : BOOLEAN, shown : Users]
    \cup [op : {"login"}, ans : Answers, as : Users, dest : {"authorize", "elsewhere"}]

TypeOK ==
  /\ cookie \in Users \cup {Nobody}
  /\ live \subseteq Users
  /\ consents \subseteq Users
  /\ tab \in [Tabs -> TabState]
  /\ call \in [Tabs -> [Slots -> CallState]]

Closed == [page |-> "away", user |-> Nobody, client |-> NoClient, loading |-> TRUE,
           approving |-> FALSE, due |-> FALSE, complete |-> FALSE, callback |-> FALSE]
NoCalls == [s \in Slots |-> Idle]

Init ==
  /\ cookie \in Users \cup {Nobody}
  /\ live = {cookie} \cap Users
  /\ consents \in SUBSET Users
  /\ tab = [t \in Tabs |-> Closed]
  /\ call = [t \in Tabs |-> NoCalls]
-----------------------------------------------------------------------------
(* Navigation *)

\* A page's own state is that of a first render; complete and the history
\* entry of the authorize page stay with the tab.
Mounted(s, p) ==
  [s EXCEPT !.page = p, !.client = NoClient, !.loading = TRUE, !.approving = FALSE,
            !.due = (p = "authorize")]

\* The effect's cleanup drops the context load; the request of a button stays.
Abandon(c) ==
  [c EXCEPT !["context"] = Idle, !["act"] = Idle,
            !["left"] = IF c["act"] = Idle THEN @ ELSE c["act"]]
CanLeave(c) == Idle \in {c["act"], c["left"]}

GoTo(t, s, c) ==
  /\ tab' = [tab EXCEPT ![t] = s]
  /\ call' = [call EXCEPT ![t] = c]

\* The initial user of a document: an absent cookie, a refusal and a session
\* request that fails or exceeds its five seconds all give null.
GetInitialUser == {Nobody} \cup ({cookie} \cap live)

\* An application sends the browser to the authorize page, with a complete
\* request or not.
Open(t) ==
  /\ tab[t].page = "away"
  /\ \E u \in GetInitialUser, complete \in BOOLEAN :
       GoTo(t, Mounted([Closed EXCEPT !.user = u, !.complete = complete], "authorize"),
            NoCalls)
  /\ UNCHANGED backend

\* Links and the back button, inside the portal: nothing is fetched again for
\* AuthProvider.
Navigate(t, p) ==
  /\ tab[t].page \notin {"away", p}
  /\ p # "away"
  /\ CanLeave(call[t])
  /\ GoTo(t, [Mounted(tab[t], p) EXCEPT !.callback = FALSE], Abandon(call[t]))
  /\ UNCHANGED backend

\* window.location.assign: the document is unloaded.
LeavePortal(t) == GoTo(t, Closed, NoCalls)
-----------------------------------------------------------------------------
(* The authorize page *)

OnAuthorize(t) == tab[t].page = "authorize"
SkeletonShown(t) == OnAuthorize(t) /\ (tab[t].loading \/ tab[t].user = Nobody)
AccountChoiceShown(t) ==
  OnAuthorize(t) /\ ~SkeletonShown(t) /\ tab[t].client = "known"
ConsentCardShown(t) ==
  OnAuthorize(t) /\ ~SkeletonShown(t) /\ tab[t].client # "known"

DecisionEnabled(t) ==
  /\ AccountChoiceShown(t) \/ ConsentCardShown(t)
  /\ tab[t].client # NoClient
  /\ ~tab[t].approving

\* The effect on the account and the request.
SignInFirst(t) ==
  /\ OnAuthorize(t) /\ tab[t].due
  /\ tab[t].user = Nobody
  /\ CanLeave(call[t])
  /\ GoTo(t, [Mounted(tab[t], "login") EXCEPT !.callback = TRUE], Abandon(call[t]))
  /\ UNCHANGED backend

RefuseIncomplete(t) ==
  /\ OnAuthorize(t) /\ tab[t].due
  /\ tab[t].user # Nobody /\ ~tab[t].complete
  /\ tab' = [tab EXCEPT ![t].due = FALSE, ![t].loading = FALSE]
  /\ UNCHANGED <<cookie, live, consents, call>>

LoadContext(t) ==
  /\ OnAuthorize(t) /\ tab[t].due
  /\ tab[t].user # Nobody /\ tab[t].complete
  /\ tab' = [tab EXCEPT ![t].due = FALSE]
  /\ call' = [call EXCEPT ![t]["context"] = 
       [op |-> "context", ans |-> "waiting", as |-> cookie]]
  /\ UNCHANGED backend

Press(t, request) ==
  /\ tab' = [tab EXCEPT ![t].approving = TRUE]
  /\ call' = [call EXCEPT ![t]["act"] = request]
  /\ UNCHANGED backend

\* Slip: the page sends that the user consented whatever it displays.
AlwaysApproved(t) == TRUE
ConsentApproved(t) == tab[t].client = "ask"

Approve(t) ==
  /\ DecisionEnabled(t)
  /\ Press(t, [op |-> "authorize", ans |-> "waiting", as |-> cookie,
               approved |-> ConsentApproved(t), card |-> ConsentCardShown(t),
               shown |-> tab[t].user])

Cancel(t) ==
  /\ DecisionEnabled(t)
  /\ LeavePortal(t)
  /\ UNCHANGED backend

SwitchEnabled(t) ==
  /\ AccountChoiceShown(t) \/ ConsentCardShown(t)
  /\ ~tab[t].approving

UseAnotherAccount(t) ==
  /\ SwitchEnabled(t)
  /\ Press(t, [op |-> "logout", ans |-> "waiting", as |-> cookie])
-----------------------------------------------------------------------------
(* The login page *)

\* safeLoginDestination accepts the authorize page with a complete request and
\* nothing else.
SafeLoginDestination(t) ==
  IF tab[t].callback /\ tab[t].complete THEN "authorize" ELSE "elsewhere"

\* The button is disabled while a login is submitted.
SubmitLogin(t, u) ==
  /\ tab[t].page = "login"
  /\ call[t]["act"] = Idle
  /\ call' = [call EXCEPT ![t]["act"] =
       [op |-> "login", ans |-> "waiting", as |-> u, dest |-> SafeLoginDestination(t)]]
  /\ UNCHANGED <<cookie, live, consents, tab>>
-----------------------------------------------------------------------------
(* The backend *)

Reply(t, s, a) == call' = [call EXCEPT ![t][s].ans = a]
Waiting(t, s, op) == call[t][s].op = op /\ call[t][s].ans = "waiting"
SignedIn(t, s) == call[t][s].as \in live

\* RequireSession decides for the cookie the request was sent with.  A dead
\* session is answered with a cookie that ends the browser's, whichever session
\* that names by now.  Any request may also fail on its way or in the backend.
Refuse(t, s) ==
  /\ Reply(t, s, "error")
  /\ \/ cookie' = cookie
     \/ cookie' = Nobody /\ ~SignedIn(t, s) /\ call[t][s].as # Nobody
  /\ UNCHANGED <<live, consents, tab>>

\* GET authorization-context: refusals for the session, the client, the scope
\* or the admission, else whether the account must consent.
RefuseContext(t) == Waiting(t, "context", "context") /\ Refuse(t, "context")

ServeContext(t) ==
  /\ Waiting(t, "context", "context")
  /\ SignedIn(t, "context")
  /\ Reply(t, "context", IF call[t]["context"].as \in consents THEN "known" ELSE "ask")
  /\ UNCHANGED <<cookie, live, consents, tab>>

\* POST authorize decides for the account of the session, not for the one the
\* page displays.
RefuseAuthorize(t, s) ==
  /\ Waiting(t, s, "authorize")
  /\ Refuse(t, s)

RedirectError(t, s) ==
  /\ Waiting(t, s, "authorize")
  /\ SignedIn(t, s)
  /\ Reply(t, s, "redirect")
  /\ UNCHANGED <<cookie, live, consents, tab>>

AskConsent(t, s) ==
  /\ Waiting(t, s, "authorize")
  /\ SignedIn(t, s)
  /\ call[t][s].as \notin consents /\ ~call[t][s].approved
  /\ Reply(t, s, "consent_required")
  /\ UNCHANGED <<cookie, live, consents, tab>>

\* The answer of an authorization that was stored may be lost.
IssueCode(t, s) ==
  /\ Waiting(t, s, "authorize")
  /\ SignedIn(t, s)
  /\ call[t][s].as \in consents \/ call[t][s].approved
  /\ consents' = consents \cup {call[t][s].as}
  /\ \E a \in {"redirect", "error"} : Reply(t, s, a)
  /\ UNCHANGED <<cookie, live, tab>>

\* POST logout needs no session and reports success; the request or its answer,
\* with the cookie it ends, may be lost.
ServeLogout(t, s) ==
  /\ Waiting(t, s, "logout")
  /\ \/ /\ live' = live \ {call[t][s].as}
        /\ \/ Reply(t, s, "ok") /\ cookie' = Nobody
           \/ Reply(t, s, "error") /\ cookie' = cookie
     \/ Reply(t, s, "error") /\ UNCHANGED <<cookie, live>>
  /\ UNCHANGED <<consents, tab>>

ServeLogin(t, s) ==
  /\ Waiting(t, s, "login")
  /\ \/ /\ live' = live \cup {call[t][s].as}
        /\ \/ Reply(t, s, "ok") /\ cookie' = call[t][s].as
           \/ Reply(t, s, "error") /\ cookie' = cookie
     \/ Reply(t, s, "error") /\ UNCHANGED <<cookie, live>>
  /\ UNCHANGED <<consents, tab>>

\* Expiry, revocation from another device.
SessionEnds(u) ==
  /\ u \in live
  /\ live' = live \ {u}
  /\ UNCHANGED <<cookie, consents, tab, call>>

\* "Cabut akses", a revoked assignment.
ConsentRevoked(u) ==
  /\ u \in consents
  /\ consents' = consents \ {u}
  /\ UNCHANGED <<cookie, live, tab, call>>
-----------------------------------------------------------------------------
(* The continuations *)

\* Slip: the page's state outlives the page, and a request of the page that was
\* left sets the state of the one displayed.
SharedState(s, set, kept) == set
\* setState changes nothing once the page of the request has been left.
PageState(s, set, kept) == IF s = "act" THEN set ELSE kept

Answered(t, s, op) == call[t][s].op = op /\ call[t][s].ans # "waiting"
Done(t, s) == [call[t] EXCEPT ![s] = Idle]

\* Slip: the finally of the load is skipped when the context is refused.
LoadingAfterSuccess(a) == a = "error"
LoadingAfter(a) == FALSE

\* Slip: the answer is taken for a client whatever its status.
AnyAnswer(c, a) == a
ClientAfter(c, a) == IF a = "error" THEN c ELSE a

\* A superseded load was dropped with its active flag.
ContextAnswered(t) ==
  /\ Answered(t, "context", "context")
  /\ LET a == call[t]["context"].ans IN
       GoTo(t, [tab[t] EXCEPT !.client = ClientAfter(@, a),
                              !.loading = @ /\ LoadingAfter(a)],
            Done(t, "context"))
  /\ UNCHANGED backend

AuthorizeRedirected(t, s) ==
  /\ Answered(t, s, "authorize")
  /\ call[t][s].ans = "redirect"
  /\ LeavePortal(t)
  /\ UNCHANGED backend

\* Slip: a refusal for want of consent leaves the button waiting.
WaitForConsent(a) == a = "consent_required"
ApprovingAfter(a) == FALSE

AuthorizeRefused(t, s) ==
  /\ Answered(t, s, "authorize")
  /\ call[t][s].ans # "redirect"
  /\ LET a == call[t][s].ans
         refused == [tab[t] EXCEPT
           !.approving = ApprovingAfter(a),
           !.client = IF a = "consent_required" /\ @ # NoClient THEN "ask" ELSE @]
     IN  GoTo(t, PageState(s, refused, tab[t]), Done(t, s))
  /\ UNCHANGED backend

\* router.replace(login) keeps the account of AuthProvider: only the session
\* has ended.  The request of the page it leaves, if there is one, is a third
\* request, and waits for its turn.
LogoutAnswered(t, s) ==
  /\ Answered(t, s, "logout")
  /\ IF call[t][s].ans = "ok"
     THEN /\ s = "left" => call[t]["act"] = Idle
          /\ GoTo(t, [Mounted(tab[t], "login") EXCEPT !.callback = OnAuthorize(t)],
                  Abandon(Done(t, s)))
     ELSE GoTo(t, PageState(s, [tab[t] EXCEPT !.approving = FALSE], tab[t]),
               Done(t, s))
  /\ UNCHANGED backend

\* setUser and router.replace(dest).  An authorize page that is already there
\* stays mounted and runs its effect again for the new account.
LoginAnswered(t, s) ==
  /\ Answered(t, s, "login")
  /\ LET c == call[t][s] IN
       IF c.ans # "ok" THEN GoTo(t, tab[t], Done(t, s))
       ELSE LET known == [tab[t] EXCEPT !.user = c.as] IN
            IF OnAuthorize(t) /\ c.dest = "authorize"
            THEN GoTo(t, [known EXCEPT !.due = TRUE], Done(t, s))
            ELSE GoTo(t, Mounted(known, c.dest), Abandon(Done(t, s)))
  /\ UNCHANGED backend
-----------------------------------------------------------------------------
Portal(t) ==
  \/ Open(t)
  \/ \E p \in Pages : Navigate(t, p)
  \/ SignInFirst(t) \/ RefuseIncomplete(t) \/ LoadContext(t)
  \/ Approve(t) \/ Cancel(t) \/ UseAnotherAccount(t)
  \/ \E u \in Users : SubmitLogin(t, u)

Decide(t, s) ==
  \/ RefuseAuthorize(t, s) \/ RedirectError(t, s) \/ AskConsent(t, s) \/ IssueCode(t, s)
  \/ ServeLogout(t, s) \/ ServeLogin(t, s)

Backend(t) ==
  \/ RefuseContext(t) \/ ServeContext(t)
  \/ \E s \in {"act", "left"} : Decide(t, s)

Continuation(t) ==
  \/ ContextAnswered(t)
  \/ \E s \in {"act", "left"} :
       \/ AuthorizeRedirected(t, s) \/ AuthorizeRefused(t, s)
       \/ LogoutAnswered(t, s) \/ LoginAnswered(t, s)

Next ==
  \/ \E t \in Tabs : Portal(t) \/ Backend(t) \/ Continuation(t)
  \/ \E u \in Users : SessionEnds(u) \/ ConsentRevoked(u)

Spec == Init /\ [][Next]_vars

\* React runs its effects, the backend answers or the request fails, and the
\* event loop runs what follows an await.  Nobody need press anything.
Effects(t) == SignInFirst(t) \/ RefuseIncomplete(t) \/ LoadContext(t)
Fairness ==
  \A t \in Tabs :
    /\ WF_vars(Effects(t))
    /\ WF_vars(RefuseContext(t) \/ ServeContext(t)) /\ WF_vars(ContextAnswered(t))
    /\ \A s \in {"act", "left"} :
         /\ WF_vars(Decide(t, s))
         /\ WF_vars(AuthorizeRedirected(t, s) \/ AuthorizeRefused(t, s)
                      \/ LogoutAnswered(t, s) \/ LoginAnswered(t, s))
FairSpec == Spec /\ Fairness
-----------------------------------------------------------------------------
(* Properties *)

\* The page is busy exactly while a decision of its own is in flight: neither a
\* second authorization nor a switch of the account can be sent beside one,
\* and the late answer to a page that was left does not free the one displayed.
OneDecisionInFlight ==
  \A t \in Tabs :
    OnAuthorize(t) => (tab[t].approving <=> call[t]["act"] # Idle)

\* An authorization for the account u is served in this step.
Granted(t, s, u) ==
  /\ Waiting(t, s, "authorize") /\ call[t][s].as = u
  /\ call'[t][s] # call[t][s]

\* A consent is stored only by an answer given on the card that lists the
\* scopes, never by the account choice, whichever account it is stored for.
ConsentNeedsItsCard ==
  [][\A u \in consents' \ consents :
       \E t \in Tabs, s \in Slots : Granted(t, s, u) /\ call[t][s].card]_vars

\* Does not hold, see the README: a person who consents sees the account that
\* gives it, what the comment at oauth_consent.go:44-45 asks of the UI.  The
\* session that the request was sent with decides, and another tab may have
\* changed it since the page was displayed.
ConsentShownToGranter ==
  [][\A u \in consents' \ consents :
       \E t \in Tabs, s \in Slots : Granted(t, s, u) /\ call[t][s].shown = u]_vars

\* A pressed decision ends: the tab leaves or its buttons work again.
DecisionSettles ==
  \A t \in Tabs : tab[t].approving ~> ~(OnAuthorize(t) /\ tab[t].approving)

\* The skeleton of the authorize page is not for ever.
SkeletonEnds == \A t \in Tabs : SkeletonShown(t) ~> ~SkeletonShown(t)
=============================================================================
