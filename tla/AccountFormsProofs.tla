------------------------- MODULE AccountFormsProofs -------------------------
(***************************************************************************)
(* Theorems about AccountForms: types, what a person is told of a request, *)
(* and the challenge's token that is not sent again.                       *)
(*                                                                         *)
(* A request outlives its page.  What keeps the pages right is that the    *)
(* continuation of a request writes into a page only when that page sent   *)
(* it (MineIsHere), that an answer of success stays true while it is on    *)
(* its way (AnswerIsTrue), and that a token that was sent stands in a form *)
(* only while that form waits for the answer, or after the registration    *)
(* was accepted and until the next page has arrived (SpentWaits).          *)
(***************************************************************************)
EXTENDS AccountForms, TLAPS

\* The page that sends a request of this kind.
PageOf(op) == CASE op = "register" -> "register"
                [] op \in {"verify", "resend"} -> "verify"
                [] op \in {"reset", "request"} -> "reset"
                [] op = "security" -> "security"

InFlight(s) == call[s] # Idle

MineIsHere ==
  \A s \in Slots : InFlight(s) /\ call[s].mine => page.name = PageOf(call[s].op)

ResendHasItsSlot == InFlight("resend") => call["resend"].op = "resend"

\* Accounts never go back, and a reset link is not replaced while a request
\* with it is in flight.
AnswerIsTrue ==
  \A s \in Slots : InFlight(s) /\ call[s].ans = "ok" =>
    /\ call[s].op = "register" => account[call[s].email] # "none"
    /\ call[s].op = "verify" => account[call[s].email] = "verified"
    /\ call[s].op = "reset" => link = "used"

SpentWaits ==
  /\ page.token # "none" => On("register")
  /\ page.token = "spent" =>
       \/ InFlight("submit") /\ call["submit"].mine
       \/ ~InFlight("submit") /\ nav.news = "registered"

IInv == TypeOK /\ MineIsHere /\ ResendHasItsSlot /\ AnswerIsTrue /\ SpentWaits /\ SuccessIsTrue

-----------------------------------------------------------------------------
(* What the actions are built from.                                        *)

LEMMA AnyEmailIsEmail == AnyEmail \in Emails
BY EmailsAssumption DEF AnyEmail

\* A first render is a page, and holds no token.
LEMMA FreshPage ==
  ASSUME NEW n \in Names, NEW e \in Emails
  PROVE  /\ Fresh(n, e) \in PageState
         /\ Fresh(n, e).name = n
         /\ Fresh(n, e).token = "none"
<1>1. 0 \in 0..Delay
  BY DelayAssumption
<1> QED BY <1>1, AnyEmailIsEmail DEF Fresh, PageState, Tokens, Widgets, Fields

\* A request that is there has the fields of one.
LEMMA PostShape ==
  ASSUME TypeOK, NEW s \in Slots, InFlight(s)
  PROVE  call[s] \in Posts
BY DEF TypeOK, InFlight

LEMMA IdleIsNoPost == Idle \notin Posts
BY DEF Idle, Posts

\* Leaving a page keeps what is in flight, and makes none of it the new page's.
LEMMA LeavingCalls ==
  ASSUME NEW c \in [Slots -> Posts \cup {Idle}]
  PROVE  /\ Leaving(c) \in [Slots -> Posts \cup {Idle}]
         /\ \A s \in Slots : /\ Leaving(c)[s] # Idle <=> c[s] # Idle
                             /\ c[s] # Idle => /\ Leaving(c)[s].op = c[s].op
                                               /\ Leaving(c)[s].email = c[s].email
                                               /\ Leaving(c)[s].ans = c[s].ans
                                               /\ Leaving(c)[s].mine = FALSE
<1>1. \A s \in Slots : c[s] # Idle =>
        /\ [c[s] EXCEPT !.mine = FALSE] \in Posts
        /\ [c[s] EXCEPT !.mine = FALSE].op = c[s].op
        /\ [c[s] EXCEPT !.mine = FALSE].email = c[s].email
        /\ [c[s] EXCEPT !.mine = FALSE].ans = c[s].ans
        /\ [c[s] EXCEPT !.mine = FALSE].mine = FALSE
  BY DEF Posts
<1> QED BY <1>1, IdleIsNoPost DEF Leaving

LEMMA DoneCalls ==
  ASSUME TypeOK, NEW s \in Slots
  PROVE  /\ Done(s) \in [Slots -> Posts \cup {Idle}]
         /\ Done(s)[s] = Idle
         /\ \A q \in Slots : q # s => Done(s)[q] = call[q]
BY DEF TypeOK, Done

-----------------------------------------------------------------------------
(* The parts of the invariant that talk of requests.                       *)

CallsKnown == MineIsHere /\ ResendHasItsSlot /\ AnswerIsTrue

\* A step that ends requests or leaves the page they belong to, and changes no
\* row, keeps what is known of those that remain.
LEMMA CallsKept ==
  ASSUME TypeOK, CallsKnown, UNCHANGED account,
         \A s \in Slots : call'[s] # Idle =>
           /\ call[s] # Idle
           /\ call'[s].op = call[s].op /\ call'[s].email = call[s].email
           /\ call'[s].ans = call[s].ans
           /\ call'[s].mine => call[s].mine /\ page'.name = page.name
           /\ call[s].op = "reset" => link' = link
  PROVE  CallsKnown'
<1>1. MineIsHere'
  BY DEF CallsKnown, MineIsHere, InFlight
<1>2. ResendHasItsSlot'
  BY DEF CallsKnown, ResendHasItsSlot, InFlight, Slots
<1>3. AnswerIsTrue'
  BY DEF CallsKnown, AnswerIsTrue, InFlight
<1> QED BY <1>1, <1>2, <1>3 DEF CallsKnown

\* What the router was asked for is told truly as long as rows only move on, and
\* nothing is when it was asked for nothing.
LEMMA NowhereTellsNothing == Nowhere.news = "none"
BY DEF Nowhere

\* A page that keeps its name and its token, or drops the token, beside requests
\* that stay.
LEMMA PageKept ==
  ASSUME SpentWaits, SuccessIsTrue, UNCHANGED <<backend, nav, call>>,
         page'.name = page.name,
         page'.token \in {"none", page.token} \/ (page'.token = "fresh" /\ On("register"))
  PROVE  SpentWaits' /\ SuccessIsTrue'
BY DEF SpentWaits, SuccessIsTrue, On, backend, InFlight

-----------------------------------------------------------------------------
(* The actions.                                                            *)

LEMMA VisitStep ==
  ASSUME IInv, NEW n \in Names, NEW e \in Emails, NEW linked \in BOOLEAN, Visit(n, e, linked)
  PROVE  IInv'
<1> USE DEF IInv
<1> DEFINE p == Fresh(n, e)
<1>1. p \in PageState /\ p.name = n /\ p.token = "none"
  BY FreshPage
<1>2. page' = [p EXCEPT !.linked = linked] /\ call' = Leaving(call) /\ nav' = Nowhere
  BY DEF Visit
<1> HIDE DEF p
<1>3. page' \in PageState /\ page'.name = n /\ page'.token = "none"
  BY <1>1, <1>2 DEF PageState
<1>4. /\ call' \in [Slots -> Posts \cup {Idle}]
      /\ \A s \in Slots : /\ call'[s] # Idle <=> call[s] # Idle
                          /\ call[s] # Idle => /\ call'[s].op = call[s].op
                                               /\ call'[s].email = call[s].email
                                               /\ call'[s].ans = call[s].ans
                                               /\ call'[s].mine = FALSE
  BY <1>2, LeavingCalls DEF TypeOK
<1>5. UNCHANGED <<account, stored>>
  BY DEF Visit
<1>6. link' \in {"none", "usable", "used"}
  BY DEF Visit, TypeOK
<1>7. TypeOK'
  BY <1>2, <1>3, <1>4, <1>5, <1>6 DEF TypeOK
<1>8. \A s \in Slots : call[s] # Idle /\ call[s].op = "reset" => link' = link
  <2> SUFFICES ASSUME NEW s \in Slots, call[s] # Idle, call[s].op = "reset"
               PROVE  link' = link
    OBVIOUS
  <2>1. s = "submit"
    BY DEF ResendHasItsSlot, InFlight, Slots
  <2>2. page.name = "reset"
    BY DEF Visit, MineIsHere, InFlight, PageOf
  <2>3. ~linked
    BY <2>2 DEF Visit
  <2> QED BY <2>1, <2>3 DEF Visit
<1>9. CallsKnown'
  BY <1>4, <1>5, <1>8, CallsKept DEF CallsKnown
<1>10. SpentWaits' /\ SuccessIsTrue'
  BY <1>2, <1>3, NowhereTellsNothing DEF SpentWaits, SuccessIsTrue
<1> QED BY <1>7, <1>9, <1>10 DEF CallsKnown

LEMMA ArriveStep ==
  ASSUME IInv, Arrive
  PROVE  IInv'
<1> USE DEF IInv
<1>1. nav \in Navs /\ nav' = Nowhere /\ UNCHANGED <<account, link, stored>>
  BY DEF Arrive, TypeOK, backend
<1>2. nav.name \in {"verify", "login"} /\ nav.email \in Emails
  BY <1>1 DEF Navs
<1>3. SuccessIsTrue'
  BY <1>1, NowhereTellsNothing DEF SuccessIsTrue
<1>4. CASE On(nav.name)
  <2>1. UNCHANGED <<page, call>>
    BY <1>4 DEF Arrive
  <2>2. TypeOK' /\ CallsKnown'
    BY <1>1, <2>1, CallsKept DEF TypeOK, CallsKnown
  <2>3. SpentWaits'
    BY <1>2, <1>4, <2>1 DEF SpentWaits, On
  <2> QED BY <1>3, <2>2, <2>3 DEF CallsKnown
<1>5. CASE ~On(nav.name)
  <2>1. page' = Fresh(nav.name, nav.email) /\ call' = Leaving(call)
    BY <1>5 DEF Arrive
  <2>2. page' \in PageState /\ page'.token = "none"
    BY <1>2, <2>1, FreshPage DEF Names
  <2>3. /\ call' \in [Slots -> Posts \cup {Idle}]
        /\ \A s \in Slots : call'[s] # Idle =>
             /\ call[s] # Idle
             /\ call'[s].op = call[s].op /\ call'[s].email = call[s].email
             /\ call'[s].ans = call[s].ans /\ call'[s].mine = FALSE
    BY <2>1, LeavingCalls DEF TypeOK
  <2>4. TypeOK'
    BY <1>1, <2>2, <2>3 DEF TypeOK
  <2>5. CallsKnown'
    BY <1>1, <2>3, CallsKept DEF CallsKnown
  <2>6. SpentWaits'
    BY <2>2 DEF SpentWaits
  <2> QED BY <1>3, <2>4, <2>5, <2>6 DEF CallsKnown
<1> QED BY <1>4, <1>5

\* Steps of the page alone: what they may do to it.
LEMMA PageOnlyStep ==
  ASSUME IInv, UNCHANGED <<backend, nav, call>>, stored' \in [Emails -> 0..Delay],
         page' \in PageState, page'.name = page.name,
         page'.token \in {"none", page.token} \/ (page'.token = "fresh" /\ On("register"))
  PROVE  IInv'
<1> USE DEF IInv
<1>1. TypeOK'
  BY DEF TypeOK, backend
<1>2. CallsKnown'
  BY CallsKept DEF CallsKnown, backend
<1>3. SpentWaits' /\ SuccessIsTrue'
  BY PageKept
<1> QED BY <1>1, <1>2, <1>3 DEF CallsKnown

LEMMA EditStep ==
  ASSUME IInv,
         \/ \E e \in Emails : EditEmail(e)
         \/ \E f \in Fields : EditPasswords(f)
  PROVE  IInv'
<1>1. page \in PageState /\ UNCHANGED <<backend, nav, call, stored>>
  BY DEF IInv, TypeOK, EditEmail, EditPasswords
<1>2. /\ page' \in PageState /\ page'.name = page.name /\ page'.token = page.token
  BY <1>1 DEF EditEmail, EditPasswords, PageState
<1> QED BY <1>1, <1>2, PageOnlyStep DEF IInv, TypeOK

LEMMA WidgetKeeps ==
  ASSUME IInv, Widget \/ ChallengeFailed \/ ChallengeExpired
  PROVE  IInv'
<1>1. page \in PageState /\ UNCHANGED <<backend, nav, call, stored>> /\ On("register")
  BY DEF IInv, TypeOK, Widget, ChallengeFailed, ChallengeExpired, ResetWidget, RenderWidget,
     ChallengeSolved, WidgetStep
<1>2. /\ page' \in PageState /\ page'.name = page.name
      /\ page'.token \in {"none", "fresh", page.token}
  <2>1. CASE ResetWidget
    BY <1>1, <2>1 DEF ResetWidget, WidgetStep, PageState, Widgets
  <2>2. CASE RenderWidget
    BY <1>1, <2>2 DEF RenderWidget, WidgetStep, PageState, Widgets
  <2>3. CASE ChallengeSolved
    BY <1>1, <2>3 DEF ChallengeSolved, WidgetStep, PageState, Widgets, Tokens
  <2>4. CASE ChallengeFailed
    BY <1>1, <2>4 DEF ChallengeFailed, WidgetStep, PageState, Widgets, Tokens
  <2>5. CASE ChallengeExpired
    BY <1>1, <2>5 DEF ChallengeExpired, WidgetStep, PageState, Widgets, Tokens
  <2> QED BY <2>1, <2>2, <2>3, <2>4, <2>5 DEF Widget
<1> QED BY <1>1, <1>2, PageOnlyStep DEF IInv, TypeOK

LEMMA TimersKeep ==
  ASSUME IInv, Timers \/ ClockTick
  PROVE  IInv'
<1>1. page \in PageState /\ UNCHANGED <<backend, nav, call>> /\ stored \in [Emails -> 0..Delay]
  BY DEF IInv, TypeOK, Timers, ReadDeadline, StartTimer, TimerTick, ClockTick
<1>2. \A n \in 0..Delay : Before(n) \in 0..Delay
  BY DelayAssumption DEF Before
<1>3. page.deadline \in 0..Delay /\ page.email \in Emails
  BY <1>1 DEF PageState
<1>4. CASE ReadDeadline
  <2>1. stored[page.email] \in 0..Delay
    BY <1>1, <1>3
  <2>2. /\ page' \in PageState /\ page'.name = page.name /\ page'.token = page.token
        /\ UNCHANGED stored
    BY <1>1, <1>4, <2>1 DEF ReadDeadline, PageState
  <2> QED BY <1>1, <2>2, PageOnlyStep
<1>5. CASE StartTimer
  <2>1. (page.deadline > 0) \in BOOLEAN
    OBVIOUS
  <2>2. /\ page' \in PageState /\ page'.name = page.name /\ page'.token = page.token
        /\ UNCHANGED stored
    BY <1>1, <1>5, <2>1 DEF StartTimer, PageState
  <2> QED BY <1>1, <2>2, PageOnlyStep
<1>6. CASE TimerTick
  <2>1. /\ page' \in PageState /\ page'.name = page.name /\ page'.token = page.token
        /\ UNCHANGED stored
    BY <1>1, <1>3, <1>6 DEF TimerTick, PageState
  <2> QED BY <1>1, <2>1, PageOnlyStep
<1>7. CASE ClockTick
  <2>1. Before(page.deadline) \in 0..Delay /\ stored' \in [Emails -> 0..Delay]
    BY <1>1, <1>2, <1>3, <1>7 DEF ClockTick
  <2>2. page' = [page EXCEPT !.deadline = Before(page.deadline)]
    BY <1>1, <1>7 DEF ClockTick, PageState
  <2>3. /\ page' \in PageState /\ page'.name = page.name /\ page'.token = page.token
    BY <1>1, <2>1, <2>2 DEF PageState
  <2> QED BY <1>1, <2>1, <2>3, PageOnlyStep
<1> QED BY <1>4, <1>5, <1>6, <1>7 DEF Timers

-----------------------------------------------------------------------------
(* Sending and serving.                                                    *)

Submissions == Register \/ Verify \/ Resend \/ RequestReset \/ ConfirmReset \/ ChangePassword

\* A form sends the requests of its own page, each in its slot.
LEMMA SubmissionSends ==
  ASSUME Submissions
  PROVE  \E s \in Slots, op \in {"register", "verify", "resend", "reset", "security", "request"} :
           /\ Send(s, op)
           /\ page.name = PageOf(op)
           /\ s = "resend" <=> op = "resend"
BY DEF Submissions, Register, Verify, Resend, RequestReset, ConfirmReset, ChangePassword,
       RegisterEnabled, ResendEnabled, On, PageOf, Slots

LEMMA SendStep ==
  ASSUME IInv, Submissions
  PROVE  IInv'
<1> USE DEF IInv
<1>1. PICK s \in Slots, op \in {"register", "verify", "resend", "reset", "security", "request"} :
        /\ Send(s, op)
        /\ page.name = PageOf(op)
        /\ s = "resend" <=> op = "resend"
  BY SubmissionSends
<1>2. page \in PageState /\ page.email \in Emails
  BY DEF TypeOK, PageState
<1>3. Post(op) \in Posts
  BY <1>2 DEF Post, Posts
<1>4. call' \in [Slots -> Posts \cup {Idle}] /\ call'[s] = Post(op)
      /\ \A q \in Slots : q # s => call'[q] = call[q]
  BY <1>1, <1>3 DEF Send, TypeOK
<1>5. UNCHANGED <<account, link, stored, nav>>
  BY <1>1 DEF Send, backend
<1>6. /\ page' \in PageState /\ page'.name = page.name
      /\ page'.token = page.token \/ (page'.token = "spent" /\ op = "register")
  <2>1. CASE s = "resend"
    BY <1>1, <1>2, <2>1 DEF Send, PageState
  <2>2. CASE s # "resend"
    BY <1>1, <1>2, <2>2 DEF Send, PageState, Tokens
  <2> QED BY <2>1, <2>2
<1>7. TypeOK'
  BY <1>4, <1>5, <1>6 DEF TypeOK
<1>8. MineIsHere'
  BY <1>1, <1>4, <1>6 DEF MineIsHere, InFlight, Post
<1>9. ResendHasItsSlot'
  BY <1>1, <1>4 DEF ResendHasItsSlot, InFlight, Slots, Post
<1>10. AnswerIsTrue'
  BY <1>4, <1>5 DEF AnswerIsTrue, InFlight, Post
<1>11. page'.token = "spent" => InFlight("submit")' /\ call'["submit"].mine
  <2> SUFFICES ASSUME page'.token = "spent"
               PROVE  InFlight("submit")' /\ call'["submit"].mine
    OBVIOUS
  <2>1. page.name = "register"
    BY <1>1, <1>6 DEF SpentWaits, On, PageOf
  <2>2. op = "register" /\ s = "submit"
    BY <1>1, <2>1 DEF PageOf, Slots
  <2> QED BY <1>4, <2>2 DEF InFlight, Post, Idle
<1>12. page'.token # "none" => page'.name = "register"
  BY <1>1, <1>6 DEF SpentWaits, On, PageOf
<1>13. SpentWaits' /\ SuccessIsTrue'
  BY <1>5, <1>11, <1>12 DEF SpentWaits, SuccessIsTrue, On
<1> QED BY <1>7, <1>8, <1>9, <1>10, <1>13

\* An answer and what was done for it: success is true, rows only move on.
LEMMA ServeStep ==
  ASSUME IInv, NEW s \in Slots, Serve(s)
  PROVE  IInv'
<1> USE DEF IInv
<1>1. call[s] # Idle /\ call[s].ans = "waiting"
  BY DEF Serve, Refuse, ServeRegister, ServeVerify, Serve200, ServeReset, Waiting
<1>2. call[s] \in Posts /\ call[s].email \in Emails
  BY <1>1, PostShape DEF InFlight, Posts
<1>3. PICK a \in {"ok", "error"} : Reply(s, a)
  BY DEF Serve, Refuse, ServeRegister, ServeVerify, Serve200, ServeReset
<1>4. UNCHANGED <<stored, page, nav>> /\ call' = [call EXCEPT ![s].ans = a]
  BY <1>3 DEF Reply
<1>5. /\ call'[s] \in Posts /\ call'[s] = [call[s] EXCEPT !.ans = a]
      /\ call' \in [Slots -> Posts \cup {Idle}]
      /\ \A q \in Slots : q # s => call'[q] = call[q]
  BY <1>2, <1>4 DEF TypeOK, Posts
<1>6. call'[s].op = call[s].op /\ call'[s].email = call[s].email
      /\ call'[s].mine = call[s].mine /\ call'[s].ans = a
  BY <1>2, <1>5 DEF Posts
<1>7. /\ account' \in [Emails -> {"none", "unverified", "verified"}]
      /\ \A e \in Emails : /\ account[e] # "none" => account'[e] # "none"
                           /\ account[e] = "verified" => account'[e] = "verified"
      /\ link' = link \/ (link = "usable" /\ link' = "used")
  <2>1. CASE Refuse(s) \/ Serve200(s)
    BY <2>1 DEF Refuse, Serve200, backend, TypeOK
  <2>2. CASE ServeRegister(s)
    BY <2>2, <1>2 DEF ServeRegister, TypeOK
  <2>3. CASE ServeVerify(s)
    BY <2>3, <1>2 DEF ServeVerify, TypeOK
  <2>4. CASE ServeReset(s)
    BY <2>4 DEF ServeReset, TypeOK
  <2> QED BY <2>1, <2>2, <2>3, <2>4 DEF Serve
<1>8. a = "ok" =>
        /\ call[s].op = "register" => account'[call[s].email] # "none"
        /\ call[s].op = "verify" => account'[call[s].email] = "verified"
        /\ call[s].op = "reset" => link' = "used"
  <2> SUFFICES ASSUME a = "ok"
               PROVE  /\ call[s].op = "register" => account'[call[s].email] # "none"
                      /\ call[s].op = "verify" => account'[call[s].email] = "verified"
                      /\ call[s].op = "reset" => link' = "used"
    OBVIOUS
  <2>1. ~Refuse(s)
    <3> SUFFICES ASSUME Refuse(s) PROVE FALSE
      OBVIOUS
    <3>1. call' = [call EXCEPT ![s].ans = "error"]
      BY DEF Refuse, Reply
    <3>2. call'[s].ans = "error"
      BY <3>1, <1>2 DEF TypeOK, Posts
    <3> QED BY <3>2, <1>6
  <2>2. CASE ServeRegister(s)
    BY <2>2, <1>2 DEF ServeRegister, Waiting, TypeOK
  <2>3. CASE ServeVerify(s)
    BY <2>3, <1>2 DEF ServeVerify, Waiting, TypeOK
  <2>4. CASE Serve200(s)
    BY <2>4 DEF Serve200, Waiting
  <2>5. CASE ServeReset(s)
    BY <2>5 DEF ServeReset, Waiting
  <2> QED BY <2>1, <2>2, <2>3, <2>4, <2>5 DEF Serve
<1>9. TypeOK'
  BY <1>4, <1>5, <1>7 DEF TypeOK
<1>10. \A q \in Slots : InFlight(q)' => InFlight(q) /\ call'[q].op = call[q].op
                                      /\ call'[q].email = call[q].email
                                      /\ call'[q].mine = call[q].mine
  BY <1>1, <1>5, <1>6 DEF InFlight
<1>11. MineIsHere' /\ ResendHasItsSlot'
  BY <1>4, <1>10 DEF MineIsHere, ResendHasItsSlot, Slots
<1>12. AnswerIsTrue'
  <2> SUFFICES ASSUME NEW q \in Slots, InFlight(q)', call'[q].ans = "ok"
               PROVE  /\ call'[q].op = "register" => account'[call'[q].email] # "none"
                      /\ call'[q].op = "verify" => account'[call'[q].email] = "verified"
                      /\ call'[q].op = "reset" => link' = "used"
    BY DEF AnswerIsTrue
  <2>1. CASE q = s
    BY <2>1, <1>6, <1>8
  <2>2. CASE q # s
    <3>1. InFlight(q) /\ call'[q] = call[q] /\ call[q].email \in Emails
      BY <2>2, <1>5, <1>10, PostShape DEF Posts
    <3> QED BY <3>1, <1>7 DEF AnswerIsTrue
  <2> QED BY <2>1, <2>2
<1>13. SpentWaits'
  <2>1. InFlight("submit") <=> InFlight("submit")'
    BY <1>1, <1>5, <1>6, IdleIsNoPost DEF InFlight, Slots
  <2>2. InFlight("submit")' => call'["submit"].mine = call["submit"].mine
    BY <1>10 DEF Slots
  <2> QED BY <1>4, <2>1, <2>2 DEF SpentWaits, On
<1>14. nav # Nowhere => nav.email \in Emails
  BY DEF TypeOK, Navs
<1>15. SuccessIsTrue'
  BY <1>4, <1>7, <1>14, NowhereTellsNothing DEF SuccessIsTrue
<1> QED BY <1>9, <1>11, <1>12, <1>13, <1>15

-----------------------------------------------------------------------------
(* Continuations.                                                          *)

\* The request that ended was the one in the submit slot, or that one is
\* untouched and its page too.
LEMMA SpentAfter ==
  ASSUME IInv, NEW s \in Slots, InFlight(s), call' = Done(s), page'.name = page.name,
         \/ page'.token = "none"
         \/ /\ page'.token = page.token
            /\ IF s = "resend" THEN UNCHANGED nav
               ELSE nav'.news = "registered" \/ ~Mine(s) \/ call[s].op # "register"
  PROVE  SpentWaits'
<1> USE DEF IInv
<1> SUFFICES ASSUME page'.token = page.token, page.token = "spent",
                    IF s = "resend" THEN UNCHANGED nav
                    ELSE nav'.news = "registered" \/ ~Mine(s) \/ call[s].op # "register"
             PROVE  \/ InFlight("submit")' /\ call'["submit"].mine
                    \/ ~InFlight("submit")' /\ nav'.news = "registered"
  BY DEF SpentWaits, On
<1>1. /\ Done(s)[s] = Idle
      /\ \A q \in Slots : q # s => Done(s)[q] = call[q]
  BY DoneCalls
<1>2. CASE s = "resend"
  BY <1>1, <1>2 DEF SpentWaits, InFlight, Slots
<1>3. CASE s = "submit"
  <2>1. Mine(s) /\ page.name = "register"
    BY <1>3 DEF SpentWaits, Mine, On
  <2>2. call[s].op = "register"
    <3>1. call[s] \in Posts /\ page.name = PageOf(call[s].op)
      BY <2>1, PostShape DEF MineIsHere, Mine
    <3> QED BY <2>1, <3>1 DEF PageOf, Posts
  <2> QED BY <1>1, <1>3, <2>1, <2>2 DEF InFlight
<1> QED BY <1>2, <1>3 DEF Slots

\* The router is asked for a page, and what is told with it is true.
LEMMA ReplaceStep ==
  ASSUME IInv, NEW s \in Slots, InFlight(s),
         NEW n \in {"verify", "login"}, NEW e \in Emails,
         NEW news \in {"registered", "verified", "reset"}, Replace(s, n, e, news),
         UNCHANGED backend, stored' \in [Emails -> 0..Delay],
         s = "submit", news = "registered" \/ call[s].op # "register",
         news = "registered" => account[e] # "none",
         news = "verified" => account[e] = "verified",
         news = "reset" => link = "used"
  PROVE  IInv'
<1> USE DEF IInv
<1>1. /\ Done(s) \in [Slots -> Posts \cup {Idle}]
      /\ \A q \in Slots : Done(s)[q] # Idle => Done(s)[q] = call[q]
  BY DoneCalls
<1>2. UNCHANGED <<account, link>> /\ call' = Done(s)
  BY DEF backend, Replace
<1>3. /\ page' \in PageState /\ page'.name = page.name /\ page'.token = page.token
  BY DEF Replace, TypeOK, PageState
<1>4. nav' \in Navs /\ nav'.news = news /\ nav'.email = e
  BY DEF Replace, Navs, News
<1>5. TypeOK'
  BY <1>1, <1>2, <1>3, <1>4 DEF TypeOK
<1>6. CallsKnown'
  BY <1>1, <1>2, <1>3, CallsKept DEF CallsKnown
<1>7. SpentWaits'
  BY <1>2, <1>3, <1>4, SpentAfter
<1>8. SuccessIsTrue'
  BY <1>2, <1>4 DEF SuccessIsTrue
<1> QED BY <1>5, <1>6, <1>7, <1>8 DEF CallsKnown

\* A continuation that asks for no page: it writes into the page if that is its
\* own, and leaves no token there that a refused registration was sent with.
LEMMA StayStep ==
  ASSUME IInv, NEW s \in Slots, InFlight(s), UNCHANGED <<backend, nav>>, call' = Done(s),
         stored' \in [Emails -> 0..Delay], page' \in PageState, page'.name = page.name,
         \/ page'.token = "none"
         \/ page'.token = page.token /\ (~Mine(s) \/ call[s].op # "register")
  PROVE  IInv'
<1> USE DEF IInv
<1>1. /\ Done(s) \in [Slots -> Posts \cup {Idle}]
      /\ \A q \in Slots : Done(s)[q] # Idle => Done(s)[q] = call[q]
  BY DoneCalls
<1>2. UNCHANGED <<account, link>>
  BY DEF backend
<1>3. TypeOK'
  BY <1>1, <1>2 DEF TypeOK
<1>4. CallsKnown'
  BY <1>1, <1>2, CallsKept DEF CallsKnown
<1>5. SpentWaits'
  BY SpentAfter
<1>6. SuccessIsTrue'
  BY <1>2 DEF SuccessIsTrue
<1> QED BY <1>3, <1>4, <1>5, <1>6 DEF CallsKnown

LEMMA ContinueStep ==
  ASSUME IInv, NEW s \in Slots, Continue(s)
  PROVE  IInv'
<1> USE DEF IInv
<1>1. InFlight(s)
  BY DEF Continue, Registered, RegisterRefused, Verified, Resent, LinkRequested, WasReset,
     PasswordChanged, Failed, Answered, InFlight
<1>2. call[s] \in Posts /\ call[s].email \in Emails
  BY <1>1, PostShape DEF Posts
<1>3. page \in PageState /\ stored \in [Emails -> 0..Delay]
  BY DEF TypeOK
<1>4. 0 \in 0..Delay /\ Delay \in 0..Delay
  BY DelayAssumption
<1>5. CASE Registered(s)
  <2>1. /\ stored' \in [Emails -> 0..Delay] /\ UNCHANGED backend
        /\ Replace(s, "verify", call[s].email, "registered")
    BY <1>2, <1>3, <1>4, <1>5 DEF Registered, StartOTPResendCooldown
  <2>2. account[call[s].email] # "none"
    BY <1>1, <1>5 DEF Registered, GoesOn, Answered, AnswerIsTrue
  <2>3. s = "submit"
    BY <1>1, <1>5 DEF Registered, Answered, ResendHasItsSlot, Slots
  <2> QED BY <1>1, <1>2, <2>1, <2>2, <2>3, ReplaceStep
<1>6. CASE Verified(s)
  <2>1. /\ stored' \in [Emails -> 0..Delay] /\ UNCHANGED backend
        /\ Replace(s, "login", call[s].email, "verified")
    BY <1>2, <1>3, <1>4, <1>6 DEF Verified, ClearOTPResendCooldown
  <2>2. account[call[s].email] = "verified"
    BY <1>1, <1>6 DEF Verified, GoesOn, Answered, AnswerIsTrue
  <2>3. s = "submit" /\ call[s].op # "register"
    BY <1>1, <1>6 DEF Verified, Answered, ResendHasItsSlot, Slots
  <2> QED BY <1>1, <1>2, <2>1, <2>2, <2>3, ReplaceStep
<1>7. CASE WasReset(s)
  <2>1. /\ stored' \in [Emails -> 0..Delay] /\ UNCHANGED backend
        /\ Replace(s, "login", AnyEmail, "reset") /\ AnyEmail \in Emails
    BY <1>3, <1>7, AnyEmailIsEmail DEF WasReset
  <2>2. link = "used"
    BY <1>1, <1>7 DEF WasReset, GoesOn, Answered, AnswerIsTrue
  <2>3. s = "submit" /\ call[s].op # "register"
    BY <1>1, <1>7 DEF WasReset, Answered, ResendHasItsSlot, Slots
  <2> QED BY <1>1, <2>1, <2>2, <2>3, ReplaceStep
<1>8. CASE RegisterRefused(s)
  <2>1. (page' = page /\ ~Mine(s)) \/ page' = TryAgain(page)
    BY <1>8 DEF RegisterRefused
  <2>2. /\ TryAgain(page) \in PageState /\ TryAgain(page).name = page.name
        /\ TryAgain(page).token = "none"
    BY <1>3 DEF TryAgain, PageState, Tokens
  <2>3. call' = Done(s) /\ UNCHANGED <<backend, stored, nav>>
    BY <1>8 DEF RegisterRefused
  <2> QED BY <1>1, <1>3, <2>1, <2>2, <2>3, StayStep
<1>9. CASE Resent(s)
  <2> DEFINE p == [page EXCEPT !.deadline = Delay, !.shown = Delay, !.timerDue = TRUE,
                               !.resending = FALSE]
  <2>1. page' = page \/ (page' = p /\ Mine(s))
    BY <1>9 DEF Resent
  <2>2. /\ p \in PageState /\ p.name = page.name /\ p.token = page.token
    BY <1>3, <1>4 DEF PageState
  <2>3. /\ call' = Done(s) /\ UNCHANGED <<backend, nav>> /\ call[s].op # "register"
        /\ stored' \in [Emails -> 0..Delay]
    BY <1>2, <1>3, <1>4, <1>9 DEF Resent, Answered, StartOTPResendCooldown
  <2> HIDE DEF p
  <2> QED BY <1>1, <1>3, <2>1, <2>2, <2>3, StayStep
<1>10. CASE LinkRequested(s)
  <2> DEFINE p == [page EXCEPT !.submitting = FALSE, !.requestSent = TRUE]
  <2>1. page' = page \/ (page' = p /\ Mine(s))
    BY <1>10 DEF LinkRequested
  <2>2. /\ p \in PageState /\ p.name = page.name /\ p.token = page.token
    BY <1>3 DEF PageState
  <2>3. call' = Done(s) /\ UNCHANGED <<backend, stored, nav>> /\ call[s].op # "register"
    BY <1>10 DEF LinkRequested, Answered
  <2> HIDE DEF p
  <2> QED BY <1>1, <1>3, <2>1, <2>2, <2>3, StayStep
<1>11. CASE PasswordChanged(s)
  <2> DEFINE p == [page EXCEPT !.submitting = FALSE, !.fields = "empty"]
  <2>1. page' = page \/ (page' = p /\ Mine(s))
    BY <1>11 DEF PasswordChanged
  <2>2. /\ p \in PageState /\ p.name = page.name /\ p.token = page.token
    BY <1>3 DEF PageState, Fields
  <2>3. call' = Done(s) /\ UNCHANGED <<backend, stored, nav>> /\ call[s].op # "register"
    BY <1>11 DEF PasswordChanged, Answered
  <2> HIDE DEF p
  <2> QED BY <1>1, <1>3, <2>1, <2>2, <2>3, StayStep
<1>12. CASE Failed(s)
  <2>1. page' = page \/ (page' = Freed(s, page) /\ Mine(s))
    BY <1>12 DEF Failed
  <2>2. /\ Freed(s, page) \in PageState /\ Freed(s, page).name = page.name
        /\ Freed(s, page).token = page.token
    BY <1>3 DEF Freed, PageState
  <2>3. call' = Done(s) /\ UNCHANGED <<backend, stored, nav>> /\ call[s].op # "register"
    BY <1>12 DEF Failed, Answered
  <2> QED BY <1>1, <1>3, <2>1, <2>2, <2>3, StayStep
<1> QED BY <1>5, <1>6, <1>7, <1>8, <1>9, <1>10, <1>11, <1>12 DEF Continue

-----------------------------------------------------------------------------
(* The inductive invariant.                                                *)

LEMMA FormsInit == Init => IInv
<1> SUFFICES ASSUME Init PROVE IInv
  OBVIOUS
<1>1. page \in PageState /\ page.token = "none"
  BY FreshPage, AnyEmailIsEmail DEF Init, Names
<1>2. \A s \in Slots : call[s] = Idle
  BY DEF Init
<1>3. stored \in [Emails -> 0..Delay]
  BY DelayAssumption DEF Init
<1>4. TypeOK
  BY <1>1, <1>3 DEF TypeOK, Init
<1>5. SuccessIsTrue
  BY NowhereTellsNothing DEF Init, SuccessIsTrue
<1> QED BY <1>1, <1>2, <1>4, <1>5 DEF IInv, MineIsHere, ResendHasItsSlot, AnswerIsTrue,
           SpentWaits, InFlight, Slots

LEMMA FormsStep == IInv /\ [Next]_vars => IInv'
<1> SUFFICES ASSUME IInv, [Next]_vars PROVE IInv'
  OBVIOUS
<1>1. CASE \E n \in Names, e \in Emails, linked \in BOOLEAN : Visit(n, e, linked)
  BY <1>1, VisitStep
<1>2. CASE (\E e \in Emails : EditEmail(e)) \/ (\E f \in Fields : EditPasswords(f))
  BY <1>2, EditStep
<1>3. CASE Widget \/ ChallengeFailed \/ ChallengeExpired
  BY <1>3, WidgetKeeps
<1>4. CASE Timers \/ ClockTick
  BY <1>4, TimersKeep
<1>5. CASE Register \/ Verify \/ Resend \/ RequestReset \/ ConfirmReset \/ ChangePassword
  BY <1>5, SendStep DEF Submissions
<1>6. CASE \E s \in Slots : Serve(s) \/ Continue(s)
  BY <1>6, ServeStep, ContinueStep
<1>7. CASE Arrive
  BY <1>7, ArriveStep
<1>8. CASE UNCHANGED vars
  <2>1. UNCHANGED <<account, link, stored, page, nav, call>>
    BY <1>8 DEF vars, backend
  <2> QED BY <2>1 DEF IInv, TypeOK, MineIsHere, ResendHasItsSlot, AnswerIsTrue, SpentWaits,
             SuccessIsTrue, InFlight, On
<1> QED BY <1>1, <1>2, <1>3, <1>4, <1>5, <1>6, <1>7, <1>8 DEF Next

LEMMA FormsInvariant == Spec => []IInv
<1> QED BY FormsInit, FormsStep, PTL DEF Spec

-----------------------------------------------------------------------------
(* Theorems.                                                               *)

\* The pages' state and the requests keep their shape; no countdown leaves the
\* delay that the backend asks for (verify-email/page.tsx).
THEOREM FormTypes == Spec => []TypeOK
<1>1. IInv => TypeOK
  BY DEF IInv
<1> QED BY <1>1, FormsInvariant, PTL

\* What a person is told of a request (registered, verified, reset) has happened,
\* for every number of addresses, whatever pages were left with requests in flight
\* (register, verify-email and reset-password/page.tsx).
THEOREM SuccessSafe == Spec => []SuccessIsTrue
<1>1. IInv => SuccessIsTrue
  BY DEF IInv
<1> QED BY <1>1, FormsInvariant, PTL

\* The Turnstile token of a registration that was refused, or whose answer was
\* lost, is not sent again: a second registration carries the token of a first one
\* only while the page that the first led to is on its way (handleSubmit of
\* register/page.tsx, which drops the token in its catch alone).
THEOREM TokenSafe == Spec => RefusedTokenIsDropped
<1>1. IInv /\ [Next]_vars => [Register /\ page.token = "spent" => nav.news = "registered"]_vars
  BY DEF IInv, SpentWaits, Register, Send, InFlight
<1> QED BY <1>1, FormsInvariant, PTL DEF Spec, RefusedTokenIsDropped
=============================================================================
