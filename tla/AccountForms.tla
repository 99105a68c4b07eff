---------------------------- MODULE AccountForms ----------------------------
(* The forms with which a person opens and recovers an account: register with *)
(* its Turnstile widget, verify-email with its resend countdown,              *)
(* reset-password and dashboard/keamanan (src/frontend/src/app).              *)
(*                                                                            *)
(* One tab displays one page at a time.  A request is sent, served and        *)
(* answered in three steps; a page may be left in between, and then its       *)
(* continuation still writes localStorage and still calls the router.  What   *)
(* the router is asked for arrives later, and until then the page stays with  *)
(* its form enabled.  The widget's callbacks, the animation frame, the        *)
(* interval and the effects are steps of their own.                           *)
EXTENDS Naturals

CONSTANTS
  Emails,     \* addresses that are typed
  NewEmails,  \* those typed into register; the others may have an account
  Delay       \* OTP_RESEND_DELAY_SECONDS, in steps of the clock

ASSUME EmailsAssumption == Emails # {} /\ NewEmails \subseteq Emails
ASSUME DelayAssumption == Delay \in Nat \ {0}

VARIABLES
  account,  \* users: the row of each address
  link,     \* the reset link the tab was opened with, or none
  stored,   \* localStorage: what is left of each address's resend deadline
  page,     \* the page and its state
  nav,      \* the page that the router was asked for and what is told with it
  call      \* its requests, and those of a page that was left

backend == <<account, link>>
vars == <<backend, stored, page, nav, call>>

Names == {"register", "verify", "reset", "security", "login"}
\* The challenge's token: none, not sent yet, or sent with a registration.
Tokens == {"none", "fresh", "spent"}
\* The password fields: nothing typed, too short or different, or acceptable.
Fields == {"empty", "bad", "good"}
\* What a toast, or the page that is asked for with it, tells the person.
News == {"none", "registered", "verified", "reset"}
Widgets == {"absent", "solving", "solved", "failed"}

PageState ==
  [name : Names, email : Emails, submitting : BOOLEAN, resending : BOOLEAN, token : Tokens,
   widget : Widgets, resetDue : BOOLEAN, deadline : 0..Delay, shown : 0..Delay,
   frameDue : BOOLEAN, timerDue : BOOLEAN, timer : BOOLEAN, fields : Fields,
   linked : BOOLEAN, requestSent : BOOLEAN]

Nowhere == [news |-> "none"]
Navs == [name : {"verify", "login"}, email : Emails, news : News \ {"none"}]

\* mine: the page that sent the request is still displayed.  A request that was
\* left keeps its slot, and the next page's button waits for it (a bound of this
\* model: one request of each kind is in flight).
Slots == {"submit", "resend"}
Idle == [op |-> "none"]
Posts ==
  [op : {"register", "verify", "resend", "reset", "security", "request"},
   email : Emails, mine : BOOLEAN, ans : {"waiting", "ok", "error"}]

TypeOK ==
  /\ account \in [Emails -> {"none", "unverified", "verified"}]
  /\ link \in {"none", "usable", "used"}
  /\ stored \in [Emails -> 0..Delay]
  /\ page \in PageState
  /\ nav \in Navs \cup {Nowhere}
  /\ call \in [Slots -> Posts \cup {Idle}]

\* Where the address plays no part.
AnyEmail == CHOOSE e \in Emails : TRUE

\* The first render of a page.  verify-email reads the deadline in a frame.
Fresh(n, e) ==
  [name |-> n, email |-> IF n \in {"register", "verify"} THEN e ELSE AnyEmail,
   submitting |-> FALSE, resending |-> FALSE,
   token |-> "none", widget |-> "absent", resetDue |-> FALSE,
   deadline |-> 0, shown |-> 0, frameDue |-> (n = "verify"), timerDue |-> FALSE,
   timer |-> FALSE, fields |-> "empty", linked |-> FALSE, requestSent |-> FALSE]

Init ==
  /\ account \in [Emails -> {"none", "unverified", "verified"}]
  /\ \A e \in NewEmails : account[e] = "none"
  /\ link = "none"
  /\ stored = [e \in Emails |-> 0]
  /\ page = Fresh("login", AnyEmail)
  /\ nav = Nowhere
  /\ call = [s \in Slots |-> Idle]
-----------------------------------------------------------------------------
(* Pages, links and fields *)

On(n) == page.name = n
Leaving(c) ==
  [s \in Slots |-> IF c[s] = Idle THEN Idle ELSE [c[s] EXCEPT !.mine = FALSE]]

\* A link of the portal opens a page, or a mailed one the reset: its token is
\* read once and taken out of the address bar.  A link counts as pressed when its
\* page arrives, and takes the place of what the router was asked for.
Visit(n, e, linked) ==
  /\ n # page.name
  /\ linked => n = "reset"
  /\ n = "register" => e \in NewEmails
  /\ \A s \in Slots : call[s] # Idle => call[s].mine
  /\ page' = [Fresh(n, e) EXCEPT !.linked = linked]
  /\ nav' = Nowhere
  /\ call' = Leaving(call)
  /\ IF linked THEN link' \in {"usable", "used"}
     ELSE link' = IF call["submit"] # Idle /\ call["submit"].op = "reset" THEN link
                  ELSE "none"
  /\ UNCHANGED <<account, stored>>

\* The transition of router.replace commits.  A page that is displayed already
\* stays mounted.
Arrive ==
  /\ nav # Nowhere
  /\ IF On(nav.name) THEN UNCHANGED <<page, call>>
     ELSE page' = Fresh(nav.name, nav.email) /\ call' = Leaving(call)
  /\ nav' = Nowhere
  /\ UNCHANGED <<backend, stored>>

\* Every field stays editable while a request is in flight.
EditEmail(e) ==
  /\ On("verify")
  /\ e # page.email
  /\ page' = [page EXCEPT !.email = e, !.frameDue = TRUE]
  /\ UNCHANGED <<backend, stored, nav, call>>

EditPasswords(f) ==
  /\ On("security") \/ (On("reset") /\ page.linked)
  /\ f # page.fields
  /\ page' = [page EXCEPT !.fields = f]
  /\ UNCHANGED <<backend, stored, nav, call>>
-----------------------------------------------------------------------------
(* The Turnstile widget *)

WidgetStep(p) ==
  /\ On("register")
  /\ page' = p
  /\ UNCHANGED <<backend, stored, nav, call>>

\* The script is ready: one widget per page, or a failure to load it.
RenderWidget ==
  /\ page.widget = "absent"
  /\ \E w \in {"solving", "failed"} : WidgetStep([page EXCEPT !.widget = w])

\* callback: whether a registration is being submitted or not.
ChallengeSolved ==
  /\ page.widget = "solving"
  /\ WidgetStep([page EXCEPT !.widget = "solved", !.token = "fresh"])

\* error-callback: the widget tries again by itself.  unsupported-callback: it
\* does not.
ChallengeFailed ==
  /\ page.widget = "solving"
  /\ \E w \in {"solving", "failed"} :
       WidgetStep([page EXCEPT !.widget = w, !.token = "none"])

\* expired-callback and timeout-callback reset the widget.
ChallengeExpired ==
  /\ page.widget \in {"solving", "solved"}
  /\ WidgetStep([page EXCEPT !.widget = "solving", !.token = "none"])

\* The effect on resetKey.
ResetWidget ==
  /\ page.resetDue
  /\ WidgetStep([page EXCEPT !.resetDue = FALSE,
                   !.widget = IF @ = "absent" THEN @ ELSE "solving"])
-----------------------------------------------------------------------------
(* The resend countdown: resendIn is recomputed from the state now, which only *)
(* the interval, a frame and an answer set.                                    *)

\* readOTPResendDeadline for the address that is displayed.
ReadDeadline ==
  /\ On("verify") /\ page.frameDue
  /\ page' = [page EXCEPT !.frameDue = FALSE, !.deadline = stored[page.email],
                          !.shown = stored[page.email], !.timerDue = TRUE]
  /\ UNCHANGED <<backend, stored, nav, call>>

\* The effect on resendDeadline starts no interval for a deadline that passed.
StartTimer ==
  /\ On("verify") /\ page.timerDue
  /\ page' = [page EXCEPT !.timerDue = FALSE, !.timer = (page.deadline > 0)]
  /\ UNCHANGED <<backend, stored, nav, call>>

TimerTick ==
  /\ On("verify") /\ page.timer
  /\ page.shown # page.deadline
  /\ page' = [page EXCEPT !.shown = page.deadline]
  /\ UNCHANGED <<backend, stored, nav, call>>

\* Slip: what is left of a deadline is not cut off at zero.
Unclipped(n) == n - 1
Before(n) == IF n = 0 THEN 0 ELSE n - 1
\* A step of the clock is far longer than the delay of a frame or an effect:
\* only the end of the last step of a deadline may come before the effect.
ClockTick ==
  /\ ~page.frameDue
  /\ page.timerDue => page.deadline <= 1
  /\ page.deadline > 0 \/ \E e \in Emails : stored[e] > 0
  /\ page' = [page EXCEPT !.deadline = Before(@)]
  /\ stored' = [e \in Emails |-> Before(stored[e])]
  /\ UNCHANGED <<backend, nav, call>>

\* The deadline of an address, in localStorage.
StartOTPResendCooldown(e) == stored' = [stored EXCEPT ![e] = Delay]
ClearOTPResendCooldown(e) == stored' = [stored EXCEPT ![e] = 0]
-----------------------------------------------------------------------------
(* Submitting *)

Post(op) == [op |-> op, email |-> page.email, mine |-> TRUE, ans |-> "waiting"]
Send(s, op) ==
  /\ call[s] = Idle
  /\ call' = [call EXCEPT ![s] = Post(op)]
  /\ page' = IF s = "resend" THEN [page EXCEPT !.resending = TRUE]
             ELSE [page EXCEPT !.submitting = TRUE,
                     !.token = IF op = "register" THEN "spent" ELSE @]
  /\ UNCHANGED <<backend, stored, nav>>

RegisterEnabled == On("register") /\ ~page.submitting /\ page.token # "none"
Register == RegisterEnabled /\ Send("submit", "register")

\* Six digits, right or wrong.
Verify == On("verify") /\ ~page.submitting /\ Send("submit", "verify")

ResendEnabled == On("verify") /\ ~page.resending /\ page.shown = 0
Resend == ResendEnabled /\ Send("resend", "resend")

RequestReset ==
  /\ On("reset") /\ ~page.linked /\ ~page.requestSent /\ ~page.submitting
  /\ Send("submit", "request")

ConfirmReset ==
  /\ On("reset") /\ page.linked /\ ~page.submitting
  /\ page.fields = "good"
  /\ Send("submit", "reset")

\* The browser refuses a field that is too short, changePassword two that differ.
ChangePassword ==
  /\ On("security") /\ ~page.submitting
  /\ page.fields = "good"
  /\ Send("submit", "security")
-----------------------------------------------------------------------------
(* The backend *)

Reply(s, a) ==
  /\ call' = [call EXCEPT ![s].ans = a]
  /\ UNCHANGED <<stored, page, nav>>
Waiting(s, op) == call[s] # Idle /\ call[s].op = op /\ call[s].ans = "waiting"

\* Refused, or lost on its way.
Refuse(s) ==
  /\ call[s] # Idle /\ call[s].ans = "waiting"
  /\ Reply(s, "error")
  /\ UNCHANGED backend

\* What was done may be answered, or its answer lost.
ServeRegister(s) ==
  /\ Waiting(s, "register")
  /\ account[call[s].email] = "none"
  /\ account' = [account EXCEPT ![call[s].email] = "unverified"]
  /\ \E a \in {"ok", "error"} : Reply(s, a)
  /\ UNCHANGED link

\* An account that is verified already is answered like one that now is.
ServeVerify(s) ==
  /\ Waiting(s, "verify")
  /\ account[call[s].email] # "none"
  /\ account' = [account EXCEPT ![call[s].email] = "verified"]
  /\ \E a \in {"ok", "error"} : Reply(s, a)
  /\ UNCHANGED link

\* The answer about a mail is the same for every address.
Serve200(s) ==
  /\ \E op \in {"resend", "request", "security"} : Waiting(s, op)
  /\ Reply(s, "ok")
  /\ UNCHANGED backend

ServeReset(s) ==
  /\ Waiting(s, "reset")
  /\ link = "usable"
  /\ link' = "used"
  /\ \E a \in {"ok", "error"} : Reply(s, a)
  /\ UNCHANGED account
-----------------------------------------------------------------------------
(* The continuations.  There are no steps of a page that was left other than  *)
(* those on localStorage and the router.                                       *)

Answered(s, op, a) == call[s] # Idle /\ call[s].op = op /\ call[s].ans = a
Done(s) == [call EXCEPT ![s] = Idle]
Mine(s) == call[s].mine

\* router.replace, from the page or from one that was left, starts a transition;
\* the finally frees the form at once, what the form holds stays in it.
Replace(s, n, e, news) ==
  /\ nav' = [name |-> n, email |-> e, news |-> news]
  /\ page' = IF Mine(s) THEN [page EXCEPT !.submitting = FALSE] ELSE page
  /\ call' = Done(s)

\* Slip: the page goes on after the request, whatever its answer.
AfterAnyAnswer(a) == a \in {"ok", "error"}
GoesOn(a) == a = "ok"

\* The backend answers that the mail is queued.
Registered(s) ==
  /\ \E a \in {"ok", "error"} : GoesOn(a) /\ Answered(s, "register", a)
  /\ StartOTPResendCooldown(call[s].email)
  /\ Replace(s, "verify", call[s].email, "registered")
  /\ UNCHANGED <<backend>>

\* Slip: the token that was refused stays in the form.
KeepToken(p) == [p EXCEPT !.submitting = FALSE, !.resetDue = TRUE]
\* Slip: the widget is not told to start again.
NoReset(p) == [p EXCEPT !.submitting = FALSE, !.token = "none"]
\* The catch and the finally of handleSubmit.
TryAgain(p) == [p EXCEPT !.submitting = FALSE, !.token = "none", !.resetDue = TRUE]

RegisterRefused(s) ==
  /\ Answered(s, "register", "error")
  /\ page' = IF Mine(s) THEN TryAgain(page) ELSE page
  /\ call' = Done(s)
  /\ UNCHANGED <<backend, stored, nav>>

Verified(s) ==
  /\ \E a \in {"ok", "error"} : GoesOn(a) /\ Answered(s, "verify", a)
  /\ ClearOTPResendCooldown(call[s].email)
  /\ Replace(s, "login", call[s].email, "verified")
  /\ UNCHANGED <<backend>>

\* The countdown that starts is the one of the address that was sent, whatever
\* address is displayed by now.
Resent(s) ==
  /\ Answered(s, "resend", "ok")
  /\ StartOTPResendCooldown(call[s].email)
  /\ page' = IF Mine(s)
             THEN [page EXCEPT !.deadline = Delay, !.shown = Delay, !.timerDue = TRUE,
                               !.resending = FALSE]
             ELSE page
  /\ call' = Done(s)
  /\ UNCHANGED <<backend, nav>>

LinkRequested(s) ==
  /\ Answered(s, "request", "ok")
  /\ page' = IF Mine(s) THEN [page EXCEPT !.submitting = FALSE, !.requestSent = TRUE]
             ELSE page
  /\ call' = Done(s)
  /\ UNCHANGED <<backend, stored, nav>>

WasReset(s) ==
  /\ \E a \in {"ok", "error"} : GoesOn(a) /\ Answered(s, "reset", a)
  /\ Replace(s, "login", AnyEmail, "reset")
  /\ UNCHANGED <<backend, stored>>

\* What was typed while the request was in flight is cleared too.
PasswordChanged(s) ==
  /\ Answered(s, "security", "ok")
  /\ page' = IF Mine(s) THEN [page EXCEPT !.submitting = FALSE, !.fields = "empty"]
             ELSE page
  /\ call' = Done(s)
  /\ UNCHANGED <<backend, stored, nav>>

\* Slip: both forms of verify-email share one flag.
FreedTogether(s, p) == IF p.name = "verify" THEN [p EXCEPT !.resending = FALSE]
                       ELSE [p EXCEPT !.submitting = FALSE]
Freed(s, p) == IF s = "resend" THEN [p EXCEPT !.resending = FALSE]
               ELSE [p EXCEPT !.submitting = FALSE]

Failed(s) ==
  /\ \E op \in {"verify", "resend", "request", "reset", "security"} :
       Answered(s, op, "error")
  /\ page' = IF Mine(s) THEN Freed(s, page) ELSE page
  /\ call' = Done(s)
  /\ UNCHANGED <<backend, stored, nav>>
-----------------------------------------------------------------------------
Widget == ResetWidget \/ RenderWidget \/ ChallengeSolved
Timers == ReadDeadline \/ StartTimer \/ TimerTick
Serve(s) ==
  \/ Refuse(s) \/ ServeRegister(s) \/ ServeVerify(s) \/ Serve200(s)
  \/ ServeReset(s)
Continue(s) ==
  \/ Registered(s) \/ RegisterRefused(s) \/ Verified(s) \/ Resent(s)
  \/ LinkRequested(s) \/ WasReset(s) \/ PasswordChanged(s) \/ Failed(s)

Next ==
  \/ \E n \in Names, e \in Emails, linked \in BOOLEAN : Visit(n, e, linked)
  \/ Arrive
  \/ \E e \in Emails : EditEmail(e)
  \/ \E f \in Fields : EditPasswords(f)
  \/ Widget \/ ChallengeFailed \/ ChallengeExpired
  \/ Timers \/ ClockTick
  \/ Register \/ Verify \/ Resend \/ RequestReset \/ ConfirmReset \/ ChangePassword
  \/ \E s \in Slots : Serve(s) \/ Continue(s)

Spec == Init /\ [][Next]_vars

\* The script loads or fails, the widget solves what it was asked to, the effect
\* runs, requests are answered or fail and are then continued.  Nobody need press
\* or type, and no countdown need move.
Fairness ==
  /\ WF_vars(ResetWidget) /\ WF_vars(RenderWidget) /\ SF_vars(ChallengeSolved)
  /\ \A s \in Slots : WF_vars(Serve(s)) /\ WF_vars(Continue(s))
FairSpec == Spec /\ Fairness
-----------------------------------------------------------------------------
(* Properties *)

\* What the person is told of a request has happened: an answer that was lost or
\* an error never reads as success, and a page that was left does not announce
\* what the backend refused.
SuccessIsTrue ==
  /\ nav.news = "registered" => account[nav.email] # "none"
  /\ nav.news = "verified" => account[nav.email] = "verified"
  /\ nav.news = "reset" => link = "used"

\* A challenge is good for one attempt: the token of an attempt that failed is
\* not sent again, although the widget replaces, expires and restarts tokens
\* while a registration is in flight.  Only a registration that was accepted
\* leaves its token in the form, until the page it leads to has arrived.
RefusedTokenIsDropped ==
  [][Register /\ page.token = "spent" => nav.news = "registered"]_vars

\* The register button does not stay locked: a page without a token gets one
\* from the widget or says that the widget failed, after a refused attempt too.
ButtonComesBack ==
  (On("register") /\ page.token = "none")
    ~> (~On("register") \/ page.token # "none" \/ page.widget = "failed")

\* A form that waits for its answer can be submitted again or has been left,
\* although a resend may be in flight beside it and end in an error before it.
SubmissionSettles == page.submitting ~> ~page.submitting

\* Does not hold, see the README: no registration carries a token that an earlier
\* one was sent with.
TokenIsSentOnce == [][Register => page.token # "spent"]_vars

\* Does not hold, see the README: the countdown that the button displays
\* (verify-email/page.tsx:185-187) ends, although its frame, its effect, its
\* interval and the clock all run.  The effect starts no interval for a deadline
\* that passed before it ran.
CooldownRuns ==
  WF_vars(ReadDeadline) /\ WF_vars(StartTimer) /\ WF_vars(TimerTick) /\ WF_vars(ClockTick)
CooldownEnds ==
  CooldownRuns => ((On("verify") /\ page.shown > 0) ~> (~On("verify") \/ page.shown = 0))
=============================================================================
