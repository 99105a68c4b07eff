# A TLA+ model of the IPNU-IPPNU single sign-on service

This directory holds the TLA+ specifications of the identity provider in `src/`
(Go, Gin, GORM, PostgreSQL; a Next.js portal; shell deployment), the TLC
configurations that check them on small instances, and the theorems TLAPS proves
about them for instances of every size. The repository has no tests: the models
are meant to cover what unit tests would hardly reach, the interleavings of
requests at READ COMMITTED, the row locks, the restarts and the retries, and in the
browser what a page does between the request it sent and the answer it gets.

1. [The system](#1-the-system)
2. [Plan](#2-plan)
3. [Module OAuthGrant](#3-module-oauthgrant)
4. [Module Provisioning](#4-module-provisioning)
5. [The portal](#5-the-portal)
6. [Runs](#6-runs)
7. [Proofs](#7-proofs)
8. [What disagrees with the documentation](#8-what-disagrees-with-the-documentation)
9. [What is not modelled](#9-what-is-not-modelled)

## 1. The system

One Go process serves the API; all its state is in one PostgreSQL database and
an object store. It starts background goroutines (provisioning, two mail queues,
backup, audit writer). A deployment restarts this one service; the queues are
written for several processes (leases, `SKIP LOCKED`).

| Component | Source (`src/backend/` unless said) | State | Operations |
|---|---|---|---|
| Codes, exchange, rotation | `controllers/oauth.go` | `oauth_auth_codes`, `oauth_tokens` | `OAuthAuthorize`, `OAuthToken`, `OAuthRevoke` |
| Consent | `controllers/oauth_consent.go` | `oauth_consents` | persist (merge), require, revoke |
| Admission | `controllers/application_access.go`, `client_assignment.go` | `oauth_client_assignments`, the client's policy | assign, unassign, `applicationAccess` |
| Client registration | `controllers/client.go` | `oauth_clients` | create, update, new secret, delete |
| Login, sessions, password | `controllers/auth.go`, `user.go`, `password_reset.go` | `users`, `sessions`, OTPs, reset links | login, logout, register, verify, change, reset |
| Middleware | `controllers/middleware.go` | (reads; revokes tokens) | `RequireSession`, `RequireRole`, `RequireAuthToken` |
| Administration | `controllers/admin.go` | roles, status, deletion | `AdminUpdateRole`, `AdminUpdateStatus`, `AdminDeleteUser` |
| Connections | `controllers/connection.go` | (revokes) | list, disconnect |
| Provisioning | `provisioning/`, `controllers/provisioning_admin.go` | `provisioning_outboxes` | enqueue, claim, deliver, retry, reconcile |
| Mail queues | `mailqueue/`, `passwordmailqueue/` | queue rows with leases | enqueue, supersede, claim, deliver, fail |
| Backup | `backup/`, `controllers/backup.go` | `backup_jobs`, objects, an advisory lock | tick, execute, retry, prune, download |
| Audit | `controllers/audit.go` | channel of 256 events, `audit_logs` | queue or drop, write |
| Rate limit | `controllers/rate_limit.go` | windows per key in memory | take |
| Startup and schema | `database/database.go`, `main.go` | the schema | migrate, backfill, bootstrap, shutdown |
| Sign-in pages | `src/frontend/src/app/oauth/authorize`, `login`, `components/auth-provider.tsx` | user, client, busy flags of a tab; the cookie of all tabs | load the context, approve, switch account, cancel, log in |
| Account forms | `src/frontend/src/app/register`, `verify-email`, `reset-password`, `dashboard/keamanan`, `components/turnstile.tsx` | fields, busy flags, challenge token, cooldown in `localStorage` | register, verify, resend, request and confirm a reset, change the password |
| Application cards | `src/frontend/src/app/dashboard/aplikasi/page.tsx` | cards, secrets in memory, two dialogs | create, edit, delete, show and regenerate a secret; look up, assign, remove a user |
| Lists | `aplikasi/[id]`, `audit-log`, `pengguna`, `sesi` of `src/frontend/src/app/dashboard`, `components/data-pagination.tsx` | rows, search, filter, page | search, page, reload; revoke, update, delete, disconnect |
| Shell and profile | `src/frontend/src/components/dashboard-shell.tsx`, `app/dashboard/profil` | user, pending avatar, object URLs | log out, crop, save |
| Deployment | `src/deploy/deploy-release.sh` | `current` link, services | activate, roll back |

**Interactions.** Handlers never call each other; they meet in the database.
`OAuthAuthorize` reads sessions, clients, assignments and consents and writes
codes and consents; `OAuthToken` turns codes into tokens and tokens into their
successors; every administrative handler revokes tokens and deletes codes in the
transaction of its change, and enqueues provisioning events and mails in the same
transaction (outbox). Workers claim outbox rows under a lease and act outside any
transaction. At start, `database.Connect` repairs assignments and consents that
older releases did not write.

The portal is a single-page application over that API. Its pages share nothing
but the session cookie (all tabs), the user of `AuthProvider` (one tab) and one
`localStorage` key; every other state is `useState` of a page and gone when the
page is left, while its requests go on.

**What is hard, and what makes each component correct.**

- *Grants.* Checks are made outside the transaction, repeated (some of them)
  under `SELECT … FOR UPDATE`, and followed by bulk statements which at READ
  COMMITTED do not see rows inserted after their snapshot. Correct means: a
  disabled or deleted account has no grant, a live token is admitted and was
  issued under the current secret and password, a code is redeemed once, a family
  has one usable token, a revoked grant stays revoked, every request is answered
  although lock orders cross.
- *Account.* OTP and reset-link counters under concurrent attempts; at most one
  usable link; the fifth wrong code locks.
- *Provisioning.* The receiver sees the last state of every user although
  events are delivered at least once, by four workers, after crashes and expired
  leases.
- *Mail queues.* A superseded code or link is never the last one mailed; every
  queued mail is sent, expired or dead; an expired lease does not overwrite a
  newer owner's result.
- *Backup.* One running job; no row names an object that retention deleted; a
  lost advisory lock never yields two verified uploads of one job.
- *Roles.* There is always a super admin.
- *Audit, rate limit.* Bounds hold; what is lost is only what the code says it
  drops.
- *Portal.* A page never acts on an answer that is no longer about what it
  displays; a busy flag is set exactly while its request is in flight, so that
  nothing is sent twice and nothing hangs; no secret stays on a screen nobody looks
  at; what a page announces has happened.

`PROJECT.json` lists these as hazards, each at its line.

## 2. Plan

| Step | Module | Contents | Status |
|---|---|---|---|
| 1 | `OAuthGrant`, `MCOAuthGrant` | grant store: sessions, clients, admission, consents, codes, tokens, with all handlers that touch them | done |
| 1 | `GrantLifecycle` | abstract specification: a code opens, is redeemed once, founds a family with one usable token; `OAuthGrant` implements it | done |
| 1 | `OAuthGrantProofs`, `OAuthGrantAccess`, `OAuthGrantAdmission` | type correctness, refinement and families; accounts and passwords; clients, admission and deleted accounts | done, see section 7 |
| 2 | `Provisioning`, `MCProvisioning`, `ProvisioningProofs`, `ProvisioningAnnounced` | outbox written with the change, workers with leases, retries, receiver ordering by event time, reconciliation at start; its invariants as theorems | done |
| 3 | `AuthorizePage`, `MCAuthorizePage`, `AuthorizePageProofs` | the sign-in pages in the tabs of a browser; type correctness and two safety theorems | done |
| 4 | `AccountForms`, `MCAccountForms`, `AccountFormsProofs` | the forms that open and recover an account, with the Turnstile widget and the resend cooldown; their invariants as theorems | done |
| 5 | `ClientSecrets`, `ClientAccess`, `PortalLists`, `Profile` | the pages of the dashboard | done |
| 5 | `Dashboard`, `MCDashboard`, `DashboardProofs` | their composition, its instance for TLC, its invariants as theorems | done |
| – | `MailQueue`, `Account`, `Backup`, `AdminRoles`, `AuditQueue`, `RateLimit`, `DeployRelease` | see section 9 | not written |

The portal came before the queues because more than half of the implementation
is there and all of it runs between a request and its answer, which no test of
the repository reaches. The mail queues repeat the lease protocol of
`Provisioning`. The set of runs is kept small: each asks a question of its own, and
the weaker disagreements of section 8 have given way.

Every invariant and every action property that a passing run checks is also a
theorem. What remains for TLC alone is liveness.

The modules are written to be proved about: parameters are CONSTANTS with named
assumptions as weak as the code allows, one action per operation, no RECURSIVE
operator, tables as functions with named null rows.

## 3. Module OAuthGrant

### State

| Variable | Code |
|---|---|
| `user`, `cred` | `users.is_active` (or the row is gone); a version number that stands for the password hash |
| `session` | `sessions`: live or revoked (expired counts as revoked) |
| `client` | `oauth_clients`: active, soft-deleted, or purged with its owner; owner, policy, callbacks, secret version |
| `assign` | `oauth_client_assignments` with GORM's soft delete; the unique index covers deleted rows |
| `consent` | `oauth_consents`: scope and `revoked_at` |
| `code`, `token` | `oauth_auth_codes` (expired rows stay until purged), `oauth_tokens` (revoked rows stay) |
| `authz`, `grant`, `cut`, `acct`, `removal` | requests in flight: what each has read so far and which locks it holds |
| `approved`, `closed` | history: scopes the user confirmed since the last revocation; families a completed revocation was about |

The fields `cred` and `secret` of codes and tokens, and `code` of tokens, are
history too: under which password, secret and code the row came to be.

### Steps

A handler is as many actions as there are points where another transaction can
change its outcome. The rules, repeated at the head of the module:

- a read outside the transaction is a step of its own, and what it read is kept
  in the request's record (`LoginStart`, `AuthorizeCheck`, `ExchangeStart`, …);
- a transaction that locks the client and then waits for the user and the row
  presented keeps the client locked in between (`LockClient`, then `Exchange`,
  `Rotate`, `RefreshReuse` or `TokenRefused`);
- the last lock, the statements after it and the commit are one step: all they
  read is protected by locks held;
- a bulk UPDATE or DELETE that no lock protects is two steps: the snapshot that
  selects rows and the step that re-evaluates them. Rows inserted in between are
  missed. This is how READ COMMITTED behaves and where the findings come from;
- two transactions that wait for each other: PostgreSQL aborts one, either one
  (`AdminDeleteUserAborted`, `CutAborted`, last case of `TokenRefused`; `Crossed`, of an
  authorization and the assignment of the same pair, in `AuthorizeRefused` and `AssignRefused`);
- an answer without effect (4xx, 5xx with roll-back) is a `…Refused` action when
  the request holds a place or a lock, and no action otherwise.

| Handler | Actions |
|---|---|
| `Login`, `Logout` | `LoginStart`, `LoginCommit`, `AccountRefused`, `Logout` |
| `ChangePassword`, `ConfirmPasswordReset` | `ChangePasswordStart`, `ChangePasswordCommit`, `AccountRefused`, `ConfirmPasswordReset` |
| `OAuthAuthorize` | `AuthorizeCheck`, `AuthorizeCommit`, `AuthorizeRefused`, `ExpireCode` |
| `OAuthToken` | `ExchangeStart`, `RotateStart`, `LockClient`, `LockClientRefused`, `Exchange`, `Rotate`, `RefreshReuse`, `TokenRefused` |
| `OAuthRevoke` | `RevokeEndpointStart`, `RevokeEndpointCommit` |
| `AssignClientUser` | `AssignStart` locks the client and reads the user without a lock; `AssignWrite` or `AssignRefused`, then as below |
| `RevokeApplicationConnection`, `DeleteClientAssignment` | `RevokeConnectionStart`, `UnassignStart`, then `CutTokens`, `CutCommit`, `CutAborted` |
| `RequireAuthToken` | `BearerStart`, `BearerDecide`, `BearerRevoke` |
| `CreateClient`, `UpdateClient`, `RegenerateClientSecret`, `DeleteClient` | the actions of the same names |
| `AdminUpdateStatus`, `AdminUpdateRole` | the actions of the same names |
| `AdminDeleteUser` | `AdminDeleteUserStart`, `AdminDeleteUserCommit`, `AdminDeleteUserAborted` |
| `database.Connect` after a crash | `Restart` |

Operators marked "Slip" are plausible bugs. No action uses them; the mutation
runs of `PROJECT.json` put each in the place of the operator after it, and the
property named there must then fail.

### Abstractions

- Hashing, signing, encryption and PKCE are perfect: a code or token is an id, and
  whether the verifier, the callback and the thirty days fit is an input of the
  request (`valid`).
- A lapsed session counts as revoked, a lapsed code is `expired` (it stays stored
  until the purge of the next authorization), a lapsed refresh token is an
  input of the rotation. At a restart a lapsed token counts as live for the
  consent backfill, which is wider than the code.
- `AdminDeleteUser` runs about ten statements. Those before the token DELETE
  take their locks in one step (`AdminDeleteUserStart`), and the two token
  DELETEs are one; what it does take time for are the waits at the token rows
  and at the client rows, and those are kept.
- `AuthorizeCheck` and `BearerDecide` read several rows with one step; the code
  reads them with three or four queries. The first is followed by the code's own
  recheck of account and session; the admission it read is read again by
  `issueTokenPair`. The second only revokes.
- Ids are never reused and each has a bound (`Codes`, `Tokens`, `Sessions`); a
  request that finds no id left waits. This is why the runs do not check
  deadlock: the system itself never stops, the ids do.
- `last_used_at`, `last_seen_at`, audit events, rate limits, mail and
  provisioning rows are left to the modules of the plan.
- `Restart` ends all requests of the process at once. Before it, each of them is
  rolled back.

## 4. Module Provisioning

One client with a target; the outbox of other clients is a disjoint set of rows.

### State

| Variable | Code |
|---|---|
| `up` | the process runs |
| `client`, `account`, `assign` | the rows whose changes are announced |
| `req` | handlers in flight: the operation, what it has read, the events it has staged |
| `clock`, `event` | the date of the last event; what each committed event said. An event's id is its date |
| `row` | `provisioning_outboxes`: status, attempts, whether `next_attempt_at` and `locked_until` have passed, whether the payload is still there, whether it has the dedupe key of the snapshot |
| `woken` | the signal in `wakeDispatcher` |
| `worker` | the goroutines of `dispatchAvailable`: what each has claimed, with the attempts it read |
| `last`, `member` | the application: newest event processed by subject, and who is a member |

### Steps

| Code | Actions |
|---|---|
| `AssignClientUser`, `DeleteClientAssignment`, `AdminUpdateStatus`, `UpdateProfile` with `UploadAvatar` and `DeleteAvatar`, `AdminDeleteUser`, `DeleteClient` | the action of that name takes the row lock and makes the first reads; `Write` makes the rest, dates and stages the events; `Commit` or `Abort` |
| `Notify` | `Notify`, after the commit; a crash may come between |
| `run`, `dispatchAvailable`, `dispatchBatch` | `RoundStart`, `BatchEnds`, `Cleanup` |
| `claimOne` | `ClaimOne` |
| `deliver`, `fail` | `Accepted` or `Refused`, then `Finish`, `Fail` or `RecordLost` |
| lease, `retryDelay` | `LeaseLapses`, `BackoffElapses` |
| `AdminRetryProvisioningEvent` | `AdminRetry` |
| `ReconcileExistingAssignments`, `Start` | `Start` |

`Receive` is the application, which is not in the repository; it does what
`documentation/docs/protocol/provisioning.md` asks: it ignores an event not newer than the last
one of the subject, and `user.updated` makes no member.

### Abstractions

- The order in which transactions date their events and the order in which they
  commit differ, and `Write` and `Commit` keep them apart. Two events never
  have the same date: the clock is taken as fine enough.
- Row locks are conditions on `req`: the client's row, the user's row, the
  user an inserted assignment refers to, and a changed assignment. A wait that never
  ends is a deadlock, which PostgreSQL resolves by `Abort`.
- A lease is thirty seconds and a POST ends after fifteen, so a lease lapses only
  when no worker is posting the event: the worker is gone, or waits for the
  database to record its result. What a given-up POST may still do at the
  application is `LateArrival`: any event claimed once may arrive again at any time,
  which is more than the network does.
- `BatchEnds` may end a worker at any time between two items. It stands for an
  empty queue, a failed query and the batch of a hundred items.
- The snapshot of a start is one step; a crash inside it leaves the rest to the
  next start. `HasRoom` keeps an id for every user of that snapshot.
- The content of the profile, the signature and the environment are left out.
  `Configure` gives a fixed target, `MaxAttempts` and `Workers`.

## 5. The portal

### What the modules have in common

JavaScript runs one handler at a time, so a handler up to its `await`, and each
continuation after it, is one step. A request is three steps: it is sent, the
backend serves it (or it fails on its way, or its answer is lost), and the answer is
handled. Between two of them everything else may happen: other buttons, timers,
a change of the page. A continuation of a page that was left still runs; its
`setState` calls change nothing, but `router`, `window.location`, `localStorage` and the
setters of `AuthProvider` still work. What a closure captured is kept in the record of
its request. The guard of a button is what disables it or what covers it (a modal
dialog), with the handler's own early returns; `pointer-events-none` stops neither the
keyboard nor a dialog that is open already, so it is no guard.

*What is taken as one step.* React applies the updates of a handler or a continuation
later, in a task of its own, and passive effects after that. The models keep this
apart where something may come between that a property could see:

- An update and its rendering are one step, and so are the press of a button or a key and the
  effects it causes: React flushes those of a discrete event with it, and those that
  were due before it (`Press` of `PortalLists`; the lookup of `ClientAccess` restarts as
  one types).
- The effect of a timer or of a continuation is a step of its own in `PortalLists`
  (`EffectRuns`, due while `stale`), so that an answer to the old fetch may come before
  it, in `AccountForms` (`StartTimer`, `ResetWidget`) and in `AuthorizePage` (the load of the
  context). In `ClientAccess` the effect that follows an opened dialog or a saved assignment is
  merged with the continuation: the identifier it depends on is empty then, and stays
  so until somebody types.
- `router.replace` starts a transition and the page stays until it commits. In
  `AccountForms` it commits in a step of its own (`Arrive`), because the forms are enabled
  again meanwhile. In `AuthorizePage` and `Profile` it, and `location.assign`, is one step with
  the unmount: an authorize page that goes keeps its buttons disabled (`approving` stays set), a
  login form pressed once more logs in once more, which no property is about, and the shell
  displays nothing without a user. A link counts as pressed when its page arrives.
- A dialog of `pengguna` that outlives its row, because the list was fetched again under
  it, is left out: its request is refused by the backend.

The backend appears as far as the answers depend on it. `OAuthGrant` models its
interleavings; here one statement serves one request.

### AuthorizePage

| Variable | Code |
|---|---|
| `cookie`, `live`, `consents` | the session cookie of the browser, sessions neither revoked nor expired, `oauth_consents` that cover the request |
| `tab` | of each tab: the page, the user of `AuthProvider`, `client` reduced to `consent_required`, `loading`, `approving`, whether the effect is due, whether the request is complete, whether the login has a `callbackUrl` |
| `call` | the requests of each tab: the load of the context, that of the last button, one left behind |

`Open` and `GetInitialUser` are the document request of `app/layout.tsx`; `SignInFirst`,
`RefuseIncomplete` and `LoadContext` are the branches of the effect; `Approve`, `Cancel`,
`UseAnotherAccount` and `SubmitLogin` are the buttons; `RefuseAuthorize`, `AskConsent`,
`RedirectError` and `IssueCode` are what `OAuthAuthorize` answers. `SessionEnds` and
`ConsentRevoked` are steps of other people or devices.

### AccountForms

| Variable | Code |
|---|---|
| `account`, `link` | the `users` row of each address; the reset link the tab was opened with |
| `stored` | what is left of the resend deadlines in `localStorage`; `ClockTick` counts it down |
| `page` | the page displayed, its fields, flags, widget and timers |
| `nav` | the page the router was asked for and has not reached, and what a toast said with it |
| `call` | its submission and its resend |

The widget's callbacks, the animation frame that reads the deadline, the
interval and the effects are steps of their own (`ChallengeSolved`, `ChallengeFailed`,
`ChallengeExpired`, `ResetWidget`, `RenderWidget`, `ReadDeadline`, `StartTimer`, `TimerTick`).
A challenge may be solved, may fail and may expire while a registration is in
flight. Password fields are empty, bad or good. `Replace` is the end of a submission that
was accepted: it asks the router, and the `finally` frees the form at once, with what it
holds; `Arrive` opens the page. The branch of the registration for a mail that was not queued is
left out: the backend always queues it.

### The dashboard

| Module | State | Steps |
|---|---|---|
| `ClientSecrets` | the rows' secret versions, those the cards carry, `clientSecrets`, the window's attention and `secretMemoryGeneration`, the requests in flight | `LeaveWindow`, `ReturnToWindow`, show, hide, regenerate, create, edit, delete, open the access dialog, the answers of the list |
| `ClientAccess` | the dialog's client, identifier, candidate and flags, the lookup with its timer, saves and removals in flight | open, close, type, clear, look up, save, remove |
| `PortalLists` | the rows of the table, the field and its timer, `deps` (what the effect depends on) and whether it is due (`stale`), the fetch of the effect, what is displayed, the request of a row | type, filter, page, retry, the debounce, `EffectRuns`, `FetchAnswered`, `FetchFailed`, a row's button and its answer, rows that come and go |
| `Profile` | user, row, session, the pending avatar, the crop, object URLs made and revoked, saves under way | logout, login, leave and return, pick, apply, cancel, mark, save with its chain `avatar` → `delete` → `patch` → preload |

`PortalLists` describes four pages by one set of steps, with `kind` where they
differ: `audit-log` debounces without comparing, displays an empty page before
it moves to a valid one and only toasts an error; `sesi` fetches once; `detail` and `pengguna`
reload. The fetch of the last run of the effect is the one there is until the next run,
also while `stale`: its answer is still taken. Fetches that the effect dropped are gone
from the model, because their continuations do nothing (`active`, `latestRequest`,
`AbortController`): the slip `Unsuperseded` leaves that out.

`Dashboard` is one visit of one of these pages. Since they share no state, a
step of the composition is a step of the page visited; the variables of the others
have no meaning and are zero. `MCDashboard` is its instance for TLC; its `VIEW` identifies
states that differ only in what no later step and no property reads (the revoked URLs
that nothing holds, the rows removed that no answer lists, what a failed answer was about).

## 6. Runs

The first six rows are of `MCOAuthGrant`, which gives names to the members of an instance
(`member`, `owner`, `app`, `opened`). `Populated` starts from tables that `Init`
reaches by `CreateClient`, `Login` and `AssignClientUser`, with either policy, so
that the bounds are spent on the interesting part; run `registration` starts from
`Init`. Ids and request slots are symmetric. Runs whose properties do not read the
history variables identify states that differ only there. `Opening` names the policies with
which `Populated` starts, or that the client is not there yet. Three rows are of
`MCProvisioning`, the last three of the portal.

| Run | Properties | What happens in it |
|---|---|---|
| `account` | `DisabledUserHasNoGrant`, `DeletedUserLeavesNothing`, `NoGrantFromOldPassword` | two logins or password changes, an authorization and a token request in flight while the member is deactivated, reactivated, deleted, or resets the password |
| `removal` | `TypeOK`, `OneLiveTokenPerFamily`, `CodeIsSingleUse`, `LiveTokenIsAdmitted`, `LiveTokenHasCurrentSecret`, `OwnerStaysAdmitted` | assignments, unassignments, disconnects, a policy change, a new secret and the deletion of the client and of its owner, with waits and deadlocks, during authorization, exchange, two rotations, revocation and restarts (the member is deleted in `account`) |
| `registration` | `OwnerStaysAdmitted`, `EveryAccountRequestIsAnswered` | from empty tables: registration of clients with a provisioning target, policy and owner assignment; logins and password changes are answered |
| `answered` | `ImplementsGrantLifecycle`, `EveryRequestIsAnswered` | every step is one of `GrantLifecycle`, and no grant request waits for ever, deadlocks included |
| `revokefamily` | `RevokedFamilyIsDead`, violated | see section 8 |
| `ownerdeleted` | `DeletedOwnerLeavesNoGrant`, violated | see section 8 |
| `outbox` | `AdmittedIsAnnounced` | owner and member, two handlers at a time, up to five events, one crash: who may use the client was announced last as assigned |
| `delivery` | `TypeOK`, `NewestEventDecides`, `UndeliveredKeepsPayload`, `EveryEventSettles` | two workers and two events of one user, two attempts, one crash or manual retry, with every lapse, loss and late arrival |
| `snapshot` | `DisabledUserIsNoMember`, violated | see section 8 |
| `signin` | `TypeOK`, `OneDecisionInFlight`, `ConsentNeedsItsCard`, `DecisionSettles`, `SkeletonEnds` | a tab loads, decides, is left and comes back, with two accounts that log in and out, consents revoked elsewhere and answers lost |
| `forms` | `TypeOK`, `SuccessIsTrue`, `RefusedTokenIsDropped`, `ButtonComesBack`, `SubmissionSettles` | two addresses through registration, verification, resend, reset and password change, the page changing under the requests, the next page late, the challenge expiring and failing |
| `dashboard` | `TypeOK`, `NothingShownUnattended`, `CardsFollowRows`, `LateSecretIsDropped`, `CandidateWasTyped`, `OneSaveInFlight`, `ListIsTheOneAsked`, `EmptyDirectoryIsTrue`, `RemovedStaysUnlisted`, `ShownURLIsLive`, `SavedProfileIsShown` | one visit of each page of the dashboard |

**Bounds.** One client and two users suffice for every property over a pair of
them: rows of different clients meet only in the deletion of an owner, and the
owner is one of the two. One code and two tokens give an exchange followed by a
rotation, or two rotations racing for the last id; the third token of `removal` gives the rotation
of a rotated token; two requests of a kind race
where the property is about a race (`account`, which has no assignments in flight: that the
assignment of a deleted account does not come back is shown by `DeletedSafe` alone). One version step
(`MaxVersion = 1`) gives an old and a current password or secret. In `Provisioning`
the writers and the dispatcher meet only in the rows, so `outbox` runs without
workers and `delivery` starts from the rows a history of two handlers leaves
(`QueuedInit`); two workers and two events give a lapsed lease with a second
claim, an event overtaken by a newer one, and a retry after both. Two attempts
give one retry and one dead letter. The proofs of section 7 do not depend on any of
these.

In `signin` one tab keeps the liveness check small. What another tab does to the cookie
appears as `SessionEnds`, `ConsentRevoked` and the tab's own logins with two accounts while a
request it left behind is still in flight; the theorems of `AuthorizePageProofs` are about
any number of tabs. Two
addresses in `forms`, of which one (`NewEmails`) registers, tell a stale deadline from one's own; the clock's `Delay` of one
step is the difference between a running and a passed deadline. In `dashboard`, two
cards, two requests at a time and one regeneration of each give an answer that overtakes a
newer one; one departure from the window gives "before" and "after"; two users give a
candidate that is no longer the one typed. Tables of two rows on pages of one give a
last page to empty, a page to go back from and a search that leaves one of them.
Two saves and three object URLs give a crop, a preview and the next crop; that the next
crop replaces the preview takes a fourth, for which `URLSafe` stands alone. TLC
checks deadlock in the portal: a page always has something to press.

**Fairness.** `FairRequests` asks strong fairness of the steps of each accepted
request. net/http runs every request in its own goroutine, and PostgreSQL serves
the waiters of a row lock in their order: a request that finds the lock free
again and again gets it. Weak fairness would let a stream of other
requests hold the client's row for ever, which the queue does not allow. Nothing
is asked of users, administrators, the clock or crashes. A login may also wait
because the instance has no session id left; the liveness properties say so.

`Fairness` of `Provisioning` asks that a round starts and its batches end, that
a POST ends (its client has a timeout), that time passes, and that the service manager starts
a process that has crashed (`Restart=on-failure`, `deploy/setup-vps.sh`). Claims and the UPDATEs that record a
result may fail; strong fairness says that they do not fail for ever. Handlers, `AdminRetry`,
`Cleanup` and `Crash` are never forced.

In the portal, `Fairness` says that effects run, that a request ends (the
browser gives up when the connection does) and that its continuation runs. People are
never forced to press anything, and no navigation to arrive. `AccountForms` asks strong fairness of `ChallengeSolved`:
a widget that is rendered again and again is solved some time, or says that it
failed. `ClientSecrets`, `ClientAccess`, `PortalLists` and `Profile` state no fairness: section 8
tells which of their endings fail.

## 7. Proofs

The assumptions are the three of `OAuthGrant`: provisioned and administered sets
are subsets, and the version bound is a natural number. Nothing bounds the number of
accounts, clients, codes, tokens or requests. `Provisioning` adds that the users are a
finite, non-empty set and its three bounds natural numbers, `MaxAttempts` not zero;
requests and workers are any sets. `AccountForms` needs an address and a delay that
is not zero, and that the addresses registered are among those typed. `Dashboard` needs a first secret version, a page size that is not zero, natural numbers
for the length of a list, for the departures from the window and for the object
URLs, and that the owner is a user; cards, users, names, save slots, the rows a
search selects and the protected ones are any sets, and the bounds on calls
and on croppings under way are not assumed to be anything.

| Module | Theorem | Property |
|---|---|---|
| `OAuthGrantProofs` | `TypeCorrect` | `TypeOK` |
| `OAuthGrantProofs` | `FamilySafe` | `OneLiveTokenPerFamily` |
| `OAuthGrantProofs` | `CodeSafe` | `CodeIsSingleUse` |
| `OAuthGrantProofs` | `Implementation` | `ImplementsGrantLifecycle` |
| `OAuthGrantAccess` | `DisabledSafe` | `DisabledUserHasNoGrant` |
| `OAuthGrantAccess` | `PasswordSafe` | `NoGrantFromOldPassword` |
| `OAuthGrantAdmission` | `SecretSafe` | `LiveTokenHasCurrentSecret` |
| `OAuthGrantAdmission` | `OwnerSafe` | `OwnerStaysAdmitted` |
| `OAuthGrantAdmission` | `AdmissionSafe` | `LiveTokenIsAdmitted` |
| `OAuthGrantAdmission` | `DeletedSafe` | `DeletedUserLeavesNothing` |
| `ProvisioningProofs` | `ProvisioningTypes` | `TypeOK` of `Provisioning` |
| `ProvisioningProofs` | `PayloadSafe` | `UndeliveredKeepsPayload` |
| `ProvisioningProofs` | `NewestSafe` | `NewestEventDecides` |
| `ProvisioningAnnounced` | `AnnouncedSafe` | `AdmittedIsAnnounced` |
| `AuthorizePageProofs` | `PageTypes` | `TypeOK` of `AuthorizePage` |
| `AuthorizePageProofs` | `DecisionSafe` | `OneDecisionInFlight` |
| `AuthorizePageProofs` | `CardSafe` | `ConsentNeedsItsCard` |
| `AccountFormsProofs` | `FormTypes` | `TypeOK` of `AccountForms` |
| `AccountFormsProofs` | `SuccessSafe` | `SuccessIsTrue` |
| `AccountFormsProofs` | `TokenSafe` | `RefusedTokenIsDropped` |
| `DashboardProofs` | `DashboardTypes` | `TypeOK` of the page visited |
| `DashboardProofs` | `UnattendedSafe` | `NothingShownUnattended` |
| `DashboardProofs` | `LateSecretSafe` | `LateSecretIsDropped` |
| `DashboardProofs` | `VersionSafe` | `CardsFollowRows` |
| `DashboardProofs` | `CandidateSafe` | `CandidateWasTyped` |
| `DashboardProofs` | `OneSaveSafe` | `OneSaveInFlight` |
| `DashboardProofs` | `ListSafe` | `ListIsTheOneAsked` |
| `DashboardProofs` | `EmptySafe` | `EmptyDirectoryIsTrue` |
| `DashboardProofs` | `RemovedSafe` | `RemovedStaysUnlisted` |
| `DashboardProofs` | `URLSafe` | `ShownURLIsLive` |
| `DashboardProofs` | `ProfileSafe` | `SavedProfileIsShown` |

*Type correctness.* `TypeOK` is not inductive. `AdminDeleteUserCommit` marks the
clients it selected at its beginning as purged, which keeps their type only
if they were rows, and `CutCommit` records the families of tokens it selected. So
`TypeInv` adds `RowsKnown`: what a request in flight names was stored, and no step makes
a stored row unknown (`RowsStayKnown`). One lemma per group of actions follows,
and `TypeStep` puts them together along `Next`.

*Few steps add.* Of all actions only `Exchange` and `Rotate` store a token
(`TokenSteps`), only `AuthorizeCommit` stores a code (`CodeSteps`), only
`LoginCommit` starts a session (`SessionSteps`); every other step ends rows or
leaves them. What the adding steps store, and under which checks and locks, is
said once (`ExchangeEffect`, `RotateEffect`, `AuthorizeEffect`). Each theorem below
then treats three or four cases instead of forty actions.

*Families.* A new family is named by its first token, and `FamilyKnown` says that
the token a family is named after was issued; so a fresh token founds a family
no live token is in. Rotation ends the token presented in the step that stores
its successor.

*Codes.* `CodeSpent`: the code a stored token came from is gone for good. An
exchange finds its code stored, so no token has come from it, and removes it.

*Refinement.* With `FamilyKnown` and `OneLiveTokenPerFamily`, `AuthorizeCommit` is
`Approve`, `Exchange` is `Redeem`, `Rotate` is `Rotate`, and every other step
`Withdraw` (or a stutter, which `Withdraw` includes).

*Disabled accounts.* `AdminDeleteUser` deletes at its end what it selected at its
beginning. `RemovalCovers` says the selection stays complete while the request
waits, because the user's row lock keeps every step from adding to it
(`UserTokensGrow`, `UserCodesGrow`, `UserSessionsGrow`: a user's grants grow only while
the account is usable and unlocked). Deactivation purges in one transaction.

*Passwords.* The invariant is inductive by itself over `TypeInv`: a login
compares the password again under the lock, a code takes its session's version, a
token its code's or predecessor's, and both password changes purge what they
outdate (`UserPurged`).

*Secrets.* The client's row lock carries the next three arguments: no step changes a
locked client (`LockedClientStays`). So the check of the secret is still true when a
token is stored (`LockedAuthentic`), the row presented is of the client locked
(`PresentedKnown`), and a new secret revokes what the old one was given.

*Owners.* `UnassignSparesOwner`: an unassignment under way read, under the lock, that its
user is not the owner the policy protects, and the policy cannot change before its
commit. `RemovalCoversClients`: the deletion of an account takes all clients it owns, so
no usable client loses its owner's assignment with the owner.

*Admission.* `LiveTokenSteps` says that a token that is live after a step was live before, or
is issued in the step to a user the client admits. Unassigning and assigning revoke what they
selected in an earlier step, the one that writes; `CutCovers` says this is all there is of the pair
from then on (`AssignmentWritten`), for a token request and an assignment never hold one client at
once (`LockExclusive`).

*Deleted accounts.* Each kind of row has its own reason not to come back. Sessions,
codes and tokens need a usable account; a consent comes with a code or, at a start,
from a live token (`ConsentSteps`); an assignment is written for an account that still
stands when it is written, and once it is written no deletion can take the account before the
commit (`CutUserStands`; between the unlocked read of the user and the write one can, and
then nothing is written), or for the owner of a usable client, who stands (`OwnerExists`).

*Provisioning.* One inductive invariant, `IInv`, in four parts. `AttemptsLeft`: a row
that can be claimed, and a worker that holds one, have attempts left, so the count
never passes the maximum although `fail` counts from the row as it was claimed.
`EventsKnown`: rows and workers name committed events, and staged events have dates
of their own that are not committed; it is needed because the application looks an event
up by what was posted. `ReceiverKnown`: the application stands at one of the user's events
and its membership is what that event says, and everything settled, and everything a worker was
told it accepted, is not newer than that. The last part carries the argument: a
row becomes `delivered` only in the hands of a worker that was answered, so the
newest settled event is the one the application stands at (`NewestDecides`).
`UndeliveredKeepsPayload` is the fourth part; only `Finish` empties a row, and
`Fail` leaves a delivered row alone.

*Announced assignments.* A handler dates its events when it writes and stores them when
it commits, and two handlers may commit in the other order. The client's lock keeps
assigning and unassigning apart and the user's lock the changes of one account
(`LocksHeld`), but nothing keeps an assignment from a deactivation of the same user. So
the invariant speaks of what is staged and not yet committed. `AssignIsNewest`: the event of an
assignment to be made is dated after every withdrawal of the user, committed or staged;
`ActivationAnnounces`: an account about to come back, whose user is assigned, has
staged a newer announcement or finds one committed meanwhile. `RowFound` and
`StagedSubject` say whom a handler speaks of; `AdmittedCovered` then says of every
withdrawal that an announcement follows it, and the newest event is the greatest of a
finite set of dates.

*Authorize page.* The only assumption is that `Nobody` is no user; tabs and users are any
sets. A step changes one tab, so the invariant says of each tab, by itself, how
its page and its requests stand to each other (`PageInv`): the page displayed is busy
exactly while the request of its last button is in flight, the context load has
only the answers a load can have, and a request that claims a consent was sent from
the card. `MountedPage` is the lemma that matters: a page that is mounted has nothing
in flight whatever the one before it had, because its requests are left behind.

*Account forms.* A request outlives its page. `MineIsHere`: a request is the displayed
page's own only while the page that sends such requests is displayed, so no continuation writes into
another page. `AnswerIsTrue`: an answer of success stays true on its way, because
accounts never go back and a link is not replaced while a reset with it is in flight.
`SpentWaits`: a token that was sent stands in a form only while the form waits for its
answer, or when no submission is in flight and the router was asked for what an accepted
registration leads to. So an attempt that failed leaves none behind.

*Cards.* Every version that a card, a load or a request carries was in force
once (`CallInv`, `LoadFollows`), and rows only go forward, so no answer can put a card ahead of its
row. A request from before the window was left has an older generation than the page, which
is what drops its secret.

*Access dialog.* `LookupIsOfField`: the effect restarts with every change of the field, so a
lookup that can still answer was started for what is in it. `SavedOnce`: closing the dialog does not
free the button, so there is one save at most, and `submitting` is set exactly as long.

*Lists.* `FetchIsOfDeps`: while the effect is not due, the fetch under way is of the search,
filter and page the list stands at, so the answer that settles the list is of those. It says nothing
while the effect is due, and what an answer puts on the screen then is replaced by the next
one, or ends in `failed`. The directory's words are about each answer by itself
(`EmptyIsCounted`). That "Pengguna tidak ditemukan" is true needs arithmetic
about the backend's pages: of a finite set of `n` rows every rank below `n` is taken
(`EveryRankIsThere`, by the smallest number up to which there are more rows than the rank), and the first rank of a page
up to `TotalPages(n)` is below `n`; so only a page beyond the last one is empty
(`PageIsFull`), and from there the directory moves on. `RemovedIsGone`: who was removed is in no
row, and in no answer under way unless the effect is due, because a removal makes it due
(`detail`) or comes after the only fetch (`sesi`, `SessionsFetchedOnce`).

*Profile.* Object URLs are numbered as they are made. `CapturedWasMade`: a handler that runs late
captured URLs made before, so a fresh one is never among them. `RevokedByOne`: what a save will
revoke is not the picture to crop, and is the preview only when the save clears
the preview in the same step. `WireIsAccount`: while no request has failed and no two saves overlapped,
the answer on the wire carries what the database keeps.

Left to TLC: the seven liveness properties and no others, because fairness and ENABLED are out of
the prover's reach.

## 8. What disagrees with the documentation

Three are runs with one violated property. `PROJECT.json` quotes the sentences.

| Run | The text says | The code does |
|---|---|---|
| `revokefamily` | a known token's whole family is revoked; after a disconnect its tokens are refused | the successor a concurrent rotation inserts escapes the UPDATE |
| `ownerdeleted` | all related grants are deleted for good | a rotation overlapping the DELETE leaves a live token of a purged client; the next start then fails in the consent backfill |
| `snapshot` | one snapshot of the assignments older than the target; `user.unassigned` withdraws the membership | every start announces every assignment without a snapshot row, those of deactivated accounts too, dated after their `user.unassigned` |

The others have no run of their own. Each is stated as a property in its module,
marked there, and TLC finds it violated when it is added to the configuration
named here. Those of the dashboard are stated of the page visited, as `Dashboard`
does for the properties it checks, and need the configuration without its `VIEW`. Nothing
in the texts promises `TokenIsSentOnce` and `OldRowsAreMarked`; the rows say what was expected.

| Property, configuration | The text says | The code does |
|---|---|---|
| `ApprovalBoundsConsent`, `removal` with two codes and one token, without `VIEW` | a new consent is confirmed explicitly (`oauth_consent.go:44-45`) | a request checked before a revocation brings the consent back without approval; approving one scope restores the others of the revoked row (`oauth_consent.go:83`) |
| `AssignmentIsNotLost`, `delivery` | no assignment is lost while the application is not available (`models.go:219-220`) | workers post side by side: a `user.updated` processed first makes the application ignore the `user.assigned` before it |
| `ConsentShownToGranter`, `signin` | the same sentence of `oauth_consent.go` | the page sends the consent with the session of the moment, which another tab may have changed since the card was displayed (`oauth/authorize/page.tsx:174`) |
| `TokenIsSentOnce`, `forms` | (the form drops a token that was sent, `register/page.tsx:100`) | only after a refusal: an accepted registration frees the form (line 103) with its token until the next page arrives, and pressed again it sends the token again, which the backend refuses |
| `CooldownEnds`, `forms` | the button counts down to zero (`verify-email/page.tsx:185-187`) | although frame, effect, interval and clock run (`CooldownRuns`), a deadline that passes before the effect runs starts no interval (line 53): the number stays |
| `ShownSecretIsCurrent`, `dashboard` | the old secret ends at once (`documentation/…/register-client.md:57`) | the answer to "show" may come after the regeneration it was overtaken by, and is displayed as the secret (`aplikasi/page.tsx:250`) |
| `AccessIsForTheClientOpened`, `dashboard` | open "Kelola akses" of the application, then name the account (`register-client.md`, step 8) | a late answer to an earlier opening puts its client into the dialog (`aplikasi/page.tsx:294`) |
| `OldRowsAreMarked`, `dashboard` | (rows of another search are faded or a skeleton while the new ones load, `pengguna/page.tsx:175`) | an answer to the old fetch may come after the debounce (line 52) and before the effect that drops it (line 66): it displays the old rows and ends `loading`, and the new fetch runs unseen |
| `RemovedIsNotListedAgain`, `dashboard` | "Akses pengguna berhasil dicabut." (`application-detail.tsx:101`) | after two revocations in a row, the reload of the first may be answered between the continuation of the second (line 99) and its effect (line 52): the user is listed again until the next answer |
| `PageIsPositive`, `dashboard` | "page harus berupa angka positif." (`client_assignment.go:21`) | going back a page is decided with the page of the click and done with the page of the answer (`application-detail.tsx:95-97`): a click on page 1 while the revocation is in flight makes it ask for page 0 |
| `LoggedOutStaysOut`, `dashboard` | "Anda berhasil keluar." (`dashboard-shell.tsx:53`) | a save under way sets the user again after the logout (`profil/page.tsx:160`) |

Met while modelling, promised by no text: the number of the current page is a
button that sets `loading` and changes nothing, so the list stays a skeleton
(`data-pagination.tsx:41`); clearing or closing the access dialog while a lookup is
in flight leaves its spinner on (`aplikasi/page.tsx:346`, 522); the list of
applications that loads late replaces the card of a client created meanwhile
(`aplikasi/page.tsx:92`); a failed load of the audit log leaves the rows of the
page before; a failed logout takes the user to the login with the cookie alive; a
late 401 of a dead session clears the cookie of a newer one (`middleware.go:27`);
clearing the pending avatar after a save takes one picked meanwhile with it
(`profil/page.tsx:164-168`). Under `all_active_users` the owner's assignment can be
removed (`client_assignment.go:186`). A request checked before `UpdateClient` stores a code for a
callback that is no longer registered (`oauth.go:167`).

`OAuthToken` still demands the callback the code names, and exchange and
rotation still read account and admission again: the disagreements are about the
stated promises, and the passing runs show what does hold beside them.

## 9. What is not modelled

Components with status `not_modelled` in `PROJECT.json`, and why:

- *Mail queues.* They claim, deliver and fail under the lease protocol of
  `Provisioning`, with a row superseded by a newer one as the addition; the delivery is
  SMTP, which acknowledges nothing the code could rely on.
- *Backup.* Slots, an advisory lock and retention over an object store: a state
  machine that shares nothing with accounts and grants.
- *Audit log* and *rate limits.* A bounded channel that drops and counters under a
  mutex. Any request of the models may be refused, which includes a limit.
- *Deployment.* Shell scripts around one switch of a symbolic link.
- *Cryptography and key tools.* Pure conversions, taken as perfect.
- *Backup page, landing page, vendored components, skeletons, formatting.* They keep
  no state that a property could be about.

Of the components with status `partly`: OTP counters and the limits of reset links,
roles and the bootstrap of the first administrator, the order of a graceful
shutdown, and the objects of the avatar bucket.

Of the modelled components, input validation and normalisation (names, URIs,
scopes, logos), response shapes, copying to the clipboard, location and device of a login
and logging are left out: no property is about them.
