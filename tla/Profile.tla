------------------------------- MODULE Profile -------------------------------
(* The shell of the dashboard with its logout (components/dashboard-shell.tsx)  *)
(* around the profile page (app/dashboard/profil), whose save is a chain of     *)
(* requests and an image to load.                                               *)
(*                                                                              *)
(* One tab of one account.  A page's state starts anew when it is mounted; the  *)
(* user of the AuthProvider and the saves under way outlive it.                 *)
EXTENDS Naturals, Sequences

CONSTANTS
  Names,    \* values of the text fields of the profile, taken together
  Slots,    \* saves under way at a time
  MaxURLs,  \* object URLs that are made
  MaxBlobs  \* clicks on "Terapkan" before the first one has its result

VARIABLES
  page,     \* the page displayed
  user,     \* of the AuthProvider
  account,  \* its row in the database
  session,  \* the cookie is that of a live session
  logout,   \* the request of logout, "none" until logoutStarted
  saving,
  pending,  \* pendingAvatar and pendingPreview: an object URL, or 0
  deleting, \* pendingDelete
  crop,     \* cropSrc: an object URL, or 0
  blobs,    \* croppings not yet encoded: the URLs their handlers captured
  made,     \* object URLs made so far
  revoked,  \* and revoked
  save,     \* the saves under way
  apart     \* an error or an overlap of saves may have put user and account apart
            \* (history)

avatarState == <<pending, deleting, crop, blobs, made, revoked>>
vars == <<page, user, account, session, logout, saving, avatarState, save, apart>>

URLs == 0..MaxURLs
Profiles == [name : Names, avatar : BOOLEAN]  \* of an avatar, whether there is one
Null == [avatar |-> FALSE]
Idle == [st |-> "none"]
Requests == {"avatar", "delete", "patch"}
Saves ==
  {Idle} \cup [st : Requests \cup {"preload"}, ans : {"waiting", "ok", "error"},
               user : Profiles \cup {Null}, pending : URLs, deleting : BOOLEAN,
               name : Names, here : BOOLEAN]

TypeOK ==
  /\ page \in {"profil", "login"}
  /\ user \in Profiles \cup {Null} /\ account \in Profiles
  /\ logout \in {"none", "waiting", "ok", "error"}
  /\ {session, saving, deleting, apart} \subseteq BOOLEAN
  /\ {pending, crop, made} \subseteq URLs /\ revoked \subseteq 1..made
  /\ blobs \in Seq([pending : URLs, crop : URLs])
  /\ save \in [Slots -> Saves]

Init ==
  /\ page = "profil"
  /\ account \in Profiles
  /\ user = account /\ session = TRUE /\ logout = "none"
  /\ saving = FALSE
  /\ pending = 0 /\ deleting = FALSE /\ crop = 0 /\ blobs = <<>>
  /\ made = 0 /\ revoked = {}
  /\ save = [s \in Slots |-> Idle]
  /\ apart = FALSE
-----------------------------------------------------------------------------
(* Mounting *)

Unmounted ==
  /\ saving' = FALSE
  /\ pending' = 0 /\ deleting' = FALSE /\ crop' = 0 /\ blobs' = <<>>
  /\ save' = [s \in Slots |-> IF save[s] = Idle THEN Idle ELSE [save[s] EXCEPT !.here = FALSE]]
  /\ UNCHANGED <<made, revoked>>

\* To another page of the dashboard and back: there nothing bears on this state.
Revisit ==
  /\ page = "profil" /\ crop = 0
  /\ Unmounted
  /\ UNCHANGED <<page, user, account, session, logout, apart>>
-----------------------------------------------------------------------------
(* The shell *)

Logout ==
  /\ page # "login" /\ crop = 0
  /\ logout = "none" /\ logout' = "waiting"
  /\ UNCHANGED <<page, user, account, session, saving, avatarState, save, apart>>

ServeLogout ==
  /\ logout = "waiting"
  /\ \/ session' = FALSE /\ logout' \in {"ok", "error"}
     \/ UNCHANGED session /\ logout' = "error"
  /\ UNCHANGED <<page, user, account, saving, avatarState, save, apart>>

\* finally: whatever the answer.
LogoutAnswered ==
  /\ page # "login" /\ logout \in {"ok", "error"}
  /\ user' = Null /\ page' = "login"
  /\ Unmounted
  /\ UNCHANGED <<account, session, logout, apart>>

\* The login page, and the shell mounted again.
SignIn ==
  /\ page = "login" /\ page' = "profil"
  /\ user' = account /\ session' = TRUE /\ logout' = "none"
  /\ UNCHANGED <<account, saving, avatarState, save, apart>>
-----------------------------------------------------------------------------
(* The avatar before the save *)

Revoke(urls) == revoked' = revoked \cup (urls \ {0})

At == page = "profil"
Clickable == At /\ crop = 0

PickFile ==
  /\ Clickable /\ ~saving
  /\ made < MaxURLs
  /\ made' = made + 1 /\ crop' = made + 1
  /\ UNCHANGED <<page, user, account, session, logout, saving, pending, deleting, blobs,
                 revoked, save, apart>>

\* Nothing disables "Terapkan" while the canvas is encoded.
Apply ==
  /\ At /\ crop # 0
  /\ Len(blobs) < MaxBlobs
  /\ blobs' = Append(blobs, [pending |-> pending, crop |-> crop])
  /\ UNCHANGED <<page, user, account, session, logout, saving, pending, deleting, crop,
                 made, revoked, save, apart>>

\* The new preview has an URL of its own.
Cropped ==
  /\ blobs # <<>>
  /\ made < MaxURLs
  /\ made' = made + 1 /\ pending' = made + 1
  /\ Revoke({Head(blobs).pending, Head(blobs).crop})
  /\ deleting' = FALSE /\ crop' = 0
  /\ blobs' = Tail(blobs)
  /\ UNCHANGED <<page, user, account, session, logout, saving, save, apart>>

CropCancelled ==
  /\ At /\ crop # 0
  /\ crop' = 0
  /\ Revoke({crop})
  /\ UNCHANGED <<page, user, account, session, logout, saving, pending, deleting, blobs,
                 made, save, apart>>

\* handleMarkDeleteAvatar, and handleCancelAvatarChanges for what is pending.
DropPending ==
  /\ pending' = 0
  /\ Revoke({pending})
  /\ UNCHANGED <<page, user, account, session, logout, saving, crop, blobs, made, save, apart>>
DeleteEnabled == ~saving /\ pending = 0 /\ ~deleting /\ user.avatar
MarkDelete ==
  /\ Clickable
  /\ DeleteEnabled
  /\ deleting' = TRUE
  /\ DropPending
CancelChanges ==
  /\ Clickable /\ ~saving
  /\ pending # 0 \/ deleting
  /\ deleting' = FALSE
  /\ DropPending
-----------------------------------------------------------------------------
(* saveProfile *)

FirstRequest == IF pending # 0 THEN "avatar" ELSE IF deleting THEN "delete" ELSE "patch"
\* Of a save x: what it sends after its avatar or its deletion.
NextRequest(x) == IF x.st = "avatar" /\ x.deleting THEN "delete" ELSE "patch"
OnTheWire(s) == save[s].st \in Requests

\* name is what was typed: the fields are filled from the user, and again from the
\* answer of a save.
Save(s, name) ==
  /\ Clickable /\ ~saving
  /\ save[s] = Idle
  /\ save' = [save EXCEPT ![s] =
       [st |-> FirstRequest, ans |-> "waiting", user |-> Null, pending |-> pending,
        deleting |-> deleting, name |-> name, here |-> TRUE]]
  /\ saving' = TRUE
  /\ apart' = \E t \in Slots : OnTheWire(t)
  /\ UNCHANGED <<page, user, account, session, logout, avatarState>>

Updated(x) ==
  CASE x.st = "avatar" -> [account EXCEPT !.avatar = TRUE]
    [] x.st = "delete" -> [account EXCEPT !.avatar = FALSE]
    [] OTHER           -> [account EXCEPT !.name = x.name]

\* UploadAvatar, DeleteAvatar, UpdateProfile: carried out, its answer maybe lost,
\* or refused.
Serve(s) ==
  /\ OnTheWire(s) /\ save[s].ans = "waiting"
  /\ \/ /\ session
        /\ save[s].st = "delete" => account.avatar
        /\ account' = Updated(save[s])
        /\ save' \in {[save EXCEPT ![s].ans = "ok", ![s].user = account'],
                      [save EXCEPT ![s].ans = "error"]}
     \/ UNCHANGED account /\ save' = [save EXCEPT ![s].ans = "error"]
  /\ UNCHANGED <<page, user, session, logout, saving, avatarState, apart>>

RequestDone(s) ==
  /\ save[s].st \in {"avatar", "delete"} /\ save[s].ans = "ok"
  /\ save' = [save EXCEPT ![s].st = NextRequest(save[s]), ![s].ans = "waiting",
                          ![s].user = Null]
  /\ UNCHANGED <<page, user, account, session, logout, saving, avatarState, apart>>

\* clearPending of a save.  The state of a page that was left is not set.
\* Slip: the preview stays displayed when its URL is revoked.
KeepPreview(x) ==
  /\ Revoke({x.pending})
  /\ UNCHANGED <<pending, deleting>>
ClearPending(x) ==
  /\ Revoke({x.pending})
  /\ IF x.here THEN pending' = 0 /\ deleting' = FALSE ELSE UNCHANGED <<pending, deleting>>

\* Slip: the name of before stays in the header.
SetAvatarOnly(latest) == [user EXCEPT !.avatar = latest.avatar]
SetUser(latest) == latest

Saved(s) ==
  /\ save[s].st = "patch" /\ save[s].ans = "ok"
  /\ LET x == save[s] IN
       /\ user' = SetUser(x.user)
       /\ saving' = (saving /\ ~x.here)
       /\ IF x.pending # 0 /\ x.user.avatar
          THEN /\ save' = [save EXCEPT ![s].st = "preload", ![s].ans = "waiting",
                                       ![s].user = Null]
               /\ UNCHANGED <<pending, deleting, revoked>>
          ELSE save' = [save EXCEPT ![s] = Idle] /\ ClearPending(x)
  /\ UNCHANGED <<page, account, session, logout, crop, blobs, made, apart>>

\* img.onload, img.onerror
Preloaded(s) ==
  /\ save[s].st = "preload"
  /\ ClearPending(save[s])
  /\ save' = [save EXCEPT ![s] = Idle]
  /\ UNCHANGED <<page, user, account, session, logout, saving, crop, blobs, made, apart>>

SaveFailed(s) ==
  /\ OnTheWire(s) /\ save[s].ans = "error"
  /\ saving' = (saving /\ ~save[s].here)
  /\ save' = [save EXCEPT ![s] = Idle]
  /\ apart' = TRUE
  /\ UNCHANGED <<page, user, account, session, logout, avatarState>>
-----------------------------------------------------------------------------
Pressed ==
  \/ Revisit \/ Logout \/ SignIn
  \/ PickFile \/ Apply \/ CropCancelled \/ MarkDelete \/ CancelChanges
  \/ \E s \in Slots, n \in Names : Save(s, n)
SaveStep(s) == Serve(s) \/ RequestDone(s) \/ Saved(s) \/ Preloaded(s) \/ SaveFailed(s)

Next ==
  \/ Pressed \/ Cropped
  \/ ServeLogout \/ LogoutAnswered
  \/ \E s \in Slots : SaveStep(s)

Spec == Init /\ [][Next]_vars
-----------------------------------------------------------------------------
(* Properties *)

\* The browser can always load the preview and the picture to crop: no handler,
\* running late with what it captured, revokes an object URL that is displayed.
ShownURLIsLive == {pending, crop} \cap revoked = {}

\* After saves whose requests all succeeded, the user of AuthProvider, whose name
\* and avatar the dashboard shows, is what the database keeps, although the answers
\* of the chain each carry one.
SavedProfileIsShown ==
  ~apart /\ user # Null /\ (\A s \in Slots : ~OnTheWire(s)) => user = account

\* Does not hold, see the README: who logged out ("Anda berhasil keluar.",
\* dashboard-shell.tsx:53) stays logged out in this tab until the next login.  A save
\* under way still sets the user.
LoggedOutStaysOut == page = "login" => user = Null
=============================================================================
