--------------------------- MODULE MCProvisioning ---------------------------
(***************************************************************************)
(* Instances of Provisioning for TLC.                                      *)
(***************************************************************************)
EXTENDS Provisioning, TLC

CONSTANTS member1, owner1, w1, w2, r1, r2

MemberOnly == {member1}
OwnerAndMember == {owner1, member1}
NoWorkers == {}
NoRequests == {}

OneRequest == {r1}
TwoRequests == {r1, r2}
TwoWorkers == {w1, w2}

SameRequests == Permutations(TwoRequests)
SameWorkers == Permutations(TwoWorkers)

(* The dispatcher starts with Queued committed events of one user: the     *)
(* snapshot of an assignment older than the target, then what any sequence *)
(* of deactivate, activate, AssignClientUser and UpdateProfile writes.     *)
CONSTANT Queued

Histories == {h \in [1 .. Queued -> Kinds] : h[1] = "assigned"}
Disabled(h) == \E i \in 1 .. Queued :
  h[i] = "unassigned" /\ \A j \in i .. Queued : h[j] # "assigned"

QueuedInit ==
  \E h \in Histories :
    /\ up = TRUE
    /\ client = "active"
    /\ account = [u \in Users |-> IF Disabled(h) THEN "inactive" ELSE "active"]
    /\ assign = [u \in Users |-> "active"]
    /\ req = [r \in Requests |-> Idle]
    /\ clock = Queued
    /\ event = [e \in Ids |-> IF e <= Queued THEN [kind |-> h[e], user |-> member1] ELSE None]
    /\ row = [e \in Ids |-> IF e <= Queued THEN Fresh(e = 1) ELSE None]
    /\ woken = TRUE
    /\ worker = [w \in Workers |-> Off]
    /\ last = [u \in Users |-> 0]
    /\ member = [u \in Users |-> FALSE]
    /\ interventions = 0

QueuedSpec == QueuedInit /\ [][Next]_vars
FairQueuedSpec == QueuedSpec /\ Fairness
=============================================================================
