---------------------------- MODULE MCOAuthGrant ----------------------------
(* Instances of OAuthGrant for TLC.  They start from populated tables that   *)
(* Init reaches by CreateClient, Login and AssignClientUser.                 *)
EXTENDS OAuthGrant, TLC
CONSTANTS
  member, owner, app, opened,
  Opening  \* the policy app was registered with, "none" when owner has yet to register it

\* owner registered app; member is assigned to it and has the session opened.
Populated ==
  /\ user = [u \in Users |-> "active"]
  /\ cred = [u \in Users |-> 0]
  /\ session = [s \in Sessions |->
       IF s = opened THEN [st |-> "live", user |-> member, cred |-> 0] ELSE Absent]
  /\ \E policy \in Opening :
       /\ client = [c \in Clients |->
            IF c = app /\ policy # "none"
            THEN [st |-> "active", owner |-> owner, policy |-> policy,
                  redirects |-> Redirects, secret |-> 0]
            ELSE Absent]
       /\ assign = [p \in Pairs |->
            IF p[1] = app /\ policy # "none" THEN "active" ELSE "none"]
  /\ consent = [p \in Pairs |-> Absent]
  /\ code = [k \in Codes |-> Absent]
  /\ token = [t \in Tokens |-> Absent]
  /\ authz = [r \in AuthorizeRequests |-> Idle]
  /\ grant = [r \in TokenRequests |-> Idle]
  /\ cut = [r \in RevokeRequests |-> Idle]
  /\ acct = [r \in AccountRequests |-> Idle]
  /\ removal = [u \in Users |-> Idle]
  /\ approved = [p \in Pairs |-> {}]
  /\ closed = {}

MCSpec == Populated /\ [][Next]_vars
MCFairSpec ==
  /\ MCSpec
  /\ FairRequests

\* Ids and request slots are interchangeable.
Symmetry == Permutations(Sessions \ {opened}) \cup Permutations(Codes)
              \cup Permutations(Tokens) \cup Permutations(TokenRequests)
              \cup Permutations(RevokeRequests) \cup Permutations(AccountRequests)

\* The history variables steer nothing: runs whose properties do not read them
\* identify states that differ only there.  The equation is always true; comparing
\* approved makes TLC evaluate the function, which it cannot store otherwise.
WithoutHistory == <<stores, requests, approved = approved>>
=============================================================================
