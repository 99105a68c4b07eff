--------------------------- MODULE GrantLifecycle ---------------------------
(***************************************************************************)
(* What the grant store promises an application, whatever runs             *)
(* concurrently: an authorization code is redeemed at most once, and only  *)
(* while it is open; redeeming it starts a token family, which holds one   *)
(* usable refresh token at a time; rotation replaces that token by one     *)
(* never seen before; a grant that was withdrawn never comes back.         *)
(***************************************************************************)
CONSTANTS Codes, Tokens

VARIABLES
  open,     \* codes that may be redeemed
  known,    \* codes ever approved
  current,  \* usable tokens of each family, named by its first token
  issued    \* tokens ever issued

vars == <<open, known, current, issued>>

Init ==
  /\ open = {} /\ known = {}
  /\ current = [f \in Tokens |-> {}]
  /\ issued = {}

Approve(k) ==
  /\ k \in Codes \ known
  /\ open' = open \cup {k} /\ known' = known \cup {k}
  /\ UNCHANGED <<current, issued>>

Redeem(k, n) ==
  /\ k \in open /\ n \in Tokens \ issued
  /\ open' = open \ {k}
  /\ current' = [current EXCEPT ![n] = {n}]
  /\ issued' = issued \cup {n}
  /\ UNCHANGED known

Rotate(f, n) ==
  /\ current[f] # {} /\ n \in Tokens \ issued
  /\ current' = [current EXCEPT ![f] = {n}]
  /\ issued' = issued \cup {n}
  /\ UNCHANGED <<open, known>>

\* Codes lapse or are deleted and families lose their token; nothing else.
Withdraw ==
  /\ open' \in SUBSET open
  /\ current' \in [Tokens -> SUBSET Tokens]
  /\ \A f \in Tokens : current'[f] \in {{}, current[f]}
  /\ UNCHANGED <<known, issued>>

Next ==
  \/ \E k \in Codes : Approve(k)
  \/ \E k \in Codes, n \in Tokens : Redeem(k, n)
  \/ \E f \in Tokens, n \in Tokens : Rotate(f, n)
  \/ Withdraw

Spec == Init /\ [][Next]_vars
=============================================================================
