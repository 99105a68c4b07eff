--------------------------- MODULE MCAuthorizePage ---------------------------
(* AuthorizePage for TLC.  Its liveness properties rule out symmetry.           *)
EXTENDS AuthorizePage
=============================================================================
