--------------------------- MODULE MCAccountForms ---------------------------
(* Instances of AccountForms for TLC.                                          *)
EXTENDS AccountForms
=============================================================================
