--------------------------- MODULE MCSigningPage ---------------------------
(* Small instances of SigningPage for TLC. *)
EXTENDS SigningPage
=============================================================================
