-------------------------- MODULE MCClientAccount --------------------------
(* Small instances of ClientAccount for TLC. *)
EXTENDS ClientAccount, TLC

Symmetry == Permutations(Requests) \cup Permutations(Links)
                \cup Permutations(Tokens) \cup Permutations(Passwords)
=============================================================================
