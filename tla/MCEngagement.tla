---------------------------- MODULE MCEngagement ----------------------------
(* Small instances of Engagement for TLC. *)
EXTENDS Engagement, TLC

Symmetry == Permutations(Clicks) \cup Permutations(Hooks)
                \cup Permutations(Admins) \cup Permutations(Envelopes)
=============================================================================
