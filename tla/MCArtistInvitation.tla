------------------------- MODULE MCArtistInvitation -------------------------
(* ArtistInvitation for TLC: the identities are interchangeable. *)
EXTENDS ArtistInvitation, TLC

Symmetry ==
    Permutations(Invitations) \cup Permutations(Links)
        \cup Permutations(Artists) \cup Permutations(Requests)
=============================================================================
