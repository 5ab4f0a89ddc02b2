------------------------- MODULE MCProfileWorkspace -------------------------
(* TLC instance of ProfileWorkspace. *)
EXTENDS ProfileWorkspace, TLC
Slots == Permutations(Req)
=============================================================================
