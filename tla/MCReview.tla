------------------------------ MODULE MCReview ------------------------------
(***************************************************************************)
(* Instances of ReviewSystem for TLC.                                       *)
(***************************************************************************)
EXTENDS ReviewSystem, TLC

CONSTANTS j1, j2, r1, r2, c1, c2, u1

ReviewSymmetry ==
    Permutations(Candidates) \cup Permutations(Jobs) \cup Permutations(Requests)
=============================================================================
