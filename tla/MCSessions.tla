----------------------------- MODULE MCSessions -----------------------------
(* Sessions with model values. *)
EXTENDS Sessions, TLC

SessionSymmetry == Permutations(Ids) \cup Permutations(Requests) \cup Permutations(Users)
=============================================================================
