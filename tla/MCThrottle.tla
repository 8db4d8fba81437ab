------------------------------ MODULE MCThrottle ------------------------------
(* LoginThrottle with model values. *)
EXTENDS LoginThrottle

CONSTANTS e1, e2, a1, r1, r2
=============================================================================
