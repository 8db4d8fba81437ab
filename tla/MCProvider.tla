----------------------------- MODULE MCProvider -----------------------------
(* ProviderExtraction for TLC: two dedup keys, so that units can repeat one. *)
EXTENDS ProviderExtraction

CONSTANTS k1, k2
=============================================================================
