--------------------------- MODULE MCScanPipeline ---------------------------
(***************************************************************************)
(* Instances of ScanPipeline for TLC.                                       *)
(***************************************************************************)
EXTENDS ScanPipeline

CONSTANTS d1, d2, w1, w2, p1

MCOneProcess == [w \in Workers |-> p1]
MCContentBenign == [d \in Docs |-> "benign"]
=============================================================================
