----------------------------- MODULE MCPipeline -----------------------------
(***************************************************************************)
(* Instances of IngestionPipeline for TLC.                                  *)
(***************************************************************************)
EXTENDS IngestionPipeline

CONSTANTS d1, d2, w1, w2, p1

MCOneProcess == [w \in Workers |-> p1]
MCContentBenign == [d \in Docs |-> "benign"]
MCContentMixed == [d \in Docs |-> IF d = d1 THEN "malware" ELSE "benign"]
=============================================================================
