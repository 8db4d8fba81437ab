------------------------------ MODULE MCStorage ------------------------------
(***************************************************************************)
(* Instances of StoragePipeline for TLC.                                    *)
(***************************************************************************)
EXTENDS StoragePipeline, TLC

CONSTANTS d1, w1, w2, p1

MCOneProcess == [w \in Workers |-> p1]
MCContentBenign == [d \in Docs |-> "benign"]
WorkerSymmetry == Permutations(Workers)
=============================================================================
