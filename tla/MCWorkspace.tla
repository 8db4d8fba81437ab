---------------------------- MODULE MCWorkspace ----------------------------
(* The compliance workspace with model values. *)
EXTENDS Workspace, TLC

WorkspaceSymmetry == Permutations(Handlers)
=============================================================================
