------------------------------- MODULE MCPatchGC -------------------------------
(***************************************************************************)
(* Instances of PatchGC.                                                   *)
(***************************************************************************)
EXTENDS PatchGC, TLC

Symmetry == Permutations(Procs)
================================================================================
