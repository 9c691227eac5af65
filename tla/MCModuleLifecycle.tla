--------------------------- MODULE MCModuleLifecycle ---------------------------
(***************************************************************************)
(* Instances of ModuleLifecycle.                                           *)
(***************************************************************************)
EXTENDS ModuleLifecycle, TLC

Symmetry == Permutations(Modules)
================================================================================
