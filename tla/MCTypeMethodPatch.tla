--------------------------- MODULE MCTypeMethodPatch ---------------------------
(***************************************************************************)
(* Instances of TypeMethodPatch.  The host has method 1 of every type      *)
(* complete.  Of method 2 it dropped both functions but kept the type,     *)
(* since an itab has an entry for it; of method 3 it kept tfn alone, which *)
(* is called directly; of method 4 it dropped tfn alone, the wrapper in    *)
(* ifn having inlined it.                                                  *)
(***************************************************************************)
EXTENDS TypeMethodPatch, TLC

MCHostIfn == {<<t, i>> : t \in Types, i \in {1, 4}}
MCHostTfn == {<<t, i>> : t \in Types, i \in {1, 3}}
MCHostMtyp == {<<t, i>> : t \in Types, i \in {1, 2, 4}}

Symmetry == Permutations(Modules) \cup Permutations(Types)
================================================================================
