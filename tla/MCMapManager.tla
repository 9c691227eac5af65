----------------------------- MODULE MCMapManager -----------------------------
(* Two loaders in a process of 14 pages.  The host has a page before its first *)
(* module, another mapping after it, and the topmost page; both segments take  *)
(* one page, and one more by rounding.                                         *)
EXTENDS MapManager, TLC

MCHostPages == {0, 1, 7, 14}
MCPages == [s \in {"code", "data"} |-> 1]
Symmetry == Permutations(Loaders)
=============================================================================
