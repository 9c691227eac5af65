------------------------------ MODULE MCItabTable ------------------------------
(***************************************************************************)
(* Instances of ItabTable.  All pairs collide in two neighbouring entries. *)
(* h1, h2 have an itab in the host; d is a pair of host types that only    *)
(* modules, or the runtime, make an itab for; a1 and a2 are pairs of the   *)
(* own types of m1 and m2; x, an interface of m1 with a type of m2, is met *)
(* in a type assertion only.                                               *)
(***************************************************************************)
EXTENDS ItabTable, TLC

CONSTANTS h1, h2, d, a1, a2, x, m1, m2, m3

MCHome == (h1 :> 0) @@ (h2 :> 1) @@ (d :> 0) @@ (a1 :> 0) @@ (a2 :> 1) @@ (x :> 1)
MCInterOwner == [p \in Pairs |-> CASE p \in {a1, x} -> m1 [] p = a2 -> m2 [] OTHER -> Host]
MCTypeOwner == [p \in Pairs |-> CASE p = a1 -> m1 [] p \in {a2, x} -> m2 [] OTHER -> Host]
MCLinks ==
  [m \in Modules |->
    CASE m = m1 -> <<d, a1>> [] m = m2 -> <<a2, h1>> [] OTHER -> <<d, h2>>]
MCHostPairs == <<h1, h2>>
================================================================================
