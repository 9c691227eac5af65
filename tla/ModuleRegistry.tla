---------------------------- MODULE ModuleRegistry ----------------------------
(***************************************************************************)
(* What the store of loaded modules promises (itab.go:11, ld.go:88-92): a  *)
(* module is registered once, atomically, and later retired, atomically;   *)
(* neither step disturbs the other modules.  ModuleLifecycle implements it *)
(* with a linked list that is walked and rewritten pointer by pointer.     *)
(***************************************************************************)
CONSTANT Modules

VARIABLES present, retired

vars == <<present, retired>>

Init == present = {} /\ retired = {}

Register(m) ==
  /\ m \notin present \cup retired
  /\ present' = present \cup {m}
  /\ UNCHANGED retired

Retire(m) ==
  /\ m \in present
  /\ present' = present \ {m}
  /\ retired' = retired \cup {m}

Next == \E m \in Modules : Register(m) \/ Retire(m)

Spec == Init /\ [][Next]_vars
================================================================================
