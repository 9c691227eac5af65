SPECIFICATION Spec
CONSTANTS
  Modules = {m1, m2}
  First = First
  Nil = Nil
  FailAt = {"dedup"}
  AtOnce = {1}
SYMMETRY Symmetry
INVARIANTS ModulesAreLoaded
