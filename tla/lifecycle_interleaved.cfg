SPECIFICATION FairSpec
CONSTANTS
  Modules = {m1, m2, m3}
  First = First
  Nil = Nil
  FailAt = {"mmapData", "link", "dedup"}
  AtOnce = {1, 2}
INVARIANTS RegisteredThenForgotten
  RuntimeKnowsLoaded
PROPERTIES RegistrySpec OperationsFinish
