SPECIFICATION Spec
CONSTANTS
  Heaps <- MCHeaps
  Root = 0
  Fresh <- MCFresh
  Stack = 12
  Nil = 99
CHECK_DEADLOCK FALSE
INVARIANTS
  OnlyKnownRemains
  FailsForAReason
PROPERTY ConversionEnds
