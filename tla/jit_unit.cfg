SPECIFICATION UnitSpec
CONSTANTS
  Programs <- MCPrograms
  Calls <- MCCalls
  Main = 0
  Runtime = 1
  NoPackage = 9
  MaxRecursionDepth = 2
  Slots = 2
INVARIANTS
  AnswerIsRight
  HostTypesRebuilt
  NothingOutlivesTheCall
  ImportsFirst
PROPERTY BuildEnds
CHECK_DEADLOCK FALSE
