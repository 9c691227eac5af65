SPECIFICATION Spec
CONSTANTS
  Procs = {p1, p2, p3}
  MaxCalls = 2
  MaxFaults = 1
SYMMETRY Symmetry
CHECK_DEADLOCK FALSE
INVARIANTS SnippetOnce OneInstaller InstalledIsPatched SuccessMeansPatched
  RepeatedCallsAreSafe
