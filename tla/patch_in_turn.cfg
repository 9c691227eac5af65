SPECIFICATION Spec
CONSTANTS
  Modules = {m1, m2, m3}
  Types = {t1, t2}
  NMethods = 4
  HostIfn <- MCHostIfn
  HostTfn <- MCHostTfn
  HostMtyp <- MCHostMtyp
  ItabSlots <- MCHostMtyp
  Host = Host
  Missing = Missing
  MaxRelocs = 2
  Sequential = TRUE
  LoadFailures = TRUE
  Orders = {"any", "oldestFirst", "newestFirst"}
SYMMETRY Symmetry
CHECK_DEADLOCK FALSE
INVARIANTS JitTextNeedsPatcher LoadedMethodsReachable ItabMatchesMethod OrderedUnloadsAreSafe HostTableRestored HostMethodsUntouched
