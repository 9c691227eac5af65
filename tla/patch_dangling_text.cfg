SPECIFICATION Spec
CONSTANTS
  Modules = {m1, m2}
  Types = {t1}
  NMethods = 4
  HostIfn <- MCHostIfn
  HostTfn <- MCHostTfn
  HostMtyp <- MCHostMtyp
  ItabSlots <- MCHostMtyp
  Host = Host
  Missing = Missing
  MaxRelocs = 1
  Sequential = TRUE
  LoadFailures = FALSE
  Orders = {"newestFirst"}
SYMMETRY Symmetry
CHECK_DEADLOCK FALSE
INVARIANTS NoDanglingText
