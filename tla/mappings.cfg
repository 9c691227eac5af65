SPECIFICATION Spec
CONSTANTS
  Loaders = {l1, l2}
  LastPage = 14
  HostPages <- MCHostPages
  FirstModule = 1
  Reach = 10
  Pages <- MCPages
  MaxOutside = 1
  MaxRefusals = 1
  Free = Free
  Host = Host
  Outside = Outside
  NoLoader = NoLoader
  NoAddr = NoAddr
SYMMETRY Symmetry
INVARIANTS
  HeldStaysMapped
  ActiveIsHeld
  GivesUpOnlyWithoutRoom
PROPERTY ReplacesOnlyUnseen
