SPECIFICATION Spec
CONSTANTS
  Programs <- MCPrograms
  PcBucketSize = 128
  NSub = 4
  ByteMod = 4
INVARIANTS StubsIntact PcValuesCover FindFuncFinds
