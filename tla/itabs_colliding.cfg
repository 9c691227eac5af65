SPECIFICATION Spec
CONSTANTS
  h1 = h1
  h2 = h2
  d = d
  a1 = a1
  a2 = a2
  x = x
  m1 = m1
  m2 = m2
  m3 = m3
  Modules = {m1, m2, m3}
  Pairs = {h1, h2, d, a1, a2, x}
  Size = 16
  Home <- MCHome
  Links <- MCLinks
  InterOwner <- MCInterOwner
  TypeOwner <- MCTypeOwner
  HostPairs <- MCHostPairs
  Host = Host
  Heap = Heap
  Nil = Nil
INVARIANTS NoItabOfUnloaded EveryItabFound
