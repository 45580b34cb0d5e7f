SPECIFICATION Spec
CONSTANTS
  Stores = {s0, s1}
  InitStore = s0
  NoStore = noStore
  Partial = partial
  Ordered = FALSE
  MaxGen = 2
  MaxFaults = 2
INVARIANT InterruptedBootstrapIsMarked
