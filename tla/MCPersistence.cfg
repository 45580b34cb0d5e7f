SPECIFICATION Spec
CONSTANTS
  Stores = {s0, s1, s2}
  InitStore = s0
  NoStore = noStore
  Partial = partial
  Ordered = TRUE
  MaxGen = 3
  MaxFaults = 3
INVARIANTS TypeOK PublishedIsDurable
PROPERTIES ImplementsDurableStore EventuallyServes
