SPECIFICATION Spec
CONSTANTS
  MaxInt = 3
  Workers = {w1, w2}
  Lines <- MCLines
  Stores <- MCStores
  NoLine = noLine
  Nobody = nobody
INVARIANTS TypeOK
PROPERTIES ImplementsAtomicStore OneTradeAtATime BuysNeverOversell MutexReleased
