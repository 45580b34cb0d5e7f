SPECIFICATION Spec
CONSTANTS
  MaxInt = 3
  MAXLINE = 3
  SizeMax = 13
  Files <- MCFiles
  Trades <- MCTrades
  NULL = null
  NoTable = noTable
  Refused = refused
INVARIANTS TypeOK EveryStockIsFound WalkSeesAll ShowIsWhole NodesFreedOnce ReloadedTreeIsChain
PROPERTY ImplementsTable
