SPECIFICATION ServerSpec
CONSTANTS
  Main = main
  Workers = {w1, w2}
  Receivers = {main}
  Conns = {c1, c2}
  Stop = stop
  NoConn = noConn
  QueueSize = 1
  MaxSignals = 1
  a = a
  b = b
  t1 = t1
  t2 = t2
  t3 = t3
  Stocks = {a, b}
  Trades = {t1, t2, t3}
  StockOf <- MCStockOf
  NoTrade = noTrade
  NoStore = noStore
INVARIANT SuccessIsDurable
