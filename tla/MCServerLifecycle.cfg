SPECIFICATION Spec
CONSTANTS
  Main = main
  Workers = {w1, w2}
  Receivers = {main, w1, w2}
  Conns = {c1, c2, c3}
  Stop = stop
  NoConn = noConn
  QueueSize = 2
  MaxSignals = 2
INVARIANTS TypeOK PillsAccounted StableWhenReturned
PROPERTIES ShutdownCompletes AcceptedIsServed
