SPECIFICATION Spec
CONSTANTS
  Main = main
  Workers = {w1}
  Receivers = {main}
  Conns = {c1}
  Stop = stop
  NoConn = noConn
  QueueSize = 1
  MaxSignals = 0
INVARIANT ErrorEndsConnectionOnly
