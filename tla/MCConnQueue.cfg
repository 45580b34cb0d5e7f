SPECIFICATION Spec
CONSTANTS
  Main = main
  Workers = {w1, w2, w3}
  Fds = {fd, stop}
  NoFd = noFd
  QueueSize = 2
INVARIANTS TypeOK SlotsAccounted
PROPERTIES ImplementsFifo SomeWorkerWakes InsertReturns
