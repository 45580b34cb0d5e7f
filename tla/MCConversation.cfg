SPECIFICATION Spec
CONSTANTS
  NL = nl
  a = a
  x = x
  Bytes <- MCBytes
  Requests <- MCRequests
  Replies <- MCReplies
  ExitLines <- MCExitLines
  MaxLine = 3
  BufSize = 2
  PipeSize = 3
  MaxRequests = 3
INVARIANTS TypeOK WhyStuck InStep
PROPERTIES ImplementsLineStream StockClientAnswered ServerEndsWithClient
