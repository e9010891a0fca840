CONSTANTS
  h1 = h1
  h2 = h2
  h3 = h3
  a1 = a1
  k1 = k1
  Serving = Serving
  Handlers <- ThreeHandlers
  Acceptors <- OneAcceptor
  Closers <- OneCloser
  MaxPendingConnections = 2
SPECIFICATION WsFairSpec
INVARIANTS
  PendingBound
  CloseIsClean
  AcceptResults
PROPERTIES
  CloseEnds
CHECK_DEADLOCK FALSE
