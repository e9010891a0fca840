CONSTANTS
  p1 = p1
  k1 = k1
  t1 = t1
  t2 = t2
  t3 = t3
  Servers <- OneServer
  Closers <- OneCloser
  Transports <- ThreeTransports
  MaxConns = 2
SPECIFICATION FairSpec
INVARIANTS
  CapacityRespected
  NoConnEscapesClose
  ServeReturnsClean
PROPERTIES
  ConnsAreConnections
  ServeEnds
CHECK_DEADLOCK FALSE
