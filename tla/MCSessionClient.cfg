CONSTANTS
  d1 = d1
  d2 = d2
  k1 = k1
  k2 = k2
  w1 = w1
  w2 = w2
  Dialers <- TwoDialers
  Closers <- TwoClosers
  Waiters <- TwoWaiters
SPECIFICATION FairSpec
INVARIANTS
  WaitMeansEnded
  NoConnEscapesClose
PROPERTIES
  WaitEnds
CHECK_DEADLOCK FALSE
