CONSTANTS
  s1 = s1
  s2 = s2
  k1 = k1
  k2 = k2
  Submitters <- TwoSubmitters
  Closers <- TwoClosers
  LimitSize = 1
  MaxTasks = 2
  TqSize = 3
  MaxTimers = 3
  MaxTime = 1
  Intervals = {0, 1}
  Limits = {0, 2}
  InitCapacity = 1
SPECIFICATION CallbacksSpec
INVARIANTS
  ConcurrencyLimit
  CloseWaitsForTasks
  HeapConsistent
  NoTimerLost
  CallsWithinLimit
PROPERTIES
  CloseEnds
  RunEnds
CHECK_DEADLOCK FALSE
