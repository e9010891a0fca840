CONSTANTS
  MaxSize = 2
  MaxBackups = 1
  MaxAge = 1
  Compress = TRUE
  MaxRecords = 3
  MaxTime = 3
  MaxFaults = 1
SPECIFICATION FairSpec
INVARIANTS
  NothingLost
  NewestKept
PROPERTIES
  SignalSeen
CHECK_DEADLOCK FALSE
