CONSTANTS
  TqSize = 3
  MaxTimers = 3
  MaxTime = 1
  Intervals = {0, 1}
  Limits = {0, 2}
  InitCapacity = 1
SPECIFICATION TimerSpec
INVARIANTS
  LimitRespected
CHECK_DEADLOCK FALSE
