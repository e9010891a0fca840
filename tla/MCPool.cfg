CONSTANTS
  s1 = s1
  k1 = k1
  k2 = k2
  Submitters <- OneSubmitter
  Closers <- TwoClosers
  Capacity = 2
  JobQueueSize = 1
  WorkerIDs <- SomeIDs
  MaxJobs = 2
  MaxNested = 1
SPECIFICATION FairSpec
INVARIANTS
  SameIDInOrder
  CloseDrains
PROPERTIES
  CallsEnd
CHECK_DEADLOCK FALSE
