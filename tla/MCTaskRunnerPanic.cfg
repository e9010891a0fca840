CONSTANTS
  s1 = s1
  s2 = s2
  k1 = k1
  k2 = k2
  Submitters <- TwoSubmitters
  Closers <- TwoClosers
  LimitSize = 1
  MaxTasks = 2
SPECIFICATION Spec
INVARIANTS
  SubmitNeverPanics
CHECK_DEADLOCK FALSE
