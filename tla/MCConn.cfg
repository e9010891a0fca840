CONSTANTS
  r1 = r1
  r2 = r2
  s1 = s1
  k1 = k1
  Runners <- TwoRunners
  Senders <- OneSender
  Closers <- OneCloser
  SendQueueSize = 1
  HasHeartbeator = TRUE
  Probing = TRUE
  MaxSends = 1
  MaxPings = 1
  MaxReads = 1
SPECIFICATION FairSpec
INVARIANTS
  TypeOK
  OnCloseIsLast
  CallbacksSerial
  NoLateDelivery
  AtMostOneLateWrite
  SendOrder
  CloseIsComplete
PROPERTIES
  EndsLikeConnection
  SendersReleased
CHECK_DEADLOCK FALSE
