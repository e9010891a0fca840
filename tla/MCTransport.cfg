CONSTANTS
  Confs <- AllOrNothing
  Bytes = 3
  Backlog = 2
  MaxMessage = 2
  Timeout = 2
  NoReader = NoReader
SPECIFICATION FairSpec
INVARIANTS
  NoSocketLeaked
  StreamIntact
PROPERTIES
  CallsEnd
CHECK_DEADLOCK FALSE
