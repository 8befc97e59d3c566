SPECIFICATION MCSpec
CONSTANTS
  Attempts = 2
  BUF_SIZE = 2
  PeerBytes = 3
  MaxCalls = 2
INVARIANTS
  NoFdLeak StreamsExact
PROPERTIES
  EveryoneServed ComesUp
CHECK_DEADLOCK FALSE
