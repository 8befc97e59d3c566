SPECIFICATION MCSpec
CONSTANTS
  Overruns = FALSE
  Length = 2
  MaxChars = 6
  Request = 2
  MaxCalls = 3
INVARIANTS
  NothingLost BytesRead Accounts AllArrived
PROPERTIES
  EdgeKept
CHECK_DEADLOCK FALSE
