SPECIFICATION MCSpec
CONSTANTS
  Ends = {"a", "b"}
  PeerOf <- Pair
  Demands <- WrongDemands
  Secret <- WrongSecret
  MaxTransmits = 2
  ReqTimeout = TRUE
  ChalInterval = FALSE
  MaxConnect = FALSE
  MaxOpen = 3
  MaxClose = 0
  MaxLose = 1
  MaxFire = 2
  MaxAgain = 0
  MaxNp = 0
INVARIANTS
  OnlyWithSecret EndsAgree LeaseHeld
CHECK_DEADLOCK FALSE
