SPECIFICATION MCSpec
CONSTANTS
  Panics = TRUE
  MaxRestarts = 2
INVARIANTS
  RailOrder  AccessExact TextsExact WirelessExact
CHECK_DEADLOCK FALSE
