SPECIFICATION MCSpec
CONSTANTS
  Tcp = TRUE
  Lens = {1, 2}
  Reads = {1, 3}
  Peeks = {FALSE}
  Donts = {TRUE, FALSE}
  BoxSize = 2
  MaxOctets = 4
  MaxReads = 4
INVARIANTS
  ReadsExact AnsweredOnce NoLostWakeup
CHECK_DEADLOCK FALSE
