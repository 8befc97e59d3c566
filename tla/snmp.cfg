SPECIFICATION MCSpec
CONSTANTS
  TableSize = 2
  MaxAge = 2
  MaxPending = 2
  Queueing = FALSE
  QueueSize = 2
  Static = FALSE
  TrustIpMac = FALSE
  Hosts = {1, 2, 3}
  Own = 7
  Gateway = 3
  Remote = {9}
  Broadcast = 255
  Multicast = {5}
  Macs = {11, 12}
  MaxOut = 2
  MaxIn = 2
  MaxFail = 0
  MaxStatic = 0
  MaxAddr = 0
INVARIANTS
  OneEntryPerAddress RowsMatch WalksInOrder RequestsWhole ResponseReadable
CHECK_DEADLOCK FALSE
