SPECIFICATION MCSpec
CONSTANTS
  ReqTypes = {"print"}
  Texts = {"a"}
  Lines = {"text"}
  EthernetUp = {FALSE}
  MaxFaults = 1
  Garbles = TRUE
  DebugWords = 1
  ReqTypes2 = {"print"}
  Lines2 = {"quit", "text"}
  EthernetUp2 = {FALSE}
  MaxFaults2 = 0
  Garbles2 = FALSE
INVARIANTS LockInv MutualExclusion NoCircularWait QuitAlone
CHECK_DEADLOCK FALSE
