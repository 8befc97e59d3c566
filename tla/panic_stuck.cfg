CONSTANTS
  ReqTypes = {"print"}
  Texts = {"a"}
  Lines = {"debug"}
  EthernetUp = {FALSE}
  MaxFaults = 1
  Garbles = FALSE
  DebugWords = 1
SPECIFICATION FairSpec
PROPERTY PanicPowersDown
CHECK_DEADLOCK FALSE
