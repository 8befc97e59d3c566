CONSTANTS
  ReqTypes = {"scan"}
  Texts = {"a"}
  Lines = {"text"}
  EthernetUp = {FALSE}
  MaxFaults = 1
  Garbles = FALSE
  DebugWords = 1
SPECIFICATION FairSpec
PROPERTY RequestAcked
CHECK_DEADLOCK FALSE
