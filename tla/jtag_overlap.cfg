CONSTANTS
  ReqTypes = {"print"}
  Texts = {"a"}
  Lines = {"debug"}
  EthernetUp = {FALSE}
  MaxFaults = 0
  Garbles = FALSE
  DebugWords = 1
SPECIFICATION Spec
INVARIANT JtagExclusive
