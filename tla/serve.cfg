SPECIFICATION MCSpec
CONSTANTS
  ReqTypes = {"panic", "print", "scan"}
  Texts = {"a", "b"}
  Lines = {"text"}
  EthernetUp = {FALSE}
  MaxFaults = 0
  Garbles = FALSE
  DebugWords = 1
  ReqTypes2 = {"print", "enet_send", "enet_recv", "wireless_send", "wireless_recv", "pow"}
  Lines2 = {}
  EthernetUp2 = {TRUE, FALSE}
  MaxFaults2 = 0
  Garbles2 = FALSE
INVARIANTS TypeOK BuffersIntact AckMatches
PROPERTIES JobStable ImplementsService
