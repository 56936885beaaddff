\* The 10G queue, without excluding that the last word has to wait.
CONSTANTS
  DEPTH = 5
  ALMOST_FULL_OFFSET = 1
  INFO_DEPTH = 3
  Lens = {2, 4, 5}
  Speeds = {"10G"}
SPECIFICATION Spec
INVARIANT OneInfoPerPacket
