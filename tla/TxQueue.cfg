\* Both queues; packets below, at and above what almost full lets in.
CONSTANTS
  DEPTH = 5
  ALMOST_FULL_OFFSET = 1
  INFO_DEPTH = 3
  Lens = {2, 4, 5}
  Speeds = {"10G", "1G"}
SPECIFICATION FairSpec
INVARIANTS EntriesSound
PROPERTIES PacketsInOrder PacketsLeave ReadyAgain
