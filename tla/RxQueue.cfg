\* One frame just fits what almost full leaves free, one does not; rx_info_fifo
\* fills up once verdicts on dropped frames pile up in it.
CONSTANTS
  DEPTH = 6
  ALMOST_FULL_OFFSET = 2
  INFO_DEPTH = 2
  Lens = {2, 3}
  LastValid = {"full", "part"}
  None = None
SPECIFICATION FairSpec
INVARIANTS FifoSound VerdictIsOwn
PROPERTIES WordsInOrder FramesLeave
