\* Four words, so that pointers of three bits wrap; two kinds of word.
CONSTANTS
  ASIZE = 2
  ALMOST_FULL_SIZE = 3
  ALMOST_EMPTY_SIZE = 1
  Data = {d1, d2}
SPECIFICATION FairFifoSpec
INVARIANTS PointersSound FlagsSafe
PROPERTIES IsFifo NewsArrives
