\* One pair of interfaces, a ring of two buffers (or one, when memory is
\* short), load to unload.
CONSTANTS
  Netdevs = {0, 1}
  DMA_CPU_BUFS = 2
  MIN_DMA_CPU_BUFS = 1
  Budget = 1
  Protos <- MCProtos
  StatMod = 2
SPECIFICATION FairSpec
INVARIANTS RingSound RingOutlivesUsers OneDriver PairAccount
PROPERTIES RingIsFifo Progress
\* A loaded module stops when it is unloaded or could not be loaded.
CHECK_DEADLOCK FALSE
