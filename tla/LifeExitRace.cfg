\* The module is unloaded while the polling is at work.
CONSTANTS
  NUM_NETDEVS = 3
  DMA_CPU_BUFS = 5
  MIN_DMA_CPU_BUFS = 1
SPECIFICATION Spec
INVARIANT NoTimerLeft
