\* Load, probe, unplug and unload in any order; every call may fail.
CONSTANTS
  NUM_NETDEVS = 3
  DMA_CPU_BUFS = 5
  MIN_DMA_CPU_BUFS = 1
SPECIFICATION FairSpec
INVARIANTS ResourcesSound UnloadedClean ReleasesMatched UsersHaveMemory
PROPERTIES LoadAndUnloadEnd
