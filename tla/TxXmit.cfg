\* Two network devices transmit and a process uses the DMA_TX command, but
\* not at the same time.
CONSTANTS
  DMA_CPU_BUFS = 2
  Netdevs = {0, 1}
  Apps = {a1}
  Lengths <- MCLengths
  AppOpcodes <- MCOpcodes
  Overlap = FALSE
  StatMod = 2
  NoOwner = NoOwner
SPECIFICATION FairSpec
INVARIANTS RingSound TxExclusion FramesWhole StatsAccount
PROPERTIES TxIsFifo Progress
