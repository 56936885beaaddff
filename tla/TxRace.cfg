\* A network device transmits while a process uses the DMA_TX command.
CONSTANTS
  DMA_CPU_BUFS = 2
  Netdevs = {0}
  Apps = {a1}
  Lengths <- MCLengths
  AppOpcodes <- MCOpcodes
  Overlap = TRUE
  StatMod = 2
  NoOwner = NoOwner
SPECIFICATION Spec
INVARIANT TxExclusion
