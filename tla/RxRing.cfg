\* Timer, NAPI poll, hardware and all netlink commands; DMA_RX and
\* NAPI_ENABLE are used only while the polling is stopped.
CONSTANTS
  DMA_CPU_BUFS = 2
  Budget = 2
  Payloads = {p1}
  Opcodes <- MCOpcodes
  Commands = {"DMA_RX", "NAPI_ENABLE", "NAPI_DISABLE"}
  Discipline = "quiet"
  StatMod = 2
SPECIFICATION FairSpec
INVARIANTS RingSound PollingSafe StatsAccount
PROPERTIES RxIsFifo NapiContract FramesLeave
