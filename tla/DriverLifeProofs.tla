-------------------------- MODULE DriverLifeProofs --------------------------
(***************************************************************************)
(* Proofs about DriverLife, for every number of network devices and all    *)
(* buffer counts: whichever calls fail and however the card comes and      *)
(* goes, what probe holds is sound at every step; and outside the named    *)
(* lapses nothing is left behind, nothing is released twice, and no user   *)
(* of a ring meets one that does not exist.                                *)
(***************************************************************************)
EXTENDS DriverLife, TLAPS

(* While these run the PCI driver is registered. *)
WithDriver == Exiting \cup {"pci_wait", "loaded"}

(* Without a registered PCI driver no card is bound or being bound, and    *)
(* probe only runs for a card that is not bound yet.                       *)
Binding ==
  /\ "pci_driver" \in up <=> pc \in WithDriver
  /\ pc \notin WithDriver => bound = "no" /\ probe_pc = "idle"
  /\ probe_pc # "idle" => bound = "no"

(* The loop variable of init: in range where it is an index. *)
LoopIndex == pc = "register_netdevs" => i < NUM_NETDEVS

(* What probe has acquired at each of its steps. *)
ProbeHolds ==
  /\ probe_pc = "enable" => held = {}
  /\ probe_pc = "region" => held = {"device"}
  /\ probe_pc = "map" => held = {"device", "BAR0"}
  /\ probe_pc \notin {"idle", "enable", "region", "map"} => held = PciResources

(* The two DMA regions at each step of probe, against the loop variable    *)
(* and dma_region_size.                                                    *)
Full(n) == n = region /\ n = dma_cpu_bufs /\ n >= MIN_DMA_CPU_BUFS
ProbeMemory ==
  /\ probe_pc \in {"enable", "region", "map", "size", "mask", "alloc_tx",
                   "give_up"} => tx = 0 /\ rx = 0
  /\ probe_pc = "alloc_tx" => Full(region)
  /\ probe_pc = "alloc_rx" => Full(tx) /\ rx = 0
  /\ probe_pc \in {"workers", "add_timer"} => Full(tx) /\ Full(rx)

(* When probe is not running: nothing, or everything for a bound card.     *)
Nothing    == held = {} /\ tx = 0 /\ rx = 0
Everything == held = PciResources /\ Full(tx) /\ Full(rx)
AtRest ==
  probe_pc = "idle" =>
    /\ bound # "yes" => Nothing
    /\ bound = "yes" => Everything \/ Nothing
    /\ bound = "yes" /\ ~lapsed => Everything

ProbeInv == TypeOK /\ Binding /\ LoopIndex /\ ProbeHolds /\ ProbeMemory /\ AtRest

(* What init has set up at each of its steps and exit not yet taken down.  *)
Devices(l, a, r, u) == pc = l => allocated = a /\ registered = r /\ up = u
Stages ==
  ~lapsed =>
    /\ Devices("unloaded", {}, {}, {})
    /\ Devices("alloc_netdevs", 0 .. i - 1, {}, {})
    /\ Devices("register_netdevs", Netdevs, 0 .. i - 1, {"napi"})
    /\ Devices("genl_family", Netdevs, Netdevs, {"napi"})
    /\ Devices("genl_ops", Netdevs, Netdevs, {"napi", "genl"})
    /\ Devices("proc", Netdevs, Netdevs, {"napi", "genl"})
    /\ Devices("pci_register", Netdevs, Netdevs,
               {"napi", "genl", "proc", "napi_on"})
    /\ pc \in {"pci_wait", "loaded"} =>
         /\ allocated = Netdevs /\ registered = Netdevs
         /\ up = {"napi", "genl", "proc", "napi_on", "pci_driver"}
    /\ pc \in {"exit_wait", "exit_timer", "exit_genl"} =>
         /\ allocated = Netdevs /\ registered = Netdevs
         /\ up = {"napi", "genl", "proc", "pci_driver"}
    /\ Devices("exit_netdevs", Netdevs, Netdevs, {"napi", "pci_driver"})
    /\ Devices("exit_free", Netdevs, {}, {"napi", "pci_driver"})
    /\ Devices("exit_pci", {}, {}, {"pci_driver"})

(* The polling lives only with a bound card, and not past del_timer().     *)
PollingHeld ==
  ~lapsed =>
    /\ timer # "off" => /\ probe_pc = "idle" /\ bound = "yes"
                        /\ pc \in {"pci_wait", "loaded", "exit_wait",
                                   "exit_timer"}
    /\ pc = "exit_timer" => timer # "poll"

(* HW_INIT is set only while the rings exist, or the module is gone.       *)
InitBit ==
  ~lapsed /\ "HW_INIT" \in hw_state =>
    \/ pc = "unloaded"
    \/ probe_pc = "add_timer"
    \/ probe_pc = "idle" /\ bound = "yes"

IInv == /\ ProbeInv /\ Stages /\ PollingHeld /\ InitBit /\ ReleasesMatched

-----------------------------------------------------------------------------
(* Halving the buffer count stays in range. *)
LEMMA Halved ==
  ASSUME NEW n \in 0 .. DMA_CPU_BUFS
  PROVE  n \div 2 \in 0 .. DMA_CPU_BUFS
BY BufsAssumption

(* The two parts of the type invariant: the provers treat Booleans apart.  *)
Flags == card \in BOOLEAN /\ lapsed \in BOOLEAN
InitTypes ==
  /\ pc \in Loading \cup Exiting \cup {"unloaded", "loaded"}
  /\ i \in 0 .. NUM_NETDEVS
  /\ allocated \subseteq Netdevs
  /\ registered \subseteq Netdevs
  /\ up \subseteq {"napi", "genl", "proc", "napi_on", "pci_driver"}
  /\ timer \in {"off", "pending", "callback", "poll", "rearm"}
  /\ bad \subseteq PciResources \cup {"tx", "rx", "netdev", "pci_driver",
                                      "add_timer"}
ProbeTypes ==
  /\ bound \in {"no", "yes", "failed"}
  /\ probe_pc \in {"idle", "enable", "region", "map", "size", "mask",
                   "alloc_tx", "alloc_rx", "give_up", "workers", "add_timer"}
  /\ held \subseteq PciResources
  /\ tx \in {0} \cup MIN_DMA_CPU_BUFS .. DMA_CPU_BUFS
  /\ rx \in {0} \cup MIN_DMA_CPU_BUFS .. DMA_CPU_BUFS
  /\ dma_cpu_bufs \in 0 .. DMA_CPU_BUFS
  /\ region \in {0} \cup MIN_DMA_CPU_BUFS .. DMA_CPU_BUFS
  /\ hw_state \subseteq {"HW_FOUND", "HW_INIT"}

(* They make up the whole of it.                                          *)
LEMMA TypeParts == TypeOK <=> Flags /\ InitTypes /\ ProbeTypes
BY Zenon DEF TypeOK, Flags, InitTypes, ProbeTypes

(* The initial state satisfies the invariant. *)
LEMMA InitIInv == Init => IInv
<1> SUFFICES ASSUME Init PROVE IInv
  OBVIOUS
<1>1. TypeOK
  <2>1. Flags
    BY Zenon DEF Init, Flags
  <2>2. InitTypes /\ ProbeTypes
    BY BufsAssumption, CountAssumption
    DEF Init, InitTypes, ProbeTypes, Loading, Exiting
  <2> QED BY <2>1, <2>2, TypeParts
<1>2. Binding /\ LoopIndex /\ ProbeHolds /\ ProbeMemory /\ AtRest
  BY DEF Init, Binding, LoopIndex, ProbeHolds, ProbeMemory, AtRest, Nothing,
         WithDriver, Exiting
<1>3. Stages /\ PollingHeld /\ InitBit /\ ReleasesMatched
  BY DEF Init, Stages, Devices, PollingHeld, InitBit, ReleasesMatched
<1> QED BY <1>1, <1>2, <1>3 DEF IInv, ProbeInv

-----------------------------------------------------------------------------
(* The steps of init, exit and the polling leave probe's variables alone.  *)
Aside == UNCHANGED <<bound, probe_pc, held, tx, rx, dma_cpu_bufs, region,
                     hw_state>>

(* Only probe, remove and the PCI step of exit touch them.                 *)
LEMMA AsideSteps ==
  ASSUME nf10_eth_driver_init \/ UnloadModule \/ Polling \/ HotPlug
           \/ (nf10_eth_driver_exit /\ ~ExitPci)
  PROVE  Aside
BY DEF Aside, nf10_eth_driver_init, nf10_eth_driver_exit, Polling, HotPlug,
       UnloadModule, AllocNetdev, AllocNetdevFails, NapiAdd, RegisterNetdev,
       RegisterNetdevFails, GenlFamily, GenlOps, GenlFails, ProcAndNapi,
       PciRegister, PciRegisterFails, InitDone, PollingStep, TimerFires,
       CallbackRearms, CallbackSchedules, PollCompletes, PollRearms, ExitNapi,
       ExitTimer, ExitGenl, ExitNetdevs, ExitFree, probeVars, memVars

(* probe changes nothing of what init and exit are about.                  *)
LEMMA ProbeSteps ==
  ASSUME ProbeBegin \/ probe \/ HotUnplug \/ HotPlug \/ Polling
  PROVE  UNCHANGED <<pc, i, allocated, registered, up>>
BY DEF ProbeBegin, probe, HotUnplug, HotPlug, Polling, PollingStep,
       TimerFires, CallbackRearms, CallbackSchedules, PollCompletes,
       PollRearms, ProbeStep, ProbeEnable, ProbeRegion, ProbeMap, ProbeSize,
       ProbeMask, AllocTx, AllocRx, GiveUp, WorkersFail, WorkersStart,
       ProbeDone, devVars

-----------------------------------------------------------------------------
(* Types. *)
LEMMA FlagsStep ==
  ASSUME Flags, Next
  PROVE  Flags'
<1> SUFFICES card' \in BOOLEAN /\ lapsed' \in BOOLEAN
  BY DEF Flags
<1>1. card' \in BOOLEAN
  BY Zenon DEF Flags, Next, LoadModule, nf10_eth_driver_init, ProbeBegin,
     probe, HotPlug, HotUnplug, Polling, UnloadModule, nf10_eth_driver_exit,
     AllocNetdev, AllocNetdevFails, NapiAdd, RegisterNetdev,
     RegisterNetdevFails, GenlFamily, GenlOps, GenlFails, ProcAndNapi,
     PciRegister, PciRegisterFails, InitDone, PollingStep, TimerFires,
     CallbackRearms, CallbackSchedules, PollCompletes, PollRearms, ExitNapi,
     ExitTimer, ExitGenl, ExitNetdevs, ExitFree, ExitPci, ProbeStep,
     ProbeEnable, ProbeRegion, ProbeMap, ProbeSize, ProbeMask, AllocTx,
     AllocRx, GiveUp, WorkersFail, WorkersStart, ProbeDone
<1>2. lapsed' \in BOOLEAN
  BY Zenon DEF Flags, Next, LoadModule, nf10_eth_driver_init, ProbeBegin,
     probe, HotPlug, HotUnplug, Polling, UnloadModule, nf10_eth_driver_exit,
     AllocNetdev, AllocNetdevFails, NapiAdd, RegisterNetdev,
     RegisterNetdevFails, GenlFamily, GenlOps, GenlFails, ProcAndNapi,
     PciRegister, PciRegisterFails, InitDone, PollingStep, TimerFires,
     CallbackRearms, CallbackSchedules, PollCompletes, PollRearms, ExitNapi,
     ExitTimer, ExitGenl, ExitNetdevs, ExitFree, ExitPci, ProbeStep,
     ProbeEnable, ProbeRegion, ProbeMap, ProbeSize, ProbeMask, AllocTx,
     AllocRx, GiveUp, WorkersFail, WorkersStart, ProbeDone
<1> QED BY <1>1, <1>2

(* Types of the variables of init, exit and the polling. *)
LEMMA InitTypesStep ==
  ASSUME InitTypes, LoopIndex, Next
  PROVE  InitTypes'
<1> USE CountAssumption
    DEF InitTypes, Netdevs, PciResources, Loading, Exiting, devVars
<1>1. CASE LoadModule
  BY <1>1 DEF LoadModule
<1>2. CASE nf10_eth_driver_init
  <2>1. CASE AllocNetdev
    BY <2>1 DEF AllocNetdev
  <2>6. CASE AllocNetdevFails
    BY <2>6 DEF AllocNetdevFails
  <2>7. CASE NapiAdd
    BY <2>7 DEF NapiAdd
  <2>2. CASE RegisterNetdev
    BY <2>2 DEF RegisterNetdev, LoopIndex
  <2>3. CASE RegisterNetdevFails \/ GenlFamily \/ GenlOps
    BY <2>3 DEF RegisterNetdevFails, GenlFamily, GenlOps
  <2>4. CASE GenlFails \/ ProcAndNapi
    BY <2>4 DEF GenlFails, ProcAndNapi
  <2>5. CASE PciRegister \/ PciRegisterFails \/ InitDone
    BY <2>5 DEF PciRegister, PciRegisterFails, InitDone
  <2> QED BY <1>2, <2>1, <2>2, <2>3, <2>4, <2>5, <2>6, <2>7
      DEF nf10_eth_driver_init
<1>3. CASE ProbeBegin
  BY <1>3 DEF ProbeBegin
<1>4. CASE probe
  <2>1. CASE ProbeEnable \/ ProbeRegion \/ ProbeMap \/ ProbeSize
    BY <2>1 DEF ProbeEnable, ProbeRegion, ProbeMap, ProbeSize, ProbeStep
  <2>2. CASE ProbeMask \/ AllocTx \/ AllocRx
    BY <2>2 DEF ProbeMask, AllocTx, AllocRx
  <2>3. CASE GiveUp \/ WorkersFail \/ WorkersStart \/ ProbeDone
    BY <2>3 DEF GiveUp, WorkersFail, WorkersStart, ProbeDone, FreeAll
  <2> QED BY <1>4, <2>1, <2>2, <2>3 DEF probe
<1>5. CASE HotPlug \/ HotUnplug
  BY <1>5 DEF HotPlug, HotUnplug, Unbind, remove, FreeAll
<1>6. CASE Polling
  BY <1>6 DEF Polling, PollingStep, TimerFires, CallbackRearms,
              CallbackSchedules, PollCompletes, PollRearms
<1>7. CASE UnloadModule
  BY <1>7 DEF UnloadModule
<1>8. CASE nf10_eth_driver_exit
  <2>1. CASE ExitNapi \/ ExitTimer \/ ExitGenl \/ ExitNetdevs \/ ExitFree
    BY <2>1 DEF ExitNapi, ExitTimer, ExitGenl, ExitNetdevs, ExitFree
  <2>2. CASE ExitPci
    BY <2>2 DEF ExitPci, Unbind, remove, FreeAll
  <2> QED BY <1>8, <2>1, <2>2 DEF nf10_eth_driver_exit
<1> QED BY <1>1, <1>2, <1>3, <1>4, <1>5, <1>6, <1>7, <1>8 DEF Next

(* Types of the variables of probe; TryLess keeps the buffer count and the *)
(* region size in step.                                                    *)
LEMMA ProbeTypesStep ==
  ASSUME ProbeInv, Next
  PROVE  ProbeTypes'
<1>0. ProbeTypes /\ ProbeMemory
  BY TypeParts DEF ProbeInv
<1> USE <1>0, BufsAssumption DEF ProbeTypes, PciResources, memVars, probeVars
<1>1. CASE LoadModule
  BY <1>1 DEF LoadModule
<1>2. CASE nf10_eth_driver_init \/ UnloadModule \/ Polling \/ HotPlug
             \/ (nf10_eth_driver_exit /\ ~ExitPci)
  BY <1>2, AsideSteps DEF Aside
<1>3. CASE ProbeBegin
  BY <1>3 DEF ProbeBegin
<1>4. CASE probe
  <2>1. CASE ProbeEnable \/ ProbeRegion \/ ProbeMap \/ ProbeSize
    BY <2>1 DEF ProbeEnable, ProbeRegion, ProbeMap, ProbeSize, ProbeStep,
                Return
  <2>2. CASE ProbeMask
    <3>1. UNCHANGED <<tx, rx, hw_state>>
      BY <2>2 DEF ProbeMask
    <3>2. CASE probe_pc' = "alloc_tx"
      <4>1. /\ dma_cpu_bufs' = DMA_CPU_BUFS /\ region' = DMA_CPU_BUFS
            /\ UNCHANGED <<bound, held>>
        BY <2>2, <3>2 DEF ProbeMask, Return
      <4> QED BY <4>1, <3>1, <3>2
    <3>3. CASE probe_pc' = "idle"
      BY <2>2, <3>1, <3>3 DEF ProbeMask, Return
    <3> QED BY <2>2, <3>2, <3>3 DEF ProbeMask, Return
  <2>3. CASE AllocTx
    BY <2>3, Halved DEF AllocTx, TryLess, ProbeMemory, Full
  <2>4. CASE AllocRx
    BY <2>4, Halved DEF AllocRx, TryLess, ProbeMemory, Full
  <2>5. CASE GiveUp \/ WorkersFail \/ WorkersStart \/ ProbeDone
    BY <2>5 DEF GiveUp, WorkersFail, WorkersStart, ProbeDone, FreeAll, Return
  <2> QED BY <1>4, <2>1, <2>2, <2>3, <2>4, <2>5 DEF probe
<1>5. CASE HotUnplug \/ ExitPci
  BY <1>5 DEF HotUnplug, ExitPci, Unbind, remove, FreeAll
<1> QED BY <1>1, <1>2, <1>3, <1>4, <1>5 DEF Next

-----------------------------------------------------------------------------
(* When the PCI driver is registered and when a card can be bound.         *)
LEMMA BindingStep ==
  ASSUME ProbeInv, Next
  PROVE  Binding' /\ LoopIndex'
<1>0. Binding /\ LoopIndex /\ InitTypes /\ ProbeTypes
  BY TypeParts DEF ProbeInv
<1> USE <1>0, CountAssumption
    DEF Binding, LoopIndex, WithDriver, Exiting, devVars, probeVars
<1>1. CASE LoadModule
  BY <1>1 DEF LoadModule
<1>2. CASE nf10_eth_driver_init
  <2> USE DEF InitTypes, Loading
  <2>1. CASE AllocNetdev \/ AllocNetdevFails \/ NapiAdd
    BY <2>1 DEF AllocNetdev, AllocNetdevFails, NapiAdd
  <2>2. CASE RegisterNetdev \/ RegisterNetdevFails
    BY <2>2 DEF RegisterNetdev, RegisterNetdevFails
  <2>3. CASE GenlFamily \/ GenlOps \/ GenlFails \/ ProcAndNapi
    BY <2>3 DEF GenlFamily, GenlOps, GenlFails, ProcAndNapi
  <2>4. CASE PciRegister \/ PciRegisterFails \/ InitDone
    BY <2>4 DEF PciRegister, PciRegisterFails, InitDone
  <2> QED BY <1>2, <2>1, <2>2, <2>3, <2>4 DEF nf10_eth_driver_init
<1>3. CASE ProbeBegin
  BY <1>3 DEF ProbeBegin
<1>4. CASE probe
  <2>0. UNCHANGED <<pc, i, allocated, registered, up>>
    BY <1>4, ProbeSteps
  <2>1. CASE ProbeEnable \/ ProbeRegion \/ ProbeMap \/ ProbeSize \/ ProbeMask
    BY <2>0, <2>1 DEF ProbeEnable, ProbeRegion, ProbeMap, ProbeSize,
       ProbeMask, ProbeStep, Return
  <2>2. CASE AllocTx \/ AllocRx \/ GiveUp
    BY <2>0, <2>2 DEF AllocTx, AllocRx, TryLess, GiveUp, Return
  <2>3. CASE WorkersFail \/ WorkersStart \/ ProbeDone
    BY <2>0, <2>3 DEF WorkersFail, WorkersStart, ProbeDone, Return
  <2> QED BY <1>4, <2>1, <2>2, <2>3 DEF probe
<1>5. CASE HotUnplug
  BY <1>5 DEF HotUnplug, Unbind
<1>6. CASE HotPlug \/ Polling
  BY <1>6, ProbeSteps, AsideSteps DEF Aside
<1>7. CASE UnloadModule
  BY <1>7 DEF UnloadModule
<1>8. CASE nf10_eth_driver_exit
  <2>1. CASE ExitNapi \/ ExitTimer \/ ExitGenl \/ ExitNetdevs \/ ExitFree
    BY <2>1 DEF ExitNapi, ExitTimer, ExitGenl, ExitNetdevs, ExitFree
  <2>2. CASE ExitPci
    BY <2>2 DEF ExitPci, Unbind
  <2> QED BY <1>8, <2>1, <2>2 DEF nf10_eth_driver_exit
<1> QED BY <1>1, <1>2, <1>3, <1>4, <1>5, <1>6, <1>7, <1>8 DEF Next

(* What probe holds at each of its steps. *)
LEMMA HoldsStep ==
  ASSUME ProbeInv, Next
  PROVE  ProbeHolds' /\ ProbeMemory'
<1>0. Binding /\ ProbeTypes /\ ProbeHolds /\ ProbeMemory /\ AtRest
  BY TypeParts DEF ProbeInv
<1> USE <1>0, BufsAssumption
    DEF ProbeHolds, ProbeMemory, Full, PciResources, memVars, probeVars
<1>1. CASE LoadModule
  BY <1>1 DEF LoadModule, Binding, WithDriver, Exiting
<1>2. CASE nf10_eth_driver_init \/ UnloadModule \/ Polling \/ HotPlug
             \/ (nf10_eth_driver_exit /\ ~ExitPci)
  BY <1>2, AsideSteps DEF Aside
<1>3. CASE ProbeBegin
  BY <1>3 DEF ProbeBegin, AtRest, Nothing
<1>4. CASE probe
  <2>1. CASE ProbeEnable \/ ProbeRegion \/ ProbeMap \/ ProbeSize
    BY <2>1 DEF ProbeEnable, ProbeRegion, ProbeMap, ProbeSize, ProbeStep,
                Return
  <2>2. CASE ProbeMask
    BY <2>2 DEF ProbeMask, Return
  <2>3. CASE AllocTx
    BY <2>3, Halved DEF AllocTx, TryLess, ProbeTypes
  <2>4. CASE AllocRx
    BY <2>4, Halved DEF AllocRx, TryLess, ProbeTypes
  <2>5. CASE GiveUp \/ WorkersFail \/ ProbeDone
    BY <2>5 DEF GiveUp, WorkersFail, ProbeDone, Return
  <2>6. CASE WorkersStart
    BY <2>6 DEF WorkersStart
  <2> QED BY <1>4, <2>1, <2>2, <2>3, <2>4, <2>5, <2>6 DEF probe
<1>5. CASE HotUnplug \/ ExitPci
  BY <1>5 DEF HotUnplug, ExitPci, Unbind
<1> QED BY <1>1, <1>2, <1>3, <1>4, <1>5 DEF Next

(* A step never takes a lapse back. *)
LEMMA LapsedStays ==
  ASSUME Next, lapsed
  PROVE  lapsed'
BY DEF Next, LoadModule, nf10_eth_driver_init, ProbeBegin,
   probe, HotPlug, HotUnplug, Polling, UnloadModule, nf10_eth_driver_exit,
   AllocNetdev, AllocNetdevFails, NapiAdd, RegisterNetdev,
   RegisterNetdevFails, GenlFamily, GenlOps, GenlFails, ProcAndNapi,
   PciRegister, PciRegisterFails, InitDone, PollingStep, TimerFires,
   CallbackRearms, CallbackSchedules, PollCompletes, PollRearms, ExitNapi,
   ExitTimer, ExitGenl, ExitNetdevs, ExitFree, ExitPci, ProbeStep,
   ProbeEnable, ProbeRegion, ProbeMap, ProbeSize, ProbeMask, AllocTx,
   AllocRx, GiveUp, WorkersFail, WorkersStart, ProbeDone

(* What is left when probe is not running. *)
LEMMA AtRestStep ==
  ASSUME ProbeInv, Next
  PROVE  AtRest'
<1>0. Binding /\ ProbeTypes /\ ProbeHolds /\ ProbeMemory /\ AtRest
  BY TypeParts DEF ProbeInv
<1>a. ~lapsed' => ~lapsed
  BY LapsedStays
<1> USE <1>0, <1>a, BufsAssumption
    DEF AtRest, Nothing, Everything, Full, PciResources, memVars, probeVars
<1>1. CASE LoadModule
  BY <1>1 DEF LoadModule, Binding, WithDriver, Exiting
<1>2. CASE nf10_eth_driver_init \/ UnloadModule \/ Polling \/ HotPlug
             \/ (nf10_eth_driver_exit /\ ~ExitPci)
  BY <1>2, AsideSteps DEF Aside
<1>3. CASE ProbeBegin
  BY <1>3 DEF ProbeBegin
<1>4. CASE probe
  <2>1. CASE ProbeEnable \/ ProbeRegion \/ ProbeMap \/ ProbeSize
    BY <2>1 DEF ProbeEnable, ProbeRegion, ProbeMap, ProbeSize, ProbeStep,
                Return, ProbeHolds, ProbeMemory
  <2>2. CASE ProbeMask
    BY <2>2 DEF ProbeMask, Return, ProbeHolds, ProbeMemory
  <2>3. CASE AllocTx \/ AllocRx
    BY <2>3 DEF AllocTx, AllocRx, TryLess
  <2>4. CASE GiveUp
    <3>1. held' = {} /\ tx' = 0 /\ rx' = 0 /\ bound' = "yes"
      BY <2>4 DEF GiveUp, Return, ProbeMemory, ProbeTypes
    <3>2. lapsed'
      BY <2>4 DEF GiveUp
    <3> QED BY <3>1, <3>2
  <2>5. CASE WorkersFail \/ WorkersStart
    BY <2>5 DEF WorkersFail, WorkersStart, FreeAll, Return, ProbeTypes
  <2>6. CASE ProbeDone
    BY <2>6 DEF ProbeDone, Return, ProbeHolds, ProbeMemory
  <2> QED BY <1>4, <2>1, <2>2, <2>3, <2>4, <2>5, <2>6 DEF probe
<1>5. CASE HotUnplug \/ ExitPci
  BY <1>5 DEF HotUnplug, ExitPci, Unbind, remove, FreeAll
<1> QED BY <1>1, <1>2, <1>3, <1>4, <1>5 DEF Next

(* The invariant of probe holds on every path, the lapses included.        *)
LEMMA ProbeInvStep ==
  ASSUME ProbeInv, [Next]_vars
  PROVE  ProbeInv'
<1>1. CASE Next
  <2>1. TypeOK'
    <3>1. Flags /\ InitTypes /\ LoopIndex
      BY TypeParts DEF ProbeInv
    <3>2. Flags' /\ InitTypes' /\ ProbeTypes'
      BY <1>1, <3>1, FlagsStep, InitTypesStep, ProbeTypesStep
    <3> QED BY <3>2, TypeParts, PTL
  <2> QED BY <1>1, <2>1, BindingStep, HoldsStep, AtRestStep DEF ProbeInv
<1>2. CASE UNCHANGED vars
  BY <1>2 DEF vars, devVars, probeVars, memVars, ProbeInv, TypeOK, Binding,
     LoopIndex, ProbeHolds, ProbeMemory, AtRest, Full, Nothing, Everything
<1> QED BY <1>1, <1>2

-----------------------------------------------------------------------------
(* What init has set up at each step, unless something has lapsed.         *)
LEMMA StagesStep ==
  ASSUME IInv, Next
  PROVE  Stages'
<1>0. ProbeInv /\ Stages /\ InitTypes
  BY TypeParts DEF IInv, ProbeInv
<1>a. ~lapsed' => ~lapsed
  BY LapsedStays
<1> USE <1>0, <1>a, CountAssumption
    DEF Stages, Devices, Netdevs, devVars, Exiting
<1>1. CASE LoadModule
  BY <1>1 DEF LoadModule
<1>2. CASE nf10_eth_driver_init
  <2>1. CASE AllocNetdev
    BY <2>1 DEF AllocNetdev, InitTypes
  <2>2. CASE AllocNetdevFails
    BY <2>2 DEF AllocNetdevFails, InitTypes
  <2>3. CASE NapiAdd
    BY <2>3 DEF NapiAdd
  <2>4. CASE RegisterNetdev
    BY <2>4 DEF RegisterNetdev, InitTypes
  <2>5. CASE RegisterNetdevFails \/ PciRegisterFails
    BY <2>5 DEF RegisterNetdevFails, PciRegisterFails
  <2>6. CASE GenlFamily \/ GenlOps
    BY <2>6 DEF GenlFamily, GenlOps
  <2>7. CASE GenlFails
    BY <2>7 DEF GenlFails
  <2>8. CASE ProcAndNapi
    BY <2>8 DEF ProcAndNapi
  <2>9. CASE PciRegister \/ InitDone
    BY <2>9 DEF PciRegister, InitDone
  <2> QED BY <1>2, <2>1, <2>2, <2>3, <2>4, <2>5, <2>6, <2>7, <2>8, <2>9
      DEF nf10_eth_driver_init
<1>3. CASE ProbeBegin \/ probe \/ HotUnplug \/ HotPlug \/ Polling
  BY <1>3, ProbeSteps
<1>4. CASE UnloadModule
  BY <1>4 DEF UnloadModule
<1>5. CASE nf10_eth_driver_exit
  <2>1. CASE ExitNapi \/ ExitTimer
    BY <2>1 DEF ExitNapi, ExitTimer
  <2>2. CASE ExitGenl \/ ExitNetdevs
    BY <2>2 DEF ExitGenl, ExitNetdevs
  <2>3. CASE ExitFree
    BY <2>3 DEF ExitFree
  <2>4. CASE ExitPci
    BY <2>4 DEF ExitPci
  <2> QED BY <1>5, <2>1, <2>2, <2>3, <2>4 DEF nf10_eth_driver_exit
<1> QED BY <1>1, <1>2, <1>3, <1>4, <1>5 DEF Next

(* The polling ends with the card or with the timer. *)
LEMMA PollingStepHeld ==
  ASSUME IInv, Next
  PROVE  PollingHeld'
<1>0. Binding /\ Stages /\ PollingHeld /\ InitTypes
  BY TypeParts DEF IInv, ProbeInv
<1>a. ~lapsed' => ~lapsed
  BY LapsedStays
<1> USE <1>0, <1>a DEF PollingHeld
<1>1. CASE LoadModule
  BY <1>1 DEF LoadModule
<1>2. CASE nf10_eth_driver_init
  <2>1. CASE AllocNetdev \/ AllocNetdevFails \/ NapiAdd \/ RegisterNetdev
             \/ RegisterNetdevFails
    BY <2>1, <1>2, AsideSteps
    DEF Aside, AllocNetdev, AllocNetdevFails, NapiAdd, RegisterNetdev,
        RegisterNetdevFails
  <2>2. CASE GenlFamily \/ GenlOps \/ GenlFails \/ ProcAndNapi
    BY <2>2, <1>2, AsideSteps
    DEF Aside, GenlFamily, GenlOps, GenlFails, ProcAndNapi
  <2>3. CASE PciRegister \/ PciRegisterFails \/ InitDone
    BY <2>3, <1>2, AsideSteps
    DEF Aside, PciRegister, PciRegisterFails, InitDone
  <2> QED BY <1>2, <2>1, <2>2, <2>3 DEF nf10_eth_driver_init
<1>3. CASE ProbeBegin
  BY <1>3 DEF ProbeBegin
<1>4. CASE probe
  <2>1. CASE ProbeEnable \/ ProbeRegion \/ ProbeMap \/ ProbeSize \/ ProbeMask
    BY <2>1 DEF ProbeEnable, ProbeRegion, ProbeMap, ProbeSize, ProbeMask,
                ProbeStep
  <2>2. CASE AllocTx \/ AllocRx \/ GiveUp \/ WorkersFail \/ WorkersStart
    BY <2>2 DEF AllocTx, AllocRx, GiveUp, WorkersFail, WorkersStart
  <2>3. CASE ProbeDone
    BY <2>3 DEF ProbeDone, Return, Binding, WithDriver, Exiting, TimerDeleted
  <2> QED BY <1>4, <2>1, <2>2, <2>3 DEF probe
<1>5. CASE HotUnplug
  BY <1>5 DEF HotUnplug
<1>6. CASE HotPlug
  BY <1>6 DEF HotPlug, probeVars
<1>7. CASE Polling
  BY <1>7 DEF Polling, PollingStep, TimerFires, CallbackRearms,
     CallbackSchedules, PollCompletes, PollRearms, probeVars, Stages
<1>8. CASE UnloadModule
  BY <1>8 DEF UnloadModule, probeVars
<1>9. CASE nf10_eth_driver_exit
  <2>1. CASE ExitNapi
    BY <2>1 DEF ExitNapi, probeVars
  <2>3. CASE ExitTimer
    BY <2>3 DEF ExitTimer, InitTypes
  <2>2. CASE ExitGenl \/ ExitNetdevs \/ ExitFree \/ ExitPci
    BY <2>2 DEF ExitGenl, ExitNetdevs, ExitFree, ExitPci, probeVars
  <2> QED BY <1>9, <2>1, <2>2, <2>3 DEF nf10_eth_driver_exit
<1> QED BY <1>1, <1>2, <1>3, <1>4, <1>5, <1>6, <1>7, <1>8, <1>9 DEF Next

(* HW_INIT outlives neither the rings nor the module. *)
LEMMA InitBitStep ==
  ASSUME IInv, Next
  PROVE  InitBit'
<1>0. Binding /\ InitBit
  BY DEF IInv, ProbeInv
<1>a. ~lapsed' => ~lapsed
  BY LapsedStays
<1> USE <1>0, <1>a DEF InitBit
<1>1. CASE LoadModule
  BY <1>1 DEF LoadModule
<1>2. CASE nf10_eth_driver_init
  <2>1. pc # "unloaded"
    BY <1>2 DEF nf10_eth_driver_init, AllocNetdev, AllocNetdevFails, NapiAdd,
       RegisterNetdev, RegisterNetdevFails, GenlFamily, GenlOps, GenlFails,
       ProcAndNapi, PciRegister, PciRegisterFails, InitDone
  <2> QED BY <1>2, <2>1, AsideSteps DEF Aside
<1>3. CASE ProbeBegin
  BY <1>3 DEF ProbeBegin, Binding, WithDriver, Exiting
<1>4. CASE probe
  <2>0. pc # "unloaded" /\ UNCHANGED pc
    <3>1. probe_pc # "idle"
      BY <1>4 DEF probe, ProbeEnable, ProbeRegion, ProbeMap, ProbeSize,
         ProbeMask, ProbeStep, AllocTx, AllocRx, GiveUp, WorkersFail,
         WorkersStart, ProbeDone
    <3> QED BY <1>4, <3>1, ProbeSteps DEF Binding, WithDriver, Exiting
  <2>1. CASE ProbeEnable \/ ProbeRegion \/ ProbeMap \/ ProbeSize \/ ProbeMask
    BY <2>0, <2>1 DEF ProbeEnable, ProbeRegion, ProbeMap, ProbeSize,
       ProbeMask, ProbeStep
  <2>2. CASE AllocTx \/ AllocRx \/ GiveUp \/ WorkersFail
    BY <2>0, <2>2 DEF AllocTx, AllocRx, GiveUp, WorkersFail
  <2>3. CASE WorkersStart \/ ProbeDone
    BY <2>0, <2>3 DEF WorkersStart, ProbeDone, Return
  <2> QED BY <1>4, <2>1, <2>2, <2>3 DEF probe
<1>5. CASE HotUnplug
  BY <1>5 DEF HotUnplug, Unbind, Binding
<1>6. CASE HotPlug \/ Polling
  BY <1>6, AsideSteps, ProbeSteps DEF Aside
<1>7. CASE UnloadModule
  BY <1>7, AsideSteps DEF Aside, UnloadModule
<1>8. CASE nf10_eth_driver_exit
  <2>1. CASE ExitNapi \/ ExitTimer \/ ExitGenl \/ ExitNetdevs \/ ExitFree
    BY <2>1 DEF ExitNapi, ExitTimer, ExitGenl, ExitNetdevs, ExitFree,
                probeVars
  <2>2. CASE ExitPci
    BY <2>2 DEF ExitPci
  <2> QED BY <1>8, <2>1, <2>2 DEF nf10_eth_driver_exit
<1> QED BY <1>1, <1>2, <1>3, <1>4, <1>5, <1>6, <1>7, <1>8 DEF Next

(* Nothing is released that is not held. *)
LEMMA ReleasesStep ==
  ASSUME IInv, Next
  PROVE  ReleasesMatched'
<1>0. /\ Binding /\ ProbeHolds /\ ProbeMemory /\ AtRest /\ ProbeTypes
      /\ Stages /\ PollingHeld /\ ReleasesMatched
  BY TypeParts DEF IInv, ProbeInv
<1>a. ~lapsed' => ~lapsed
  BY LapsedStays
<1> USE <1>0, <1>a DEF ReleasesMatched
<1>1. CASE LoadModule \/ ProbeBegin \/ HotPlug \/ Polling \/ UnloadModule
  BY <1>1 DEF LoadModule, ProbeBegin, HotPlug, UnloadModule, Polling,
     PollingStep, TimerFires, CallbackRearms, CallbackSchedules,
     PollCompletes, PollRearms
<1>2. CASE nf10_eth_driver_init
  BY <1>2 DEF nf10_eth_driver_init, AllocNetdev, AllocNetdevFails, NapiAdd,
     RegisterNetdev, RegisterNetdevFails, GenlFamily, GenlOps, GenlFails,
     ProcAndNapi, PciRegister, PciRegisterFails, InitDone
<1>4. CASE probe
  <2>1. CASE ProbeEnable \/ ProbeRegion \/ ProbeMap \/ ProbeSize \/ ProbeMask
    BY <2>1 DEF ProbeEnable, ProbeRegion, ProbeMap, ProbeSize, ProbeMask,
                ProbeStep, ProbeHolds, PciResources
  <2>2. CASE AllocTx \/ AllocRx \/ GiveUp \/ WorkersStart
    BY <2>2 DEF AllocTx, AllocRx, GiveUp, WorkersStart
  <2>3. CASE WorkersFail
    BY <2>3, BufsAssumption
    DEF WorkersFail, FreeAll, ProbeHolds, ProbeMemory, Full, ProbeTypes
  <2>4. CASE ProbeDone
    BY <2>4 DEF ProbeDone, PollingHeld
  <2> QED BY <1>4, <2>1, <2>2, <2>3, <2>4 DEF probe
<1>5. CASE HotUnplug
  BY <1>5 DEF HotUnplug, Unbind
<1>6. CASE nf10_eth_driver_exit /\ ~ExitPci
  BY <1>6 DEF nf10_eth_driver_exit, ExitNapi, ExitTimer, ExitGenl,
     ExitNetdevs, ExitFree
<1>7. CASE ExitPci
  BY <1>7, BufsAssumption DEF ExitPci, Unbind, remove, FreeAll, AtRest,
     Everything, Full, ProbeTypes
<1> QED BY <1>1, <1>2, <1>4, <1>5, <1>6, <1>7 DEF Next

-----------------------------------------------------------------------------
(* The inductive invariant holds in every reachable state, whichever calls *)
(* fail and however the card comes and goes.                               *)
THEOREM IInvHolds == Spec => []IInv
<1>1. IInv /\ [Next]_vars => IInv'
  <2> SUFFICES ASSUME IInv, [Next]_vars PROVE IInv'
    OBVIOUS
  <2>1. ProbeInv'
    BY ProbeInvStep DEF IInv
  <2>2. CASE Next
    BY <2>1, <2>2, StagesStep, PollingStepHeld, InitBitStep, ReleasesStep
    DEF IInv
  <2>3. CASE UNCHANGED vars
    BY <2>1, <2>3 DEF vars, devVars, probeVars, memVars, IInv, Stages,
       Devices, PollingHeld, InitBit, ReleasesMatched
  <2> QED BY <2>2, <2>3
<1> QED BY <1>1, InitIInv, PTL DEF Spec

(* ResourcesSound: at every step of init, probe, remove and exit, on every *)
(* error path and after every lapse, types hold, a card that is not bound  *)
(* holds nothing and the two DMA regions come and go together; and a bound *)
(* card has everything unless a lapse came before.                         *)
THEOREM ResourcesAreSound == Spec => []ResourcesSound
<1>1. IInv => ResourcesSound
  <2> SUFFICES ASSUME IInv PROVE ResourcesSound
    OBVIOUS
  <2> USE DEF IInv, ProbeInv
  <2>1. BoundMeansReady /\ UnboundClean
    BY DEF BoundMeansReady, UnboundClean, AtRest, Everything, Nothing, Full
  <2>2. RegionsPaired
    BY TypeParts DEF RegionsPaired, ProbeMemory, AtRest, Everything, Nothing,
       Full, ProbeTypes
  <2> QED BY <2>1, <2>2 DEF ResourcesSound
<1> QED BY <1>1, IInvHolds, PTL

(* UnloadedClean: after a failed init and after exit nothing that init or  *)
(* probe acquired is left and no timer is set, but for the named lapses.   *)
THEOREM UnloadingIsClean == Spec => []UnloadedClean
<1>1. IInv => UnloadedClean
  BY DEF IInv, ProbeInv, UnloadedClean, Stages, Devices, PollingHeld, Binding,
     AtRest, Nothing, WithDriver, Exiting
<1> QED BY <1>1, IInvHolds, PTL

(* ReleasesMatched: but for the named lapses no error path, remove or exit *)
(* releases what is not held, or a region with another size.               *)
THEOREM ReleasesAreMatched == Spec => []ReleasesMatched
<1>1. IInv => ReleasesMatched
  BY DEF IInv
<1> QED BY <1>1, IInvHolds, PTL

(* UsersHaveMemory: but for the named lapses, the transmit ring exists     *)
(* whenever nf10_ndo_start_xmit finds the hardware up, and the receive     *)
(* ring whenever timer or poll is alive.                                   *)
THEOREM UsersFindMemory == Spec => []UsersHaveMemory
<1>1. IInv => UsersHaveMemory
  <2> SUFFICES ASSUME IInv, ~lapsed PROVE UsersHaveMemory
    BY DEF UsersHaveMemory
  <2> USE BufsAssumption, TypeParts DEF IInv, ProbeInv
  <2>1. ASSUME registered # {}, HwUp
        PROVE  tx > 0 /\ "map" \in held
    <3>1. pc # "unloaded"
      BY <2>1 DEF Stages, Devices
    <3>2. \/ probe_pc = "add_timer"
          \/ probe_pc = "idle" /\ bound = "yes"
      BY <2>1, <3>1 DEF HwUp, InitBit
    <3> QED BY <3>2 DEF ProbeHolds, ProbeMemory, AtRest, Everything, Full,
            PciResources, ProbeTypes
  <2>2. ASSUME timer # "off"
        PROVE  rx > 0 /\ "map" \in held
    BY <2>2 DEF PollingHeld, AtRest, Everything, Full, PciResources,
       ProbeTypes
  <2> QED BY <2>1, <2>2 DEF UsersHaveMemory
<1> QED BY <1>1, IInvHolds, PTL
=============================================================================
