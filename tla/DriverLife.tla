----------------------------- MODULE DriverLife -----------------------------
(***************************************************************************)
(* The life of the NetFPGA-10G Ethernet driver (nf10_eth_driver_main.c):   *)
(* nf10_eth_driver_init and nf10_eth_driver_exit when the module is loaded *)
(* and unloaded, probe and remove when the PCI core binds and unbinds the  *)
(* card, with every error path, next to the receive timer and poll, which  *)
(* go on by themselves.                                                    *)
(*                                                                         *)
(* What a call acquires is an element of a set, or the size of a DMA       *)
(* region.  A release of something that is not held, or of a region of     *)
(* another size, is noted in bad.                                          *)
(***************************************************************************)
EXTENDS Integers, FiniteSets

CONSTANTS
  NUM_NETDEVS,       \* number of network devices
  DMA_CPU_BUFS,      \* the number of buffers asked for first
  MIN_DMA_CPU_BUFS   \* the smallest number that is tried

ASSUME CountAssumption == NUM_NETDEVS \in Nat \ {0}
ASSUME BufsAssumption == /\ MIN_DMA_CPU_BUFS \in Nat \ {0}
                         /\ DMA_CPU_BUFS \in Nat
                         /\ MIN_DMA_CPU_BUFS <= DMA_CPU_BUFS

VARIABLES
  pc,            \* where init or exit is
  i,             \* the loop variable of init
  allocated,     \* network devices allocated
  registered,    \* network devices registered, so able to transmit
  up,            \* "napi", "genl", "proc", "napi_on", "pci_driver" in place
  card,          \* is there a card
  bound,         \* what the PCI core thinks: "no", "yes", "failed"
  probe_pc,      \* where probe is
  held,          \* "device", "BAR0", "map" acquired by probe
  tx, rx,        \* number of buffers in the DMA regions, 0 if there is none
  dma_cpu_bufs,  \* the loop variable of probe
  region,        \* number of buffers behind dma_region_size
  hw_state,      \* the bits set in hw_state
  timer,         \* who drives the polling: "off", "pending" (the timer),
                 \* "callback", "poll", or "rearm", the poll after
                 \* napi_complete() and before add_timer()
  bad,           \* what was released without being held
  lapsed         \* a path was taken on which the code does not clean up:
                 \* register_netdev() or pci_register_driver() failed, no DMA
                 \* memory at all, the card pulled while bound, the module
                 \* unloaded under a running callback or poll, or a card
                 \* found after the unloading has deleted the timer

devVars   == <<allocated, registered>>
memVars   == <<tx, rx, dma_cpu_bufs, region>>
probeVars == <<bound, probe_pc, held, memVars, hw_state>>
vars == <<pc, i, devVars, up, card, probeVars, timer, bad, lapsed>>

Netdevs == 0 .. NUM_NETDEVS - 1
PciResources == {"device", "BAR0", "map"}
Loading == {"alloc_netdevs", "register_netdevs", "genl_family", "genl_ops",
            "proc", "pci_register", "pci_wait"}
Exiting == {"exit_wait", "exit_timer", "exit_genl", "exit_netdevs",
            "exit_free", "exit_pci"}
TimerDeleted == {"exit_genl", "exit_netdevs", "exit_free", "exit_pci"}

(* The check at the head of nf10_ndo_start_xmit. *)
HwUp == hw_state = {"HW_FOUND", "HW_INIT"}

Init ==
  /\ pc = "unloaded"
  /\ i = 0
  /\ allocated = {} /\ registered = {} /\ up = {}
  /\ card \in BOOLEAN
  /\ bound = "no" /\ probe_pc = "idle"
  /\ held = {} /\ tx = 0 /\ rx = 0
  /\ dma_cpu_bufs = 0 /\ region = 0
  /\ hw_state = {}
  /\ timer = "off"
  /\ bad = {}
  /\ lapsed = FALSE

(***************************************************************************)
(* nf10_eth_driver_init.                                                   *)
(***************************************************************************)
(* insmod: the module's variables have their initial values. *)
LoadModule ==
  /\ pc = "unloaded"
  /\ pc' = "alloc_netdevs"
  /\ i' = 0
  /\ hw_state' = {}
  /\ dma_cpu_bufs' = 0
  /\ region' = 0
  /\ UNCHANGED <<devVars, up, card, bound, probe_pc, held, tx, rx, timer,
                 bad, lapsed>>

AllocNetdev ==
  /\ pc = "alloc_netdevs"
  /\ i < NUM_NETDEVS
  /\ allocated' = allocated \cup {i}
  /\ i' = i + 1
  /\ UNCHANGED <<pc, registered, up, card, probeVars, timer, bad, lapsed>>

(* An early failure also unregisters a PCI driver never registered. *)
AllocNetdevFails ==
  /\ pc = "alloc_netdevs"
  /\ i < NUM_NETDEVS
  /\ allocated' = allocated \ (0 .. i - 1)
  /\ bad' = bad \cup ({"pci_driver"} \ up)
  /\ pc' = "unloaded"
  /\ UNCHANGED <<i, registered, up, card, probeVars, timer, lapsed>>

(* MAC addresses are set, the NAPI structure is added. *)
NapiAdd ==
  /\ pc = "alloc_netdevs"
  /\ i = NUM_NETDEVS
  /\ up' = up \cup {"napi"}
  /\ i' = 0
  /\ pc' = "register_netdevs"
  /\ UNCHANGED <<devVars, card, probeVars, timer, bad, lapsed>>

RegisterNetdev ==
  /\ pc = "register_netdevs"
  /\ registered' = registered \cup {i}
  /\ i' = i + 1
  /\ pc' = IF i + 1 = NUM_NETDEVS THEN "genl_family" ELSE pc
  /\ UNCHANGED <<allocated, up, card, probeVars, timer, bad, lapsed>>

(* The clean-up loop has an empty body: for(...); free_netdev(...[i]) runs *)
(* once, with i = NUM_NETDEVS.                                             *)
RegisterNetdevFails ==
  /\ pc = "register_netdevs"
  /\ registered' = registered \ (0 .. i - 1)
  /\ allocated' = allocated \ {NUM_NETDEVS}
  /\ bad' = bad \cup {"netdev"} \cup ({"pci_driver"} \ up)
  /\ up' = up \ {"napi"}
  /\ pc' = "unloaded"
  /\ lapsed' = TRUE
  /\ UNCHANGED <<i, card, probeVars, timer>>

GenlFamily ==
  /\ pc = "genl_family"
  /\ up' = up \cup {"genl"}
  /\ pc' = "genl_ops"
  /\ UNCHANGED <<i, devVars, card, probeVars, timer, bad, lapsed>>

GenlOps ==
  /\ pc = "genl_ops"
  /\ pc' = "proc"
  /\ UNCHANGED <<i, devVars, up, card, probeVars, timer, bad, lapsed>>

(* The family or one of its operations cannot be registered. *)
GenlFails ==
  /\ pc \in {"genl_family", "genl_ops"}
  /\ registered' = registered \ Netdevs
  /\ allocated' = allocated \ Netdevs
  /\ bad' = bad \cup ({"pci_driver"} \ up)
  /\ up' = up \ {"genl", "napi"}
  /\ pc' = "unloaded"
  /\ UNCHANGED <<i, card, probeVars, timer, lapsed>>

(* create_proc_read_entry(), napi_enable(). *)
ProcAndNapi ==
  /\ pc = "proc"
  /\ up' = up \cup {"proc", "napi_on"}
  /\ pc' = "pci_register"
  /\ UNCHANGED <<i, devVars, card, probeVars, timer, bad, lapsed>>

PciRegister ==
  /\ pc = "pci_register"
  /\ up' = up \cup {"pci_driver"}
  /\ pc' = "pci_wait"
  /\ UNCHANGED <<i, devVars, card, probeVars, timer, bad, lapsed>>

(* The function just returns the error. *)
PciRegisterFails ==
  /\ pc = "pci_register"
  /\ pc' = "unloaded"
  /\ lapsed' = TRUE
  /\ UNCHANGED <<i, devVars, up, card, probeVars, timer, bad>>

(* pci_register_driver() comes back when a card, if there is one, has been *)
(* probed; init succeeds whatever became of that.                          *)
InitDone ==
  /\ pc = "pci_wait"
  /\ probe_pc = "idle"
  /\ card => bound # "no"
  /\ pc' = "loaded"
  /\ UNCHANGED <<i, devVars, up, card, probeVars, timer, bad, lapsed>>

nf10_eth_driver_init ==
  \/ AllocNetdev \/ AllocNetdevFails \/ NapiAdd
  \/ RegisterNetdev \/ RegisterNetdevFails
  \/ GenlFamily \/ GenlOps \/ GenlFails
  \/ ProcAndNapi \/ PciRegister \/ PciRegisterFails \/ InitDone

(***************************************************************************)
(* probe.  Step l acquires res and goes on to m, or fails, releases rel    *)
(* and returns an error.                                                   *)
(***************************************************************************)
Return(result) == probe_pc' = "idle" /\ bound' = result

ProbeStep(l, m, res, rel) ==
  /\ probe_pc = l
  /\ \/ /\ held' = held \cup res
        /\ probe_pc' = m
        /\ UNCHANGED <<bound, bad>>
     \/ /\ held' = held \ rel
        /\ bad' = bad \cup (rel \ held)
        /\ Return("failed")
  /\ UNCHANGED <<pc, i, devVars, up, card, memVars, hw_state, timer, lapsed>>

ProbeBegin ==
  /\ "pci_driver" \in up
  /\ card /\ bound = "no" /\ probe_pc = "idle"
  /\ hw_state' = hw_state \cup {"HW_FOUND"}
  /\ probe_pc' = "enable"
  /\ UNCHANGED <<pc, i, devVars, up, card, bound, held, memVars, timer, bad,
                 lapsed>>

ProbeEnable == ProbeStep("enable", "region",
                         {"device"}, {})
ProbeRegion == ProbeStep("region", "map",
                         {"BAR0"}, {"device"})

(* Defect: the error path unmaps what could not be mapped. *)
ProbeMapUnmaps == ProbeStep("map", "size",
                            {"map"}, {"map", "BAR0", "device"})

ProbeMap    == ProbeStep("map", "size",
                         {"map"}, {"BAR0", "device"})

ProbeSize   == ProbeStep("size", "mask",
                         {}, {"map", "BAR0", "device"})

(* dma_set_mask() and dma_set_coherent_mask(); then the loop starts. *)
ProbeMask ==
  /\ probe_pc = "mask"
  /\ \/ /\ dma_cpu_bufs' = DMA_CPU_BUFS
        /\ region' = DMA_CPU_BUFS
        /\ probe_pc' = "alloc_tx"
        /\ UNCHANGED <<bound, held, bad>>
     \/ /\ held' = held \ PciResources
        /\ bad' = bad \cup (PciResources \ held)
        /\ Return("failed")
        /\ UNCHANGED <<dma_cpu_bufs, region>>
  /\ UNCHANGED <<pc, i, devVars, up, card, tx, rx, hw_state, timer, lapsed>>

(* The loop goes on with half as many buffers or has tried everything. *)
TryLess ==
  /\ dma_cpu_bufs' = dma_cpu_bufs \div 2
  /\ IF dma_cpu_bufs' >= MIN_DMA_CPU_BUFS
     THEN region' = dma_cpu_bufs' /\ probe_pc' = "alloc_tx"
     ELSE region' = region /\ probe_pc' = "give_up"

AllocTx ==
  /\ probe_pc = "alloc_tx"
  /\ \/ /\ tx' = region
        /\ probe_pc' = "alloc_rx"
        /\ UNCHANGED <<dma_cpu_bufs, region>>
     \/ /\ TryLess
        /\ UNCHANGED tx
  /\ UNCHANGED <<pc, i, devVars, up, card, bound, held, rx, hw_state, timer,
                 bad, lapsed>>

(* Defect: the TX region is not given back. *)
AllocRxLeaky ==
  /\ probe_pc = "alloc_rx"
  /\ \/ /\ rx' = region
        /\ probe_pc' = "workers"
        /\ UNCHANGED <<tx, dma_cpu_bufs, region>>
     \/ /\ TryLess
        /\ UNCHANGED <<tx, rx>>
  /\ UNCHANGED <<pc, i, devVars, up, card, bound, held, hw_state, timer,
                 bad, lapsed>>

AllocRx ==
  /\ probe_pc = "alloc_rx"
  /\ \/ /\ rx' = region
        /\ probe_pc' = "workers"
        /\ UNCHANGED <<tx, dma_cpu_bufs, region>>
     \/ /\ tx' = 0
        /\ TryLess
        /\ UNCHANGED rx
  /\ UNCHANGED <<pc, i, devVars, up, card, bound, held, hw_state, timer,
                 bad, lapsed>>

(* No allocation succeeded.  err is still 0 from dma_set_coherent_mask(). *)
GiveUp ==
  /\ probe_pc = "give_up"
  /\ held' = held \ PciResources
  /\ bad' = bad \cup (PciResources \ held)
  /\ Return("yes")
  /\ lapsed' = TRUE
  /\ UNCHANGED <<pc, i, devVars, up, card, memVars, hw_state, timer>>

(* Free both regions (with dma_region_size) and undo the rest: the error   *)
(* paths of the worker steps, and remove.                                  *)
FreeAll ==
  /\ held' = held \ PciResources
  /\ tx' = 0 /\ rx' = 0
  /\ bad' = bad \cup (PciResources \ held)
                \cup (IF tx = 0 \/ tx # region THEN {"tx"} ELSE {})
                \cup (IF rx = 0 \/ rx # region THEN {"rx"} ELSE {})
  /\ UNCHANGED <<dma_cpu_bufs, region>>

(* Defect: HW_INIT is set before the workers are known to run. *)
WorkersFailInitSet ==
  /\ probe_pc = "workers"
  /\ FreeAll
  /\ Return("failed")
  /\ hw_state' = hw_state \cup {"HW_INIT"}
  /\ UNCHANGED <<pc, i, devVars, up, card, timer, lapsed>>

(* The workers are reset and initialised, the rings laid out in the DMA    *)
(* regions, the workers configured and started; initialising or starting a *)
(* worker may fail.                                                        *)
WorkersFail ==
  /\ probe_pc = "workers"
  /\ FreeAll
  /\ Return("failed")
  /\ UNCHANGED <<pc, i, devVars, up, card, hw_state, timer, lapsed>>

WorkersStart ==
  /\ probe_pc = "workers"
  /\ hw_state' = hw_state \cup {"HW_INIT"}
  /\ probe_pc' = "add_timer"
  /\ UNCHANGED <<pc, i, devVars, up, card, bound, held, memVars, timer, bad,
                 lapsed>>

ProbeDone ==
  /\ probe_pc = "add_timer"
  /\ timer' = IF timer = "off" THEN "pending" ELSE timer
  /\ bad' = IF timer = "off" THEN bad ELSE bad \cup {"add_timer"}
  /\ Return("yes")
  /\ lapsed' = (lapsed \/ pc \in TimerDeleted)
  /\ UNCHANGED <<pc, i, devVars, up, card, held, memVars, hw_state>>

probe ==
  \/ ProbeEnable \/ ProbeRegion \/ ProbeMap \/ ProbeSize \/ ProbeMask
  \/ AllocTx \/ AllocRx \/ GiveUp
  \/ WorkersFail \/ WorkersStart \/ ProbeDone

(***************************************************************************)
(* remove, called by the PCI core for a device it believes to be bound     *)
(* when the driver is unregistered or the card taken away (external).      *)
(***************************************************************************)
remove == FreeAll

Unbind ==
  /\ probe_pc = "idle"
  /\ bound' = "no"
  /\ IF bound = "yes" THEN remove ELSE UNCHANGED <<held, memVars, bad>>

HotUnplug ==
  /\ card
  /\ card' = FALSE
  /\ Unbind
  /\ lapsed' = (lapsed \/ bound = "yes")
  /\ UNCHANGED <<pc, i, devVars, up, probe_pc, hw_state, timer>>

HotPlug ==
  /\ ~card
  /\ card' = TRUE
  /\ UNCHANGED <<pc, i, devVars, up, probeVars, timer, bad, lapsed>>

(***************************************************************************)
(* The polling, as far as it can be told apart here (RxDma has the rest).  *)
(***************************************************************************)
PollingStep(from, to) ==
  /\ timer = from
  /\ timer' = to
  /\ UNCHANGED <<pc, i, devVars, up, card, probeVars, bad, lapsed>>

TimerFires     == PollingStep("pending", "callback")
CallbackRearms == PollingStep("callback", "pending")
(* napi_schedule() does nothing once napi_disable() has been called. *)
CallbackSchedules ==
  PollingStep("callback", IF "napi_on" \in up THEN "poll" ELSE "off")
(* Defect: napi_complete() is not called. *)
PollCompletesNever == PollingStep("poll", "poll")

(* That the loop of the poll comes to its end is assumed here: packets     *)
(* dropped for a bad opcode do not count against its budget.               *)
PollCompletes  == PollingStep("poll", "rearm")
PollRearms     == PollingStep("rearm", "pending")

Polling == \/ TimerFires \/ CallbackRearms \/ CallbackSchedules
           \/ PollCompletes \/ PollRearms

(***************************************************************************)
(* nf10_eth_driver_exit.                                                   *)
(***************************************************************************)
(* rmmod: napi_disable() refuses new polls, then waits for the present one.*)
UnloadModule ==
  /\ pc = "loaded"
  /\ up' = up \ {"napi_on"}
  /\ pc' = "exit_wait"
  /\ UNCHANGED <<i, devVars, card, probeVars, timer, bad, lapsed>>

ExitNapi ==
  /\ pc = "exit_wait"
  /\ timer # "poll"
  /\ pc' = "exit_timer"
  /\ UNCHANGED <<i, devVars, up, card, probeVars, timer, bad, lapsed>>

(* Defect: the timer is not deleted. *)
ExitTimerForgotten ==
  /\ pc = "exit_timer"
  /\ pc' = "exit_genl"
  /\ UNCHANGED <<i, devVars, up, card, probeVars, timer, bad, lapsed>>

(* del_timer() takes a pending timer off the list and waits for nobody. *)
ExitTimer ==
  /\ pc = "exit_timer"
  /\ timer' = IF timer = "pending" THEN "off" ELSE timer
  /\ pc' = "exit_genl"
  /\ lapsed' = (lapsed \/ timer \in {"callback", "rearm"})
  /\ UNCHANGED <<i, devVars, up, card, probeVars, bad>>

ExitGenl ==
  /\ pc = "exit_genl"
  /\ up' = up \ {"proc", "genl"}
  /\ pc' = "exit_netdevs"
  /\ UNCHANGED <<i, devVars, card, probeVars, timer, bad, lapsed>>

ExitNetdevs ==
  /\ pc = "exit_netdevs"
  /\ registered' = registered \ Netdevs
  /\ pc' = "exit_free"
  /\ UNCHANGED <<i, allocated, up, card, probeVars, timer, bad, lapsed>>

ExitFree ==
  /\ pc = "exit_free"
  /\ up' = up \ {"napi"}
  /\ allocated' = allocated \ Netdevs
  /\ pc' = "exit_pci"
  /\ UNCHANGED <<i, registered, card, probeVars, timer, bad, lapsed>>

(* pci_unregister_driver(), which unbinds the card. *)
ExitPci ==
  /\ pc = "exit_pci"
  /\ Unbind
  /\ up' = up \ {"pci_driver"}
  /\ pc' = "unloaded"
  /\ UNCHANGED <<i, devVars, card, probe_pc, hw_state, timer, lapsed>>

nf10_eth_driver_exit ==
  ExitNapi \/ ExitTimer \/ ExitGenl \/ ExitNetdevs \/ ExitFree \/ ExitPci

-----------------------------------------------------------------------------
Next ==
  \/ LoadModule \/ nf10_eth_driver_init
  \/ ProbeBegin \/ probe
  \/ HotPlug \/ HotUnplug
  \/ Polling
  \/ UnloadModule \/ nf10_eth_driver_exit

(***************************************************************************)
(* Fairness.  Functions that have been entered go on, the PCI core probes  *)
(* a card it finds, timers expire and softirqs run.  pci_register_driver() *)
(* looks at each card once and pci_unregister_driver() gets the device's   *)
(* lock in the end, so a card that keeps coming and going holds up neither *)
(* (strong fairness).  Nobody has to load or unload the module.            *)
(***************************************************************************)
Fairness ==
  /\ WF_vars(nf10_eth_driver_init) /\ WF_vars(ProbeBegin) /\ WF_vars(probe)
  /\ WF_vars(nf10_eth_driver_exit)
  /\ SF_vars(InitDone) /\ SF_vars(ExitPci)
  /\ WF_vars(TimerFires) /\ WF_vars(PollCompletes) /\ WF_vars(PollRearms)
  /\ WF_vars(CallbackRearms \/ CallbackSchedules)

Spec == Init /\ [][Next]_vars
FairSpec == Spec /\ Fairness

-----------------------------------------------------------------------------
(* Every variable keeps its type; a DMA region never has fewer buffers     *)
(* than MIN_DMA_CPU_BUFS.                                                  *)
TypeOK ==
  /\ pc \in Loading \cup Exiting \cup {"unloaded", "loaded"}
  /\ i \in 0 .. NUM_NETDEVS
  /\ allocated \subseteq Netdevs
  /\ registered \subseteq Netdevs
  /\ up \subseteq {"napi", "genl", "proc", "napi_on", "pci_driver"}
  /\ card \in BOOLEAN
  /\ bound \in {"no", "yes", "failed"}
  /\ probe_pc \in {"idle", "enable", "region", "map", "size", "mask",
                   "alloc_tx", "alloc_rx", "give_up", "workers", "add_timer"}
  /\ held \subseteq PciResources
  /\ tx \in {0} \cup MIN_DMA_CPU_BUFS .. DMA_CPU_BUFS
  /\ rx \in {0} \cup MIN_DMA_CPU_BUFS .. DMA_CPU_BUFS
  /\ dma_cpu_bufs \in 0 .. DMA_CPU_BUFS
  /\ region \in {0} \cup MIN_DMA_CPU_BUFS .. DMA_CPU_BUFS
  /\ hw_state \subseteq {"HW_FOUND", "HW_INIT"}
  /\ timer \in {"off", "pending", "callback", "poll", "rearm"}
  /\ bad \subseteq PciResources \cup {"tx", "rx", "netdev", "pci_driver",
                                      "add_timer"}
  /\ lapsed \in BOOLEAN

(* "... unloading driver": when init has failed or exit has returned,      *)
(* nothing that they or probe acquired is left, and no timer of a module   *)
(* that is no longer there can expire, except after the lapses named with  *)
(* the variable: those are the only ways to leave something behind.        *)
UnloadedClean ==
  pc = "unloaded" /\ ~lapsed => /\ allocated = {} /\ registered = {}
                                /\ up = {} /\ timer = "off"
                                /\ held = {} /\ tx = 0 /\ rx = 0

(* "Stop the polling timer for receiving packets": no timer is left behind *)
(* by a module that has been unloaded.                                     *)
NoTimerLeft == pc = "unloaded" => timer = "off"

(* Nothing is released that is not held, no DMA region is freed with       *)
(* another size than it was allocated with, and probe never sets a timer   *)
(* that is already set.  The one exception is the PCI driver, which early  *)
(* failures of init unregister although it has not been registered; the    *)
(* kernel only warns about that.                                           *)
ReleasesMatched == ~lapsed => bad \subseteq {"pci_driver"}

(* "Check that the memory allocations succeeded": a card is bound only     *)
(* when probe holds all it needs, and both regions have as many buffers as *)
(* the ring's users believe.                                               *)
BoundMeansReady ==
  probe_pc = "idle" /\ bound = "yes" /\ ~lapsed
    => held = PciResources /\ tx = dma_cpu_bufs /\ rx = dma_cpu_bufs

(* A failed probe and a remove leave nothing behind, whichever step of     *)
(* probe failed.                                                           *)
UnboundClean ==
  probe_pc = "idle" /\ bound # "yes" => held = {} /\ tx = 0 /\ rx = 0

(* "Check that the hardware is actually there and working": whenever that  *)
(* check in nf10_ndo_start_xmit succeeds, the transmit ring exists, and    *)
(* whenever the timer may fire, the receive ring does.                     *)
UsersHaveMemory ==
  ~lapsed =>
    /\ registered # {} /\ HwUp => tx > 0 /\ "map" \in held
    /\ timer # "off" => rx > 0 /\ "map" \in held

(* The loop that allocates the two regions never leaves one alone: outside *)
(* of it both exist, with the same size, or neither.                       *)
RegionsPaired == probe_pc # "alloc_rx" => tx = rx

(* What probe holds is sound at every step: a bound card has everything,   *)
(* any other card nothing, and the DMA regions come and go together.       *)
ResourcesSound == /\ TypeOK /\ BoundMeansReady
                  /\ UnboundClean /\ RegionsPaired

(* Loading and unloading the module come to an end: the loop over buffer   *)
(* counts terminates and napi_disable() does not wait for ever.            *)
LoadEnds == pc \in Loading ~> pc \in {"loaded", "unloaded"}
UnloadEnds == pc \in Exiting ~> pc = "unloaded"

(* Both of them, however the card comes and goes meanwhile.                *)
LoadAndUnloadEnd == LoadEnds /\ UnloadEnds
=============================================================================
