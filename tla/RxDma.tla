------------------------------- MODULE RxDma --------------------------------
(***************************************************************************)
(* The receive path of the NetFPGA-10G Ethernet driver                     *)
(* (nf10_eth_driver_main.c): the ring of DMA buffers in rx_dma_stream, the *)
(* hardware that fills it and the contexts that empty it or decide when it *)
(* is looked at.                                                           *)
(*                                                                         *)
(*   "timer"  rx_poll_timer_cb, in the timer softirq: looks at one flag,   *)
(*            and either schedules a NAPI poll or sets the timer again.    *)
(*   "poll"   nf10_napi_struct_poll, in the network softirq.               *)
(*   "genl"   genl_cmd_dma_rx, genl_cmd_napi_enable, genl_cmd_napi_disable.*)
(*            The kernel's genl_mutex admits one command at a time, so all *)
(*            of them are one context.                                     *)
(*   dataplane worker 1 (external hardware): starts with one credit per    *)
(*            buffer, fills buffers in ring order and writes flag 1 last;  *)
(*            every doorbell write gives it one credit back.               *)
(*                                                                         *)
(* A frame is its bytes (with their length) and its opCode.                *)
(***************************************************************************)
EXTENDS Integers, Sequences, FiniteSets

CONSTANTS
  DMA_CPU_BUFS,  \* number of buffers in the ring (dma_cpu_bufs)
  Budget,        \* RX_POLL_WEIGHT, the budget of one poll
  Payloads,      \* the bytes the hardware can deliver
  Opcodes,       \* the opcodes the hardware can deliver
  Commands,      \* the netlink commands in use
  Discipline,    \* when DMA_RX and NAPI_ENABLE are issued, see Allowed
  StatMod        \* modulus of the interface statistics (2^BITS_PER_LONG)

ASSUME BufsAssumption == DMA_CPU_BUFS \in Nat \ {0}
ASSUME BudgetAssumption == Budget \in Nat \ {0}
ASSUME DataAssumption == Opcodes \subseteq Nat /\ StatMod \in Nat \ {0}
ASSUME CommandAssumption ==
  /\ Commands \subseteq {"DMA_RX", "NAPI_ENABLE", "NAPI_DISABLE"}
  /\ Discipline \in {"any", "disabled", "quiet"}

VARIABLES
  flags,        \* rx_dma_stream.flags: 1 is full, 0 is empty
  frames,       \* rx_dma_stream.buffers and .metadata
  buf_index,    \* rx_dma_stream.buf_index
  timer,        \* is rx_poll_timer "pending" or "idle"
  disabled,     \* NAPI_DISABLE was the last of the two NAPI commands
  sched,        \* NAPI_STATE_SCHED of nf10_napi_struct
  pc,           \* where each context is in its function
  poll_index,   \* the poll's local copy of buf_index
  n_rx,         \* the poll's count of packets
  fate,         \* what the poll does with the packet in hand
  skb,          \* the packet in hand as it was when the poll looked at it
  work,         \* what the last poll returned
  credits,      \* buffers the hardware may fill
  hw_index,     \* ring position the hardware fills next
  hw_busy,      \* the hardware has written the frame but not the flag
  rx_packets,   \* stats.rx_packets of each network device
  rx_dropped,   \* stats.rx_dropped of each network device
  arrived       \* frames received for each network device and not taken
                \* away by the DMA_RX command (mod StatMod)

hwVars   == <<credits, hw_index, hw_busy, arrived>>
pollVars == <<poll_index, n_rx, fate, skb, work>>
napiVars == <<timer, disabled, sched>>
statVars == <<rx_packets, rx_dropped>>
ringVars == <<flags, frames, buf_index>>
vars     == <<ringVars, napiVars, pc, pollVars, hwVars, statVars>>

Slots    == 0 .. DMA_CPU_BUFS - 1
Frames   == [bytes : Payloads, opCode : Opcodes]
Ifaces   == 0..3
Contexts == {"timer", "poll", "genl"}
NoFrame  == [bytes |-> "none", opCode |-> 0]

(* The k-th ring position after i, for k in 0..DMA_CPU_BUFS. *)
Slot(i, k) == IF i + k < DMA_CPU_BUFS THEN i + k ELSE i + k - DMA_CPU_BUFS

(* The CPU bits of an opcode are 0x02, 0x08, 0x20 and 0x80. *)
rx_get_dst_iface(opcode) ==
  IF (opcode \div 2) % 2 = 1 THEN 0
  ELSE IF (opcode \div 8) % 2 = 1 THEN 1
  ELSE IF (opcode \div 32) % 2 = 1 THEN 2
  ELSE IF (opcode \div 128) % 2 = 1 THEN 3
  ELSE -1

Goto(c, l) == pc' = [pc EXCEPT ![c] = l]

(* The poll works on its local index, the DMA_RX command on the shared one.*)
IndexOf(c) == IF c = "poll" THEN poll_index ELSE buf_index

(* Locations of the code that takes a packet out of the ring. *)
InRegion == {"loop", "take", "check", "clear", "doorbell", "advance", "wrap",
             "next", "end"}

(***************************************************************************)
(* probe() has laid out an empty ring, started the workers and set the     *)
(* timer for the first time.                                               *)
(***************************************************************************)
Init ==
  /\ flags = [i \in Slots |-> 0]
  /\ frames = [i \in Slots |-> NoFrame]
  /\ buf_index = 0
  /\ timer = "pending"
  /\ disabled = FALSE
  /\ sched = FALSE
  /\ pc = [c \in Contexts |-> "idle"]
  /\ poll_index = 0
  /\ n_rx = 0
  /\ fate = "none"
  /\ skb = NoFrame
  /\ work = 0
  /\ credits = DMA_CPU_BUFS
  /\ hw_index = 0
  /\ hw_busy = FALSE
  /\ rx_packets = [d \in Ifaces |-> 0]
  /\ rx_dropped = [d \in Ifaces |-> 0]
  /\ arrived = [d \in Ifaces |-> 0]

(***************************************************************************)
(* Dataplane worker 1, an OCDP producer in active message mode (external). *)
(***************************************************************************)
HwWrite ==
  /\ credits > 0
  /\ ~hw_busy
  /\ \E f \in Frames : frames' = [frames EXCEPT ![hw_index] = f]
  /\ hw_busy' = TRUE
  /\ UNCHANGED <<flags, buf_index, napiVars, pc, pollVars, credits, hw_index,
                 arrived, statVars>>

HwFlag ==
  /\ hw_busy
  /\ flags' = [flags EXCEPT ![hw_index] = 1]
  /\ hw_index' = Slot(hw_index, 1)
  /\ credits' = credits - 1
  /\ hw_busy' = FALSE
  /\ LET dst == rx_get_dst_iface(frames[hw_index].opCode) IN
       arrived' = IF dst < 0 THEN arrived
                  ELSE [arrived EXCEPT ![dst] = (@ + 1) % StatMod]
  /\ UNCHANGED <<frames, buf_index, napiVars, pc, pollVars, statVars>>

(***************************************************************************)
(* The timer.  A pending timer that expires is taken off the list before   *)
(* its callback runs (external); add_timer() on a pending timer is a       *)
(* kernel BUG, after which that context goes no further.                   *)
(***************************************************************************)
TimerExpires ==
  /\ timer = "pending"
  /\ pc["timer"] = "idle"
  /\ timer' = "idle"
  /\ Goto("timer", "check")
  /\ UNCHANGED <<ringVars, disabled, sched, pollVars, hwVars, statVars>>

AddTimer == timer = "idle" /\ timer' = "pending"

(* rx_poll_timer_cb *)
TimerCheck ==
  /\ pc["timer"] = "check"
  /\ Goto("timer", IF flags[buf_index] = 1 THEN "schedule" ELSE "rearm")
  /\ UNCHANGED <<ringVars, napiVars, pollVars, hwVars, statVars>>

(* Defect: the callback also sets the timer again. *)
TimerSchedulesAndRearms ==
  /\ pc["timer"] = "schedule"
  /\ sched' = TRUE
  /\ timer' = "pending"
  /\ Goto("timer", "idle")
  /\ UNCHANGED <<ringVars, disabled, pollVars, hwVars, statVars>>

TimerSchedules ==
  /\ pc["timer"] = "schedule"
  /\ sched' = TRUE
  /\ Goto("timer", "idle")
  /\ UNCHANGED <<ringVars, timer, disabled, pollVars, hwVars, statVars>>

TimerRearms ==
  /\ pc["timer"] = "rearm"
  /\ AddTimer
  /\ Goto("timer", "idle")
  /\ UNCHANGED <<ringVars, disabled, sched, pollVars, hwVars, statVars>>

rx_poll_timer_cb == TimerCheck \/ TimerSchedules \/ TimerRearms

(***************************************************************************)
(* nf10_napi_struct_poll, called by the network softirq for as long as the *)
(* poll is scheduled (external).                                           *)
(***************************************************************************)
PollStart ==
  /\ sched
  /\ pc["poll"] = "idle"
  /\ poll_index' = buf_index
  /\ n_rx' = 0
  /\ Goto("poll", "loop")
  /\ UNCHANGED <<ringVars, napiVars, fate, skb, work, hwVars, statVars>>

(* Defect: the buffer is given back before it is copied. *)
PollLoopEarlyDoorbell ==
  /\ pc["poll"] = "loop"
  /\ Goto("poll", IF n_rx < Budget /\ flags[poll_index] = 1 THEN "take"
                                                            ELSE "end")
  /\ credits' = IF n_rx < Budget /\ flags[poll_index] = 1 THEN credits + 1
                                                           ELSE credits
  /\ UNCHANGED <<ringVars, napiVars, pollVars, hw_index,
                 hw_busy, arrived, statVars>>

PollLoop ==
  /\ pc["poll"] = "loop"
  /\ Goto("poll", IF n_rx < Budget /\ flags[poll_index] = 1 THEN "take"
                                                            ELSE "end")
  /\ UNCHANGED <<ringVars, napiVars, pollVars, hwVars, statVars>>

(* What the packet in hand is destined for. *)
dst_iface == rx_get_dst_iface(frames[poll_index].opCode)

PollBadOpcode ==
  /\ pc["poll"] = "take"
  /\ dst_iface < 0
  /\ fate' = "bad"
  /\ skb' = frames[poll_index]
  /\ Goto("poll", "clear")
  /\ UNCHANGED <<ringVars, napiVars, poll_index, n_rx, work, hwVars, statVars>>

PollNoMemory ==
  /\ pc["poll"] = "take"
  /\ dst_iface >= 0
  /\ fate' = "nomem"
  /\ skb' = frames[poll_index]
  /\ Goto("poll", "clear")
  /\ UNCHANGED <<ringVars, napiVars, poll_index, n_rx, work, hwVars, statVars>>

(* Copy the packet, give it to the stack, count it. *)
PollDeliver ==
  /\ pc["poll"] = "take"
  /\ dst_iface >= 0
  /\ fate' = "deliver"
  /\ skb' = frames[poll_index]
  /\ rx_packets' = [rx_packets EXCEPT ![dst_iface] = (@ + 1) % StatMod]
  /\ Goto("poll", "clear")
  /\ UNCHANGED <<ringVars, napiVars, poll_index, n_rx, work, hwVars,
                 rx_dropped>>

(* Defect: the drop for want of memory is not counted. *)
PollNextUncounted ==
  /\ pc["poll"] = "next"
  /\ poll_index' = buf_index
  /\ n_rx' = IF fate = "deliver" THEN n_rx + 1 ELSE n_rx
  /\ fate' = "none"
  /\ skb' = NoFrame
  /\ Goto("poll", "loop")
  /\ UNCHANGED <<ringVars, napiVars, work, hwVars, statVars>>

(* After the buffer has been given back: the rest of the loop body. *)
PollNext ==
  /\ pc["poll"] = "next"
  /\ poll_index' = buf_index
  /\ n_rx' = IF fate = "deliver" THEN n_rx + 1 ELSE n_rx
  /\ rx_dropped' =
       IF fate = "nomem"
       THEN [rx_dropped EXCEPT ![rx_get_dst_iface(skb.opCode)]
               = (@ + 1) % StatMod]
       ELSE rx_dropped
  /\ fate' = "none"
  /\ skb' = NoFrame
  /\ Goto("poll", "loop")
  /\ UNCHANGED <<ringVars, napiVars, work, hwVars, rx_packets>>

(* Defect: the timer is not set after napi_complete(). *)
PollCompleteNoTimer ==
  /\ pc["poll"] = "end"
  /\ flags[poll_index] = 0
  /\ sched' = FALSE
  /\ Goto("poll", "idle")
  /\ UNCHANGED <<ringVars, timer, disabled, pollVars, hwVars, statVars>>

(* Everything slurped up: napi_complete(), then set the timer, return 0. *)
PollComplete ==
  /\ pc["poll"] = "end"
  /\ flags[poll_index] = 0
  /\ sched' = FALSE
  /\ Goto("poll", "rearm")
  /\ UNCHANGED <<ringVars, timer, disabled, pollVars, hwVars, statVars>>

(* Defect: the packet count is returned after napi_complete(). *)
PollRearmsReturnsCount ==
  /\ pc["poll"] = "rearm"
  /\ AddTimer
  /\ work' = n_rx
  /\ Goto("poll", "idle")
  /\ UNCHANGED <<ringVars, disabled, sched, poll_index, n_rx, fate, skb,
                 hwVars, statVars>>

PollRearms ==
  /\ pc["poll"] = "rearm"
  /\ AddTimer
  /\ work' = 0
  /\ Goto("poll", "idle")
  /\ UNCHANGED <<ringVars, disabled, sched, poll_index, n_rx, fate, skb,
                 hwVars, statVars>>

(* Still more left: stay scheduled and return the number of packets. *)
PollMore ==
  /\ pc["poll"] = "end"
  /\ flags[poll_index] # 0
  /\ work' = n_rx
  /\ Goto("poll", "idle")
  /\ UNCHANGED <<ringVars, napiVars, poll_index, n_rx, fate, skb, hwVars,
                 statVars>>

(***************************************************************************)
(* Giving a buffer back to the hardware: the same statements in the poll   *)
(* (three times) and in genl_cmd_dma_rx.                                   *)
(***************************************************************************)
MarkEmpty(c) ==
  /\ pc[c] = "clear"
  /\ flags' = [flags EXCEPT ![IndexOf(c)] = 0]
  /\ Goto(c, "doorbell")
  /\ LET dst == rx_get_dst_iface(frames[IndexOf(c)].opCode) IN
       arrived' = IF c = "poll" \/ dst < 0 THEN arrived
                  ELSE [arrived EXCEPT ![dst] = (@ + StatMod - 1) % StatMod]
  /\ UNCHANGED <<frames, buf_index, napiVars, pollVars, credits, hw_index,
                 hw_busy, statVars>>

(* Defect: the doorbell is rung twice. *)
RingDoorbellTwice(c) ==
  /\ pc[c] = "doorbell"
  /\ credits' = credits + 2
  /\ Goto(c, "advance")
  /\ UNCHANGED <<ringVars, napiVars, pollVars, hw_index, hw_busy, arrived,
                 statVars>>

RingDoorbell(c) ==
  /\ pc[c] = "doorbell"
  /\ credits' = credits + 1
  /\ Goto(c, "advance")
  /\ UNCHANGED <<ringVars, napiVars, pollVars, hw_index, hw_busy, arrived,
                 statVars>>

(* if(++buf_index == dma_cpu_bufs) buf_index = 0; is two stores. *)
AdvanceIndex(c) ==
  /\ pc[c] = "advance"
  /\ buf_index' = buf_index + 1
  /\ Goto(c, IF buf_index' = DMA_CPU_BUFS THEN "wrap" ELSE "next")
  /\ UNCHANGED <<flags, frames, napiVars, pollVars, hwVars, statVars>>

WrapIndex(c) ==
  /\ pc[c] = "wrap"
  /\ buf_index' = 0
  /\ Goto(c, "next")
  /\ UNCHANGED <<flags, frames, napiVars, pollVars, hwVars, statVars>>

GiveBack(c) == \/ MarkEmpty(c) \/ RingDoorbell(c)
               \/ AdvanceIndex(c) \/ WrapIndex(c)

nf10_napi_struct_poll ==
  \/ PollLoop \/ PollBadOpcode \/ PollNoMemory \/ PollDeliver
  \/ GiveBack("poll") \/ PollNext
  \/ PollComplete \/ PollRearms \/ PollMore

(***************************************************************************)
(* The netlink commands.                                                   *)
(***************************************************************************)
(* Polling is stopped and will not start by itself. *)
Quiet == /\ timer = "idle" /\ pc["timer"] = "idle"
         /\ ~sched /\ pc["poll"] = "idle"

(* The driver accepts every command at any moment ("any").  The tests in   *)
(* testing/hw_configured send NAPI_DISABLE first ("disabled"); a cautious  *)
(* user also waits until the polling has really stopped ("quiet").         *)
Allowed == /\ Discipline = "disabled" => disabled
           /\ Discipline = "quiet" => Quiet

MayIssue(cmd) == /\ cmd \in Commands
                 /\ pc["genl"] = "idle"

(* genl_cmd_dma_rx: an empty buffer gives an empty reply. *)
GenlRxEnter ==
  /\ MayIssue("DMA_RX")
  /\ Allowed
  /\ Goto("genl", "check")
  /\ UNCHANGED <<ringVars, napiVars, pollVars, hwVars, statVars>>

(* No packet, or it does not fit the reply: return, consuming nothing. *)
GenlRxNothing ==
  /\ pc["genl"] = "check"
  /\ Goto("genl", "idle")
  /\ UNCHANGED <<ringVars, napiVars, pollVars, hwVars, statVars>>

GenlRxPut ==
  /\ pc["genl"] = "check"
  /\ flags[buf_index] = 1
  /\ Goto("genl", "clear")
  /\ UNCHANGED <<ringVars, napiVars, pollVars, hwVars, statVars>>

(* The packet is out of the ring whether or not the reply can be sent. *)
GenlRxReply ==
  /\ pc["genl"] = "next"
  /\ Goto("genl", "idle")
  /\ UNCHANGED <<ringVars, napiVars, pollVars, hwVars, statVars>>

genl_cmd_dma_rx == \/ GenlRxNothing \/ GenlRxPut
                   \/ GiveBack("genl") \/ GenlRxReply

(* genl_cmd_napi_enable: del_timer(), then add_timer(). *)
GenlEnableDel ==
  /\ MayIssue("NAPI_ENABLE")
  /\ Allowed
  /\ timer' = "idle"
  /\ disabled' = FALSE
  /\ Goto("genl", "add")
  /\ UNCHANGED <<ringVars, sched, pollVars, hwVars, statVars>>

GenlEnableAdd ==
  /\ pc["genl"] = "add"
  /\ AddTimer
  /\ Goto("genl", "idle")
  /\ UNCHANGED <<ringVars, disabled, sched, pollVars, hwVars, statVars>>

genl_cmd_napi_disable ==
  /\ MayIssue("NAPI_DISABLE")
  /\ timer' = "idle"
  /\ disabled' = TRUE
  /\ UNCHANGED <<ringVars, sched, pc, pollVars, hwVars, statVars>>

-----------------------------------------------------------------------------
Next ==
  \/ HwWrite \/ HwFlag
  \/ TimerExpires \/ rx_poll_timer_cb
  \/ PollStart \/ nf10_napi_struct_poll
  \/ GenlRxEnter \/ genl_cmd_dma_rx
  \/ GenlEnableDel \/ GenlEnableAdd
  \/ genl_cmd_napi_disable

(***************************************************************************)
(* Fairness.  Pending timers expire and scheduled softirqs run (kernel);   *)
(* a function that has been entered is executed to its end; hardware that  *)
(* has started on a buffer finishes it.  Nothing says that frames arrive   *)
(* or that commands are issued.                                            *)
(***************************************************************************)
Fairness ==
  /\ WF_vars(TimerExpires) /\ WF_vars(rx_poll_timer_cb)
  /\ WF_vars(PollStart) /\ WF_vars(nf10_napi_struct_poll)
  /\ WF_vars(genl_cmd_dma_rx) /\ WF_vars(GenlEnableAdd)
  /\ WF_vars(HwFlag)

Spec == Init /\ [][Next]_vars
FairSpec == Spec /\ Fairness

-----------------------------------------------------------------------------
(* Every variable keeps its type, and a poll never counts more packets     *)
(* than its budget.                                                        *)
TypeOK ==
  /\ flags \in [Slots -> {0, 1}]
  /\ frames \in [Slots -> Frames \cup {NoFrame}]
  /\ buf_index \in 0 .. DMA_CPU_BUFS
  /\ timer \in {"idle", "pending"}
  /\ disabled \in BOOLEAN
  /\ sched \in BOOLEAN
  /\ pc \in [Contexts -> InRegion \cup {"idle", "schedule", "rearm", "add"}]
  /\ poll_index \in Slots
  /\ n_rx \in 0 .. Budget
  /\ fate \in {"none", "bad", "nomem", "deliver"}
  /\ skb \in Frames \cup {NoFrame}
  /\ work \in 0 .. Budget
  /\ credits \in 0 .. DMA_CPU_BUFS
  /\ hw_index \in Slots
  /\ hw_busy \in BOOLEAN
  /\ rx_packets \in [Ifaces -> 0 .. StatMod - 1]
  /\ rx_dropped \in [Ifaces -> 0 .. StatMod - 1]
  /\ arrived \in [Ifaces -> 0 .. StatMod - 1]

(* "Need a locking mechanism to control concurrent access to each DMA      *)
(* region": the poll and the DMA_RX command are never both at work on the  *)
(* receive ring.                                                           *)
RxExclusion == ~(pc["poll"] \in InRegion /\ pc["genl"] \in InRegion)

(* The timer is never pending when add_timer() is about to be called on it *)
(* (that is a kernel BUG), neither by its own callback nor by the poll nor *)
(* by the NAPI_ENABLE command.                                             *)
AddTimerSafe ==
  pc["timer"] = "rearm" \/ pc["poll"] = "rearm" \/ pc["genl"] = "add"
    => timer = "idle"

(* Polling is driven by one token: the pending timer, the running callback,*)
(* the scheduled or running poll, or the NAPI_ENABLE command.              *)
Driving(x) == CASE x = "pending" -> timer = "pending"
                [] x = "timer"   -> pc["timer"] # "idle"
                [] x = "poll"    -> sched \/ pc["poll"] # "idle"
                [] x = "genl"    -> pc["genl"] = "add"
Drivers == {"pending", "timer", "poll", "genl"}

(* There is never more than one token, and unless the polling has been     *)
(* stopped by command the token is never lost: no interleaving makes the   *)
(* driver forget to look at the ring.                                      *)
OneDriver ==
  /\ \A x, y \in Drivers : Driving(x) /\ Driving(y) => x = y
  /\ ~disabled => \E x \in Drivers : Driving(x)

(* Timer, callback, poll and commands get along: one token drives the      *)
(* polling and is not lost, add_timer() never meets a pending timer, and   *)
(* genl_cmd_dma_rx and the poll, which share no lock, never meet.          *)
PollingSafe == OneDriver /\ AddTimerSafe /\ RxExclusion

(* Who is giving a buffer back, and how far it has got. *)
At(l) == pc["poll"] = l \/ pc["genl"] = l

(* The oldest full buffer, once whoever is advancing buf_index is done. *)
Oldest == IF At("doorbell") \/ At("advance") THEN Slot(buf_index, 1)
        ELSE IF At("wrap") THEN 0
        ELSE buf_index

(* Full buffers: all that the hardware has neither a credit for nor will   *)
(* get one for with the doorbell that is about to be rung.                 *)
Filled == DMA_CPU_BUFS - credits - IF At("doorbell") THEN 1 ELSE 0

(* The flags, the driver's index, the hardware's index and the hardware's  *)
(* credits always agree: the full buffers are exactly the Filled ones from *)
(* Oldest on, and the hardware continues right behind them.  So the        *)
(* hardware never fills a buffer that the driver has not emptied, and an   *)
(* empty flag at buf_index means that nothing is waiting.                  *)
RingAgrees ==
  /\ Filled >= 0
  /\ hw_busy => credits > 0
  /\ hw_index = Slot(Oldest, Filled)
  /\ \A k \in 0 .. DMA_CPU_BUFS - 1 :
       flags[Slot(Oldest, k)] = 1 <=> k < Filled

(* A packet that has been looked at is still in its buffer, unchanged,     *)
(* until its flag is cleared: the stack gets the bytes and the interface   *)
(* that the hardware delivered.                                            *)
InHandIntact ==
  /\ pc["poll"] \in {"take", "clear"} => Filled > 0 /\ poll_index = Oldest
  /\ pc["poll"] = "clear" => skb = frames[poll_index]

(* The receive ring is sound: every variable has its type, flags, indices  *)
(* and doorbells agree on which buffers are full, and the packet the poll  *)
(* is copying is not overwritten.                                          *)
RingSound == TypeOK /\ RingAgrees /\ InHandIntact

(* The inductive invariant, in parts.  Who may be where: at most one token *)
(* of polling, the poll is scheduled until it completes, and a command is  *)
(* only under way while the polling rests.                                 *)
Token ==
  /\ pc["timer"] \in {"idle", "check", "schedule", "rearm"}
  /\ pc["poll"] \in (InRegion \ {"check"}) \cup {"idle", "rearm"}
  /\ pc["genl"] \in {"idle", "check", "clear", "doorbell", "advance", "wrap",
                     "next", "add"}
  /\ timer = "pending" =>
       pc["timer"] = "idle" /\ ~sched /\ pc["poll"] = "idle"
  /\ pc["timer"] # "idle" => ~sched /\ pc["poll"] = "idle"
  /\ pc["poll"] = "rearm" => ~sched
  /\ pc["poll"] \in InRegion => sched
  /\ pc["genl"] # "idle" => Quiet
  /\ ~disabled => ~Quiet \/ pc["genl"] = "add"

(* The two indices of the poll, and what the loop has found out. *)
IndexHeld ==
  /\ At("wrap") <=> buf_index = DMA_CPU_BUFS
  /\ At("take") \/ At("clear") => Filled > 0
  /\ pc["poll"] \in {"loop", "take", "clear", "end"} => poll_index = buf_index
  /\ pc["poll"] \in InRegion \ {"loop", "end"} => n_rx < Budget

(* The hardware has written a frame before it says so. *)
HwHeld == hw_busy => frames[hw_index] \in Frames

IInv == /\ TypeOK
        /\ Token
        /\ IndexHeld
        /\ RingAgrees
        /\ InHandIntact
        /\ HwHeld

(* The frames in the ring, oldest first. *)
Queue == [k \in 1 .. Filled |-> frames[Slot(Oldest, k - 1)]]

(* The receive ring is a FIFO: no frame is lost, duplicated, reordered or  *)
(* overwritten between the hardware's flag and the driver's.               *)
Fifo == INSTANCE PacketFifo WITH Frame <- Frames, Capacity <- DMA_CPU_BUFS,
                                 queue <- Queue
RxIsFifo == Fifo!Spec

(* Every frame the hardware received for a network device is in the ring,  *)
(* in the poll's hands, was taken by the DMA_RX command, or is counted     *)
(* exactly once as received or dropped.                                    *)
StatsAccount ==
  \A d \in Ifaces :
    LET waiting == Cardinality({k \in 1 .. Filled :
                     rx_get_dst_iface(Queue[k].opCode) = d})
        here == fate # "none" /\ rx_get_dst_iface(skb.opCode) = d
        early == IF here /\ fate = "deliver" /\ pc["poll"] = "clear"
                 THEN 1 ELSE 0
        late == IF here /\ fate = "nomem" /\ pc["poll"] # "clear"
                THEN 1 ELSE 0
    IN (arrived[d] + early) % StatMod
         = (rx_packets[d] + rx_dropped[d] + waiting + late) % StatMod

(* The NAPI contract: a poll that returns its whole budget is still        *)
(* scheduled (the kernel then moves it to the end of its list).            *)
NapiContract ==
  [][pc["poll"] # "idle" /\ pc'["poll"] = "idle" /\ work' = Budget
       => sched']_vars

(* Unless the polling is stopped by command, every frame the hardware      *)
(* delivers leaves the ring.                                               *)
FramesLeave == \A i \in Slots : flags[i] = 1 ~> flags[i] = 0 \/ disabled
=============================================================================
