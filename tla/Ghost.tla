-------------------------------- MODULE Ghost -------------------------------
(***************************************************************************)
(* Ghost mode of the driver (DRIVER_GHOST): no card, one ring in ordinary  *)
(* memory that is both tx_dma_stream and rx_dma_stream.  What interface i  *)
(* sends, interface i ^ 1 receives.                                        *)
(*                                                                         *)
(*   senders  nf10_ghost_xmit, one per interface (the kernel's transmit    *)
(*            lock of a device admits one call at a time), between them    *)
(*            tx_dma_region_spinlock.                                      *)
(*   Timer    rx_poll_timer_cb.                                            *)
(*   Poll     nf10_napi_struct_poll.  It takes no lock.                    *)
(*   commands genl_cmd_napi_enable and genl_cmd_napi_disable.              *)
(*   phase    module init from enable_ghosting on, and module exit.        *)
(*                                                                         *)
(* tx_dropped, a counter nothing reads, and the packets that are dropped   *)
(* before the lock because they are too long, are left out.                *)
(*                                                                         *)
(* Environment: the interfaces are brought up, and commands sent, after    *)
(* init has returned; NAPI_ENABLE is sent while the polling rests; the     *)
(* netlink DMA commands, which ring a doorbell that ghost mode does not    *)
(* have, are not used.                                                     *)
(***************************************************************************)
EXTENDS Integers, FiniteSets

CONSTANTS
  Netdevs,           \* the interfaces that are up, of 0..3
  DMA_CPU_BUFS,      \* buffers enable_ghosting asks for first
  MIN_DMA_CPU_BUFS,  \* it gives up below this many
  Budget,            \* RX_POLL_WEIGHT
  Protos,            \* what each interface sends: "ip", "other"
  StatMod            \* modulus of the interface statistics

(* Defect: the frame goes back to its sender. *)
PartnerSelf(i) == i

(* i ^ 1, as nf10_ghost_xmit computes it *)
Partner(i) == IF i % 2 = 0 THEN i + 1 ELSE i - 1

ASSUME GhostAssumption ==
  /\ Netdevs \subseteq 0..3 /\ \A i \in Netdevs : Partner(i) \in Netdevs
  /\ MIN_DMA_CPU_BUFS \in Nat \ {0} /\ DMA_CPU_BUFS \in Nat
  /\ DMA_CPU_BUFS >= MIN_DMA_CPU_BUFS
  /\ Protos \in [Netdevs -> SUBSET {"ip", "other"}]
  /\ Budget \in Nat \ {0} /\ StatMod \in Nat \ {0}

VARIABLES
  phase,         \* how far module init or exit has got
  up,            \* interfaces that are registered
  mem,           \* is rx_dma_reg_va "none", "ok" or "freed"
  dma_cpu_bufs,  \* buffers in the ring
  flags,         \* flags of both streams: 1 is full, 0 is empty
  frames,        \* buffers and metadata of both streams
  tx_index,      \* tx_dma_stream.buf_index
  rx_index,      \* rx_dma_stream.buf_index
  lock,          \* the interface whose sender holds tx_dma_region_spinlock
  pc,            \* where each context is
  tx_skb,        \* the frame each sender has in hand
  timer,         \* rx_poll_timer: "pending", "idle" or, deleted by the
                 \* command NAPI_DISABLE, "stopped"
  sched,         \* NAPI_STATE_SCHED of nf10_napi_struct
  n_rx,          \* the poll's count of packets (0 between polls)
  skb,           \* the poll's packet in hand, and its fate
  tx_packets,    \* stats.tx_packets of each interface
  rx_packets,    \* stats.rx_packets
  rx_dropped     \* stats.rx_dropped

ringVars == <<dma_cpu_bufs, flags, frames, tx_index, rx_index>>
rxStats  == <<rx_packets, rx_dropped>>
txVars   == <<lock, tx_skb, tx_packets>>
rxVars   == <<timer, sched, n_rx, skb, rxStats>>
lifeVars == <<phase, up, mem>>
vars     == <<lifeVars, ringVars, pc, txVars, rxVars>>

Slots    == 0 .. DMA_CPU_BUFS - 1
Timer    == 4      \* the contexts next to the senders
Poll     == 5
Contexts == Netdevs \cup {Timer, Poll}
Nobody   == -1     \* no sender holds the lock
Frames   == [opCode : 0..255, proto : {"ip", "other"}, flipped : BOOLEAN]
NoFrame  == [opCode |-> 0, proto |-> "none", flipped |-> FALSE]
NoSkb    == [frame |-> NoFrame, fate |-> "none"]

(* The ring position k after i. *)
Slot(i, k) == (i + k) % dma_cpu_bufs

(* if(++i == dma_cpu_bufs) i = 0; *)
Advance(i) == IF i + 1 = dma_cpu_bufs THEN 0 ELSE i + 1

Count(stat, i) == [stat EXCEPT ![i] = (@ + 1) % StatMod]
Goto(c, l) == pc' = [pc EXCEPT ![c] = l]

(* The CPU bits of an opcode are 0x02, 0x08, 0x20 and 0x80; the sender     *)
(* starts from opcode 0.                                                   *)
OPCODE_CPU(i) == CASE i = 0 -> 2 [] i = 1 -> 8 [] i = 2 -> 32 [] i = 3 -> 128
rx_set_dst_iface(i) == OPCODE_CPU(i)
rx_get_dst_iface(opcode) ==
  LET named == {i \in 0..3 : (opcode \div OPCODE_CPU(i)) % 2 = 1}
  IN IF named = {} THEN -1 ELSE CHOOSE i \in named : \A j \in named : i <= j

(***************************************************************************)
(* Module init and exit.                                                   *)
(***************************************************************************)
Init ==
  /\ phase = "init"
  /\ up = Netdevs
  /\ mem = "none"
  /\ dma_cpu_bufs = DMA_CPU_BUFS
  /\ flags = [i \in Slots |-> 0]
  /\ frames = [i \in Slots |-> NoFrame]
  /\ tx_index = 0 /\ rx_index = 0
  /\ lock = Nobody
  /\ pc = [c \in Contexts |-> "idle"]
  /\ tx_skb = [i \in Netdevs |-> NoFrame]
  /\ timer = "idle"
  /\ sched = FALSE
  /\ n_rx = 0
  /\ skb = NoSkb
  /\ tx_packets = [i \in Netdevs |-> 0]
  /\ rx_packets = [i \in Netdevs |-> 0] /\ rx_dropped = [i \in Netdevs |-> 0]

(* enable_ghosting: kmalloc fails and half as many buffers are tried, ... *)
GhostTryLess ==
  /\ phase = "init"
  /\ dma_cpu_bufs >= MIN_DMA_CPU_BUFS
  /\ dma_cpu_bufs' = dma_cpu_bufs \div 2
  /\ UNCHANGED <<lifeVars, flags, frames, tx_index, rx_index, pc, txVars,
                 rxVars>>

(* ... until there are too few: init fails, and undoes nothing.            *)
GhostNoMemory ==
  /\ phase = "init"
  /\ dma_cpu_bufs < MIN_DMA_CPU_BUFS
  /\ phase' = "failed"
  /\ UNCHANGED <<up, mem, ringVars, pc, txVars, rxVars>>

(* The ring is allocated and laid out, and the timer set.                  *)
GhostEnabled ==
  /\ phase = "init"
  /\ dma_cpu_bufs >= MIN_DMA_CPU_BUFS
  /\ phase' = "running"
  /\ mem' = "ok"
  /\ timer' = "pending"
  /\ UNCHANGED <<up, ringVars, pc, txVars, sched, n_rx, skb, rxStats>>

enable_ghosting == GhostTryLess \/ GhostNoMemory \/ GhostEnabled

(* napi_disable(): no more scheduling, ... *)
ExitNapi ==
  /\ phase = "running"
  /\ phase' = "napi"
  /\ UNCHANGED <<up, mem, ringVars, pc, txVars, rxVars>>

(* Defect: napi_disable() does not wait. *)
ExitNapiWaitSkipped ==
  /\ phase = "napi"
  /\ phase' = "del_timer"
  /\ UNCHANGED <<up, mem, ringVars, pc, txVars, rxVars>>

(* ... then wait for the scheduled poll.                                   *)
ExitNapiWait ==
  /\ phase = "napi"
  /\ ~sched
  /\ phase' = "del_timer"
  /\ UNCHANGED <<up, mem, ringVars, pc, txVars, rxVars>>

ExitDelTimer ==
  /\ phase = "del_timer"
  /\ timer' = "idle"
  /\ phase' = "genl"
  /\ UNCHANGED <<up, mem, ringVars, pc, txVars, sched, n_rx, skb, rxStats>>

(* genl_unregister_family(): no more commands.                             *)
ExitGenl ==
  /\ phase = "genl"
  /\ phase' = "unregister"
  /\ UNCHANGED <<up, mem, ringVars, pc, txVars, rxVars>>

(* unregister_netdev() of the next interface: nobody is sending on it once *)
(* it returns (external).                                                  *)
ExitUnregister ==
  /\ phase = "unregister"
  /\ \E i \in up : /\ \A j \in up : i <= j
                   /\ pc[i] = "idle"
                   /\ up' = up \ {i}
  /\ phase' = IF up' = {} THEN "disable" ELSE phase
  /\ UNCHANGED <<mem, ringVars, pc, txVars, rxVars>>

(* disable_ghosting: del_timer(), ... *)
GhostDelTimer ==
  /\ phase = "disable"
  /\ timer' = "idle"
  /\ phase' = "free"
  /\ UNCHANGED <<up, mem, ringVars, pc, txVars, sched, n_rx, skb, rxStats>>

(* ... then kfree() and the pointers are cleared.                          *)
GhostFree ==
  /\ phase = "free"
  /\ mem' = "freed"
  /\ phase' = "unloaded"
  /\ UNCHANGED <<up, ringVars, pc, txVars, rxVars>>

nf10_eth_driver_exit ==
  \/ ExitNapiWait \/ ExitDelTimer \/ ExitGenl \/ ExitUnregister
  \/ GhostDelTimer \/ GhostFree

(***************************************************************************)
(* nf10_ndo_start_xmit calls nf10_ghost_xmit.                              *)
(***************************************************************************)
(* The opcode names the partner; in an IP packet the last bit of the third *)
(* octet of both addresses is flipped and the checksum rebuilt.            *)
XmitEnter(i) ==
  /\ phase # "init" /\ phase # "failed" /\ i \in up
  /\ pc[i] = "idle"
  /\ \E p \in Protos[i] :
       tx_skb' = [tx_skb EXCEPT ![i] =
                    [opCode |-> rx_set_dst_iface(Partner(i)),
                     proto |-> p, flipped |-> p = "ip"]]
  /\ Goto(i, "lock")
  /\ UNCHANGED <<lifeVars, ringVars, lock, tx_packets, rxVars>>

(* Defect: the full ring returns without releasing the lock. *)
XmitFullKeepsLock(i) ==
  /\ pc[i] = "lock"
  /\ lock = Nobody
  /\ flags[tx_index] = 1
  /\ lock' = i
  /\ tx_skb' = [tx_skb EXCEPT ![i] = NoFrame]
  /\ Goto(i, "idle")
  /\ UNCHANGED <<lifeVars, ringVars, tx_packets, rxVars>>

(* Take the lock, find the ring full, release the lock, drop the packet.   *)
XmitFull(i) ==
  /\ pc[i] = "lock"
  /\ lock = Nobody
  /\ flags[tx_index] = 1
  /\ tx_skb' = [tx_skb EXCEPT ![i] = NoFrame]
  /\ Goto(i, "idle")
  /\ UNCHANGED <<lifeVars, ringVars, lock, tx_packets, rxVars>>

(* Defect: the lock is not waited for. *)
XmitCopyUnlocked(i) ==
  /\ pc[i] = "lock"
  /\ flags[tx_index] # 1
  /\ lock' = i
  /\ frames' = [frames EXCEPT ![tx_index] = tx_skb[i]]
  /\ Goto(i, "flag")
  /\ UNCHANGED <<lifeVars, dma_cpu_bufs, flags, tx_index, rx_index, tx_skb,
                 tx_packets, rxVars>>

(* Defect: the flag is not looked at before the buffer is filled. *)
XmitCopyUnchecked(i) ==
  /\ pc[i] = "lock"
  /\ lock = Nobody
  /\ lock' = i
  /\ frames' = [frames EXCEPT ![tx_index] = tx_skb[i]]
  /\ Goto(i, "flag")
  /\ UNCHANGED <<lifeVars, dma_cpu_bufs, flags, tx_index, rx_index, tx_skb,
                 tx_packets, rxVars>>

(* Take the lock, find the buffer empty, copy the packet into it and fill  *)
(* out the metadata.                                                       *)
XmitCopy(i) ==
  /\ pc[i] = "lock"
  /\ lock = Nobody
  /\ flags[tx_index] # 1
  /\ lock' = i
  /\ frames' = [frames EXCEPT ![tx_index] = tx_skb[i]]
  /\ Goto(i, "flag")
  /\ UNCHANGED <<lifeVars, dma_cpu_bufs, flags, tx_index, rx_index, tx_skb,
                 tx_packets, rxVars>>

XmitFlag(i) ==
  /\ pc[i] = "flag"
  /\ flags' = [flags EXCEPT ![tx_index] = 1]
  /\ Goto(i, "advance")
  /\ UNCHANGED <<lifeVars, dma_cpu_bufs, frames, tx_index, rx_index, txVars,
                 rxVars>>

(* Update the index, which only a holder of the lock reads, release the    *)
(* lock and count the packet, which only this sender does.                 *)
XmitFinish(i) ==
  /\ pc[i] = "advance"
  /\ tx_index' = Advance(tx_index)
  /\ lock' = Nobody
  /\ tx_packets' = Count(tx_packets, i)
  /\ tx_skb' = [tx_skb EXCEPT ![i] = NoFrame]
  /\ Goto(i, "idle")
  /\ UNCHANGED <<lifeVars, dma_cpu_bufs, flags, frames, rx_index, rxVars>>

nf10_ghost_xmit(i) == \/ XmitFull(i) \/ XmitCopy(i)
                      \/ XmitFlag(i) \/ XmitFinish(i)

(***************************************************************************)
(* rx_poll_timer_cb.  A callback that finds the ring gone does not come    *)
(* back; a schedule after napi_disable() has begun has no effect.          *)
(***************************************************************************)
TimerExpires ==
  /\ timer = "pending"
  /\ pc[Timer] = "idle"
  /\ timer' = "idle"
  /\ Goto(Timer, "check")
  /\ UNCHANGED <<lifeVars, ringVars, txVars, sched, n_rx, skb, rxStats>>

TimerCheck ==
  /\ pc[Timer] = "check"
  /\ Goto(Timer, IF mem # "ok" THEN "oops"
                 ELSE IF flags[rx_index] = 1 THEN "schedule" ELSE "rearm")
  /\ UNCHANGED <<lifeVars, ringVars, txVars, rxVars>>

(* Defect: the callback sets the timer again although it schedules. *)
TimerSchedulesAndRearms ==
  /\ pc[Timer] = "schedule"
  /\ sched' = (sched \/ phase = "running")
  /\ timer' = "pending"
  /\ Goto(Timer, "idle")
  /\ UNCHANGED <<lifeVars, ringVars, txVars, n_rx, skb, rxStats>>

TimerSchedules ==
  /\ pc[Timer] = "schedule"
  /\ sched' = (sched \/ phase = "running")
  /\ Goto(Timer, "idle")
  /\ UNCHANGED <<lifeVars, ringVars, txVars, timer, n_rx, skb, rxStats>>

TimerRearms ==
  /\ pc[Timer] = "rearm"
  /\ timer' = "pending"
  /\ Goto(Timer, "idle")
  /\ UNCHANGED <<lifeVars, ringVars, txVars, sched, n_rx, skb, rxStats>>

rx_poll_timer_cb == TimerCheck \/ TimerSchedules \/ TimerRearms

(***************************************************************************)
(* nf10_napi_struct_poll.                                                  *)
(***************************************************************************)
PollStart ==
  /\ sched
  /\ pc[Poll] = "idle"
  /\ Goto(Poll, "loop")
  /\ UNCHANGED <<lifeVars, ringVars, txVars, rxVars>>

PollLoop ==
  /\ pc[Poll] = "loop"
  /\ Goto(Poll, IF n_rx < Budget /\ flags[rx_index] = 1 THEN "take"
                                                        ELSE "end")
  /\ UNCHANGED <<lifeVars, ringVars, txVars, rxVars>>

(* An opcode without destination, no memory for an skb, or the packet goes *)
(* to the stack.                                                           *)
PollTake ==
  LET dst == rx_get_dst_iface(frames[rx_index].opCode) IN
  /\ pc[Poll] = "take"
  /\ \E fate \in IF dst < 0 THEN {"bad"} ELSE {"nomem", "deliver"} :
       /\ skb' = [frame |-> frames[rx_index], fate |-> fate]
       /\ rx_packets' = IF fate = "deliver" THEN Count(rx_packets, dst)
                                            ELSE rx_packets
  /\ Goto(Poll, "clear")
  /\ UNCHANGED <<lifeVars, ringVars, txVars, timer, sched, n_rx, rx_dropped>>

(* Mark the buffer as empty.  What it still holds is never read again, and *)
(* is forgotten here.                                                      *)
PollClear ==
  /\ pc[Poll] = "clear"
  /\ flags' = [flags EXCEPT ![rx_index] = 0]
  /\ frames' = [frames EXCEPT ![rx_index] = NoFrame]
  /\ Goto(Poll, "next")
  /\ UNCHANGED <<lifeVars, dma_cpu_bufs, tx_index, rx_index, txVars,
                 rxVars>>

PollNext ==
  /\ pc[Poll] = "next"
  /\ rx_index' = Advance(rx_index)
  /\ n_rx' = IF skb.fate = "deliver" THEN n_rx + 1 ELSE n_rx
  /\ rx_dropped' = IF skb.fate = "nomem"
                   THEN Count(rx_dropped, rx_get_dst_iface(skb.frame.opCode))
                   ELSE rx_dropped
  /\ skb' = NoSkb
  /\ Goto(Poll, "loop")
  /\ UNCHANGED <<lifeVars, dma_cpu_bufs, flags, frames, tx_index, txVars,
                 timer, sched, rx_packets>>

(* All slurped up: napi_complete(), ... *)
PollComplete ==
  /\ pc[Poll] = "end"
  /\ flags[rx_index] = 0
  /\ sched' = FALSE
  /\ n_rx' = 0
  /\ Goto(Poll, "rearm")
  /\ UNCHANGED <<lifeVars, ringVars, txVars, timer, skb, rxStats>>

(* ... then set the timer.                                                 *)
PollRearms ==
  /\ pc[Poll] = "rearm"
  /\ timer' = "pending"
  /\ Goto(Poll, "idle")
  /\ UNCHANGED <<lifeVars, ringVars, txVars, sched, n_rx, skb, rxStats>>

(* More left: stay scheduled, unless the budget is used up and a           *)
(* napi_disable() is waiting (the kernel then completes the poll itself).  *)
PollMore ==
  /\ pc[Poll] = "end"
  /\ flags[rx_index] # 0
  /\ sched' = ~(n_rx = Budget /\ phase = "napi")
  /\ n_rx' = 0
  /\ Goto(Poll, "idle")
  /\ UNCHANGED <<lifeVars, ringVars, txVars, timer, skb, rxStats>>

nf10_napi_struct_poll ==
  \/ PollLoop \/ PollTake \/ PollClear \/ PollNext
  \/ PollComplete \/ PollRearms \/ PollMore

(***************************************************************************)
(* The netlink commands, one at a time (genl_mutex).                       *)
(***************************************************************************)
(* Polling is driven by one token. *)
Driving(x) == CASE x = "pending" -> timer = "pending"
                [] x = "timer"   -> pc[Timer] # "idle"
                [] x = "poll"    -> sched \/ pc[Poll] # "idle"
Drivers == {"pending", "timer", "poll"}

(* From the end of init up to genl_unregister_family(). *)
Listening == phase \in {"running", "napi", "del_timer", "genl"}

(* del_timer(): a callback or poll that is under way is not stopped, and   *)
(* sets the timer again.                                                   *)
genl_cmd_napi_disable ==
  /\ Listening
  /\ timer' = IF timer = "pending" THEN "stopped" ELSE timer
  /\ UNCHANGED <<lifeVars, ringVars, pc, txVars, sched, n_rx, skb, rxStats>>

(* del_timer(), which finds nothing to delete, and add_timer().            *)
genl_cmd_napi_enable ==
  /\ Listening
  /\ \A x \in Drivers : ~Driving(x)
  /\ timer' = "pending"
  /\ UNCHANGED <<lifeVars, ringVars, pc, txVars, sched, n_rx, skb, rxStats>>

NapiCommand == genl_cmd_napi_enable \/ genl_cmd_napi_disable

-----------------------------------------------------------------------------
Next ==
  \/ enable_ghosting \/ ExitNapi \/ nf10_eth_driver_exit
  \/ \E i \in Netdevs : XmitEnter(i) \/ nf10_ghost_xmit(i)
  \/ TimerExpires \/ rx_poll_timer_cb
  \/ PollStart \/ nf10_napi_struct_poll
  \/ NapiCommand

(***************************************************************************)
(* Fairness.  What has been entered goes on; timers expire and softirqs    *)
(* run (kernel); the spinlock is a ticket lock, so a sender that waits for *)
(* it again and again gets it.  Nothing says that anything is sent, that   *)
(* init gets its memory, that the module is unloaded or that a command is  *)
(* given.                                                                  *)
(***************************************************************************)
Fairness ==
  /\ WF_vars(enable_ghosting) /\ WF_vars(nf10_eth_driver_exit)
  /\ \A i \in Netdevs : /\ WF_vars(nf10_ghost_xmit(i))
                        /\ SF_vars(XmitFull(i) \/ XmitCopy(i))
  /\ WF_vars(TimerExpires) /\ WF_vars(rx_poll_timer_cb)
  /\ WF_vars(PollStart) /\ WF_vars(nf10_napi_struct_poll)

Spec == Init /\ [][Next]_vars
FairSpec == Spec /\ Fairness

-----------------------------------------------------------------------------
(* Every variable keeps its type; the two buffer indices stay inside the   *)
(* ring that was really allocated.                                         *)
TypeOK ==
  /\ phase \in {"init", "failed", "running", "napi", "del_timer",
                "genl", "unregister", "disable", "free", "unloaded"}
  /\ up \subseteq Netdevs
  /\ mem \in {"none", "ok", "freed"}
  /\ dma_cpu_bufs \in 0 .. DMA_CPU_BUFS
  /\ mem = "ok" => /\ dma_cpu_bufs >= MIN_DMA_CPU_BUFS
                   /\ tx_index < dma_cpu_bufs /\ rx_index < dma_cpu_bufs
  /\ flags \in [Slots -> {0, 1}]
  /\ \A i \in Slots : frames[i] \in Frames \cup {NoFrame}
  /\ tx_index \in Slots /\ rx_index \in Slots
  /\ lock \in Netdevs \cup {Nobody}
  /\ \A i \in Netdevs :
       /\ pc[i] \in {"idle", "lock", "flag", "advance"}
       /\ tx_skb[i] \in Frames \cup {NoFrame}
  /\ pc[Timer] \in {"idle", "check", "schedule", "rearm", "oops"}
  /\ pc[Poll] \in {"idle", "loop", "take", "clear", "next", "end", "rearm"}
  /\ timer \in {"idle", "pending", "stopped"}
  /\ sched \in BOOLEAN
  /\ n_rx \in 0 .. Budget
  /\ skb.frame \in Frames \cup {NoFrame}
  /\ skb.fate \in {"none", "bad", "nomem", "deliver"}
  /\ \A s \in {tx_packets, rx_packets, rx_dropped} :
       s \in [Netdevs -> 0 .. StatMod - 1]

(* Where the poll and the sender at work will be when their index update   *)
(* is done, and the full buffers.                                          *)
Oldest == IF pc[Poll] = "next" THEN Slot(rx_index, 1) ELSE rx_index
Newest == IF \E i \in Netdevs : pc[i] = "advance" THEN Slot(tx_index, 1)
                                                  ELSE tx_index
Filled == Cardinality({i \in Slots : flags[i] = 1})

(* The two streams are one ring: although each has an index of its own,    *)
(* and the poll takes no lock, the full buffers are those from the         *)
(* receiver's index up to the sender's.                                    *)
RingAgrees ==
  mem = "ok" =>
    /\ Filled <= dma_cpu_bufs
    /\ Newest = Slot(Oldest, Filled)
    /\ \A k \in 0 .. dma_cpu_bufs - 1 :
         flags[Slot(Oldest, k)] = 1 <=> k < Filled

(* The shared ring is sound: types, and both sides agree on what is full.  *)
RingSound == TypeOK /\ RingAgrees

(* disable_ghosting frees the ring only when no sender and no poll is      *)
(* using it, and an interface is not freed under the poll that delivers to *)
(* it.  (The timer callback has no such protection: see LifeExitRace.)     *)
RingOutlivesUsers ==
  /\ \A i \in Netdevs :
       pc[i] # "idle" => mem = "ok" /\ i \in up
  /\ pc[Poll] \in {"loop", "take", "clear", "next", "end"} =>
       mem = "ok" /\ up = Netdevs

(* There is never more than one token (add_timer() on a pending timer is a *)
(* kernel BUG), and it is not lost before the module is unloaded but by    *)
(* the command NAPI_DISABLE.                                               *)
OneDriver ==
  /\ \A x, y \in Drivers : Driving(x) /\ Driving(y) => x = y
  /\ phase = "running" /\ timer # "stopped" => \E x \in Drivers : Driving(x)

(* The frames in the ring, oldest first, on their way to an interface. *)
Queue == [k \in 1 .. Filled |-> frames[Slot(Oldest, k - 1)]]
IsFor(f, d) == rx_get_dst_iface(f.opCode) = d
One(b) == IF b THEN 1 ELSE 0

(* Every packet counted as sent is received by the partner of its sender,  *)
(* dropped there for want of memory, or still in the ring.                 *)
PairAccount ==
  mem = "ok" =>
  \A i \in Netdevs :
    LET d == CHOOSE j \in Netdevs : j # i /\ j \div 2 = i \div 2
        sent == tx_packets[i] + One(pc[i] = "advance")
        waiting == Cardinality({k \in 1 .. Filled : IsFor(Queue[k], d)})
        early == One(pc[Poll] = "clear" /\ skb.fate = "deliver"
                       /\ IsFor(skb.frame, d))
        late == One(pc[Poll] = "next" /\ skb.fate = "nomem"
                       /\ IsFor(skb.frame, d))
    IN (sent + early) % StatMod
         = (rx_packets[d] + rx_dropped[d] + waiting + late) % StatMod

(* The ring is a FIFO of well-formed frames: each names its destination,   *)
(* and addresses are flipped in IP packets and in no other.  No frame is   *)
(* lost, duplicated, reordered or overwritten in it.                       *)
GoodFrames ==
  {f \in [opCode : {rx_set_dst_iface(i) : i \in Netdevs},
          proto : {"ip", "other"}, flipped : BOOLEAN]
     : f.flipped = (f.proto = "ip")}
Fifo == INSTANCE PacketFifo WITH Frame <- GoodFrames,
                                 Capacity <- DMA_CPU_BUFS, queue <- Queue
RingIsFifo == Fifo!Spec

(* Until the module is unloaded or the polling stopped by command, every   *)
(* frame leaves the ring.                                                  *)
FramesLeave ==
  \A i \in Slots : flags[i] = 1 ~>
    flags[i] = 0 \/ timer = "stopped" \/ phase # "running"

(* Every call of nf10_ghost_xmit returns.                                  *)
CallsReturn == \A i \in Netdevs : pc[i] # "idle" ~> pc[i] = "idle"

(* Unloading ends when the senders fall silent: napi_disable() waits for a *)
(* poll that completes, and unregister_netdev() for a sender that returns. *)
UnloadEnds ==
  <>[](\A i \in Netdevs : pc[i] = "idle")
    => (phase = "napi" ~> phase = "unloaded")

(* Nobody is stuck in ghost mode: frames leave the ring, calls return and  *)
(* the unloading ends.                                                     *)
Progress == FramesLeave /\ CallsReturn /\ UnloadEnds
=============================================================================
