------------------------------- MODULE TxDma --------------------------------
(***************************************************************************)
(* The transmit path of the NetFPGA-10G Ethernet driver                    *)
(* (nf10_eth_driver_main.c): the ring of DMA buffers in tx_dma_stream, the *)
(* two functions that fill it, and the hardware that empties it.           *)
(*                                                                         *)
(*   nf10_ndo_start_xmit  one caller per network device at a time (the     *)
(*                        kernel's per-queue transmit lock); fills a       *)
(*                        buffer under tx_dma_region_spinlock.             *)
(*   genl_cmd_dma_tx      the DMA_TX generic netlink command; one caller   *)
(*                        at a time (the kernel's genl_mutex); fills a     *)
(*                        buffer WITHOUT taking tx_dma_region_spinlock.    *)
(*   dataplane worker 0   (external hardware) counts doorbell writes, pulls*)
(*                        that many buffers in ring order and writes flag  *)
(*                        1 into each when it is done with it.             *)
(*                                                                         *)
(* A frame is abstracted to its sender and its length: what is copied into *)
(* a buffer is told apart from what another sender or another call copies. *)
(***************************************************************************)
EXTENDS Integers, Sequences, FiniteSets

CONSTANTS
  DMA_CPU_BUFS,  \* number of buffers in the ring (dma_cpu_bufs)
  Netdevs,       \* interface numbers of the network devices, a subset of 0..3
  Apps,          \* processes that send the DMA_TX netlink command
  Lengths,       \* lengths of the packets and messages offered
  AppOpcodes,    \* opcodes the processes ask for
  Overlap,       \* may network devices and processes send at the same time
  StatMod,       \* modulus of the interface statistics (2^BITS_PER_LONG)
  NoOwner        \* stands for "nobody"

(* MIN_DMA_CPU_BUFS is 1: probe() gives up below that. *)
ASSUME BufsAssumption == DMA_CPU_BUFS \in Nat \ {0}
ASSUME SenderAssumption == /\ Netdevs \subseteq 0..3
                           /\ Apps \cap Netdevs = {}
                           /\ NoOwner \notin Netdevs \cup Apps
ASSUME DataAssumption == /\ Lengths \subseteq Nat
                         /\ AppOpcodes \subseteq Nat
                         /\ StatMod \in Nat \ {0}
                         /\ Overlap \in BOOLEAN

VARIABLES
  flags,        \* tx_dma_stream.flags: 0 is full, anything else is free
  buffers,      \* tx_dma_stream.buffers: the bytes in each buffer
  metadata,     \* tx_dma_stream.metadata: length and opCode of each buffer
  buf_index,    \* tx_dma_stream.buf_index
  hw_state,     \* subset of {HW_FOUND, HW_INIT}
  owner,        \* holder of tx_dma_region_spinlock and of genl_mutex
  pc,           \* where each sender is in its function
  req,          \* data, len and opcode: the locals of each sender
  credits,      \* doorbell writes the hardware has not served yet
  hw_index,     \* ring position the hardware serves next
  hw_frame,     \* frame the hardware is reading, or NoFrame
  tx_packets,   \* netdev->stats.tx_packets of each network device
  tx_dropped,   \* netdev->stats.tx_dropped of each network device
  wire          \* frames of each device the hardware has taken (mod StatMod)

ringVars == <<flags, buffers, metadata, buf_index>>
hwVars   == <<credits, hw_index, hw_frame, wire>>
statVars == <<tx_packets, tx_dropped>>
vars     == <<ringVars, hw_state, owner, pc, req, hwVars, statVars>>

NF10_PKT_SIZE_MIN == 33
NF10_PKT_SIZE_MAX == 1514
DMA_BUF_SIZE      == 2048

Slots   == 0 .. DMA_CPU_BUFS - 1
Senders == Netdevs \cup Apps
Locks   == {"tx_dma_region_spinlock", "genl_mutex"}

NoFrame == [src |-> NoOwner, bytes |-> 0, length |-> 0, opCode |-> 0]

(* Sender s does its work on the ring under this lock. *)
LockOf(s) == IF s \in Netdevs THEN "tx_dma_region_spinlock" ELSE "genl_mutex"

(* The k-th ring position after i, for k in 0..DMA_CPU_BUFS. *)
Slot(i, k) == IF i + k < DMA_CPU_BUFS THEN i + k ELSE i + k - DMA_CPU_BUFS

(* tx_set_src_iface() on a zero opcode: one bit names the source interface.*)
tx_set_src_iface(iface) == CASE iface = 0 -> 2
                             [] iface = 1 -> 8
                             [] iface = 2 -> 32
                             [] iface = 3 -> 128

(* What the hardware finds in buffer i. *)
FrameAt(i) == [src    |-> buffers[i].src,     bytes  |-> buffers[i].bytes,
               length |-> metadata[i].length, opCode |-> metadata[i].opCode]

(* Locations of the code that works on the ring. *)
InRegion == {"check", "copy", "meta", "flag", "doorbell", "index", "wrap",
             "unlock"}

(***************************************************************************)
(* Before anything is sent probe() has found the card, laid out the ring   *)
(* with every flag non-zero (free) and started the workers.                *)
(***************************************************************************)
Init ==
  /\ flags = [i \in Slots |-> 1]
  /\ buffers = [i \in Slots |-> [src |-> NoOwner, bytes |-> 0]]
  /\ metadata = [i \in Slots |-> [length |-> 0, opCode |-> 0]]
  /\ buf_index = 0
  /\ hw_state = {}
  /\ owner = [l \in Locks |-> NoOwner]
  /\ pc = [s \in Senders |-> "idle"]
  /\ req = [s \in Senders |-> [len |-> 0, opCode |-> 0]]
  /\ credits = 0
  /\ hw_index = 0
  /\ hw_frame = NoFrame
  /\ tx_packets = [d \in Netdevs |-> 0]
  /\ tx_dropped = [d \in Netdevs |-> 0]
  /\ wire = [d \in Netdevs |-> 0]

(***************************************************************************)
(* probe(): network devices exist, and may transmit, before the card has   *)
(* been found and before its workers run.                                  *)
(***************************************************************************)
ProbeFinds ==
  /\ hw_state = {}
  /\ hw_state' = {"HW_FOUND"}
  /\ UNCHANGED <<ringVars, owner, pc, req, hwVars, statVars>>

ProbeStarts ==
  /\ hw_state = {"HW_FOUND"}
  /\ hw_state' = hw_state \cup {"HW_INIT"}
  /\ UNCHANGED <<ringVars, owner, pc, req, hwVars, statVars>>

HwUp == hw_state = {"HW_FOUND", "HW_INIT"}

(***************************************************************************)
(* nf10_ndo_start_xmit() up to the lock.                                   *)
(***************************************************************************)
Sendable(len) == /\ len >= NF10_PKT_SIZE_MIN
                 /\ len <= NF10_PKT_SIZE_MAX
                 /\ len <= DMA_BUF_SIZE

(* The driver lets the two functions run at the same time (Overlap).  A    *)
(* cautious administrator uses DMA_TX only while the interfaces are quiet. *)
MayEnter(s) ==
  Overlap \/ \A t \in Senders : LockOf(t) # LockOf(s) => pc[t] = "idle"

XmitReject(d) ==
  /\ pc[d] = "idle"
  /\ \E len \in Lengths : ~Sendable(len) \/ ~HwUp
  /\ tx_dropped' = [tx_dropped EXCEPT ![d] = (@ + 1) % StatMod]
  /\ UNCHANGED <<ringVars, hw_state, owner, pc, req, hwVars, tx_packets>>

XmitEnter(d) ==
  /\ pc[d] = "idle"
  /\ MayEnter(d)
  /\ HwUp
  /\ \E len \in Lengths :
       /\ Sendable(len)
       /\ req' = [req EXCEPT ![d] = [len    |-> len,
                                     opCode |-> tx_set_src_iface(d)]]
  /\ pc' = [pc EXCEPT ![d] = "lock"]
  /\ UNCHANGED <<ringVars, hw_state, owner, hwVars, statVars>>

(* Defect: the lock is not waited for. *)
XmitLockUnguarded(d) ==
  /\ pc[d] = "lock"
  /\ owner' = [owner EXCEPT ![LockOf(d)] = d]
  /\ pc' = [pc EXCEPT ![d] = "check"]
  /\ UNCHANGED <<ringVars, hw_state, req, hwVars, statVars>>

XmitLock(d) ==
  /\ pc[d] = "lock"
  /\ owner[LockOf(d)] = NoOwner
  /\ owner' = [owner EXCEPT ![LockOf(d)] = d]
  /\ pc' = [pc EXCEPT ![d] = "check"]
  /\ UNCHANGED <<ringVars, hw_state, req, hwVars, statVars>>

(* Defect: a packet dropped on a full ring is counted as sent. *)
XmitFullCounted(d) ==
  /\ pc[d] = "check"
  /\ flags[buf_index] = 0
  /\ tx_dropped' = [tx_dropped EXCEPT ![d] = (@ + 1) % StatMod]
  /\ pc' = [pc EXCEPT ![d] = "unlock"]
  /\ UNCHANGED <<ringVars, hw_state, owner, req, hwVars, tx_packets>>

(* The ring is full: drop the packet, release the lock, return. *)
XmitFull(d) ==
  /\ pc[d] = "check"
  /\ flags[buf_index] = 0
  /\ tx_dropped' = [tx_dropped EXCEPT ![d] = (@ + 1) % StatMod]
  /\ owner' = [owner EXCEPT ![LockOf(d)] = NoOwner]
  /\ pc' = [pc EXCEPT ![d] = "idle"]
  /\ UNCHANGED <<ringVars, hw_state, req, hwVars, tx_packets>>

XmitUnlock(d) ==
  /\ pc[d] = "unlock"
  /\ owner' = [owner EXCEPT ![LockOf(d)] = NoOwner]
  /\ pc' = [pc EXCEPT ![d] = "stats"]
  /\ UNCHANGED <<ringVars, hw_state, req, hwVars, statVars>>

(* Update the statistics, free the skb and return. *)
XmitStats(d) ==
  /\ pc[d] = "stats"
  /\ tx_packets' = [tx_packets EXCEPT ![d] = (@ + 1) % StatMod]
  /\ pc' = [pc EXCEPT ![d] = "idle"]
  /\ UNCHANGED <<ringVars, hw_state, owner, req, hwVars, tx_dropped>>

(***************************************************************************)
(* genl_cmd_dma_tx() around the ring work.  A message without both         *)
(* attributes is ignored, which changes nothing.  The command is sent only *)
(* to an initialised card: the function does not check.                    *)
(***************************************************************************)
GenlEnter(a) ==
  /\ pc[a] = "idle"
  /\ MayEnter(a)
  /\ HwUp
  /\ owner[LockOf(a)] = NoOwner
  /\ owner' = [owner EXCEPT ![LockOf(a)] = a]
  /\ \E len \in Lengths, op \in AppOpcodes :
       req' = [req EXCEPT ![a] =
                 [len |-> IF len > DMA_BUF_SIZE THEN DMA_BUF_SIZE ELSE len,
                  opCode |-> op]]
  /\ pc' = [pc EXCEPT ![a] = "check"]
  /\ UNCHANGED <<ringVars, hw_state, hwVars, statVars>>

GenlFull(a) ==
  /\ pc[a] = "check"
  /\ flags[buf_index] = 0
  /\ owner' = [owner EXCEPT ![LockOf(a)] = NoOwner]
  /\ pc' = [pc EXCEPT ![a] = "idle"]
  /\ UNCHANGED <<ringVars, hw_state, req, hwVars, statVars>>

GenlReturn(a) ==
  /\ pc[a] = "unlock"
  /\ owner' = [owner EXCEPT ![LockOf(a)] = NoOwner]
  /\ pc' = [pc EXCEPT ![a] = "idle"]
  /\ UNCHANGED <<ringVars, hw_state, req, hwVars, statVars>>

(***************************************************************************)
(* The ring work itself, statement by statement; the same sequence is in   *)
(* both functions.  Every statement reads the shared buf_index again.      *)
(***************************************************************************)
FoundFree(s) ==
  /\ pc[s] = "check"
  /\ flags[buf_index] # 0
  /\ pc' = [pc EXCEPT ![s] = "copy"]
  /\ UNCHANGED <<ringVars, hw_state, owner, req, hwVars, statVars>>

CopyMessage(s) ==
  /\ pc[s] = "copy"
  /\ buffers' = [buffers EXCEPT ![buf_index] = [src   |-> s,
                                                bytes |-> req[s].len]]
  /\ pc' = [pc EXCEPT ![s] = "meta"]
  /\ UNCHANGED <<flags, metadata, buf_index, hw_state, owner, req, hwVars,
                 statVars>>

(* Defect: the opcode of the previous frame is left in place. *)
FillMetadataStaleOpcode(s) ==
  /\ pc[s] = "meta"
  /\ metadata' = [metadata EXCEPT ![buf_index] = [length |-> req[s].len,
                                                  opCode |-> @.opCode]]
  /\ pc' = [pc EXCEPT ![s] = "flag"]
  /\ UNCHANGED <<flags, buffers, buf_index, hw_state, owner, req, hwVars,
                 statVars>>

FillMetadata(s) ==
  /\ pc[s] = "meta"
  /\ metadata' = [metadata EXCEPT ![buf_index] = [length |-> req[s].len,
                                                  opCode |-> req[s].opCode]]
  /\ pc' = [pc EXCEPT ![s] = "flag"]
  /\ UNCHANGED <<flags, buffers, buf_index, hw_state, owner, req, hwVars,
                 statVars>>

MarkFull(s) ==
  /\ pc[s] = "flag"
  /\ flags' = [flags EXCEPT ![buf_index] = 0]
  /\ pc' = [pc EXCEPT ![s] = "doorbell"]
  /\ UNCHANGED <<buffers, metadata, buf_index, hw_state, owner, req, hwVars,
                 statVars>>

(* Defect: the doorbell is rung twice. *)
RingDoorbellTwice(s) ==
  /\ pc[s] = "doorbell"
  /\ credits' = credits + 2
  /\ pc' = [pc EXCEPT ![s] = "index"]
  /\ UNCHANGED <<ringVars, hw_state, owner, req, hw_index, hw_frame, wire,
                 statVars>>

(* Defect: the doorbell is not rung. *)
RingDoorbellForgotten(s) ==
  /\ pc[s] = "doorbell"
  /\ credits' = credits
  /\ pc' = [pc EXCEPT ![s] = "index"]
  /\ UNCHANGED <<ringVars, hw_state, owner, req, hw_index, hw_frame, wire,
                 statVars>>

RingDoorbell(s) ==
  /\ pc[s] = "doorbell"
  /\ credits' = credits + 1
  /\ pc' = [pc EXCEPT ![s] = "index"]
  /\ UNCHANGED <<ringVars, hw_state, owner, req, hw_index, hw_frame, wire,
                 statVars>>

(* if(++buf_index == dma_cpu_bufs) buf_index = 0; is two stores. *)
AdvanceIndex(s) ==
  /\ pc[s] = "index"
  /\ buf_index' = buf_index + 1
  /\ pc' = [pc EXCEPT ![s] = IF buf_index' = DMA_CPU_BUFS THEN "wrap"
                                                          ELSE "unlock"]
  /\ UNCHANGED <<flags, buffers, metadata, hw_state, owner, req, hwVars,
                 statVars>>

(* Defect: the index wraps to the wrong buffer. *)
WrapIndexToOne(s) ==
  /\ pc[s] = "wrap"
  /\ buf_index' = 1
  /\ pc' = [pc EXCEPT ![s] = "unlock"]
  /\ UNCHANGED <<flags, buffers, metadata, hw_state, owner, req, hwVars,
                 statVars>>

WrapIndex(s) ==
  /\ pc[s] = "wrap"
  /\ buf_index' = 0
  /\ pc' = [pc EXCEPT ![s] = "unlock"]
  /\ UNCHANGED <<flags, buffers, metadata, hw_state, owner, req, hwVars,
                 statVars>>

RingWork(s) ==
  \/ FoundFree(s) \/ CopyMessage(s) \/ FillMetadata(s) \/ MarkFull(s)
  \/ RingDoorbell(s) \/ AdvanceIndex(s) \/ WrapIndex(s)

(* Every step of the function that comes after its first. *)
nf10_ndo_start_xmit(d) == XmitFull(d) \/ RingWork(d) \/ XmitUnlock(d)
                          \/ XmitStats(d)
genl_cmd_dma_tx(a) == GenlFull(a) \/ RingWork(a) \/ GenlReturn(a)

(***************************************************************************)
(* Dataplane worker 0, an OCDP consumer in active message mode (external). *)
(***************************************************************************)
HwFetch ==
  /\ credits > 0
  /\ hw_frame = NoFrame
  /\ hw_frame' = FrameAt(hw_index)
  /\ UNCHANGED <<ringVars, hw_state, owner, pc, req, credits, hw_index, wire,
                 statVars>>

HwRelease ==
  /\ hw_frame # NoFrame
  /\ flags' = [flags EXCEPT ![hw_index] = 1]
  /\ hw_index' = Slot(hw_index, 1)
  /\ credits' = credits - 1
  /\ wire' = IF hw_frame.src \in Netdevs
             THEN [wire EXCEPT ![hw_frame.src] = (@ + 1) % StatMod]
             ELSE wire
  /\ hw_frame' = NoFrame
  /\ UNCHANGED <<buffers, metadata, buf_index, hw_state, owner, pc, req,
                 statVars>>

-----------------------------------------------------------------------------
Next ==
  \/ ProbeFinds
  \/ ProbeStarts
  \/ \E d \in Netdevs : \/ XmitReject(d) \/ XmitEnter(d) \/ XmitLock(d)
                        \/ nf10_ndo_start_xmit(d)
  \/ \E a \in Apps : GenlEnter(a) \/ genl_cmd_dma_tx(a)
  \/ HwFetch
  \/ HwRelease

(***************************************************************************)
(* Fairness.  The kernel does not abandon a function half way; the kernel's*)
(* spinlocks are ticket locks, so a waiter gets its turn; the card serves  *)
(* its doorbells.  Nothing says that anybody sends, or that a card is ever *)
(* found.                                                                  *)
(***************************************************************************)
Fairness ==
  /\ \A d \in Netdevs : /\ SF_vars(XmitLock(d))
                        /\ WF_vars(nf10_ndo_start_xmit(d))
  /\ \A a \in Apps : WF_vars(genl_cmd_dma_tx(a))
  /\ WF_vars(HwFetch)
  /\ WF_vars(HwRelease)

Spec == Init /\ [][Next]_vars
FairSpec == Spec /\ Fairness

-----------------------------------------------------------------------------
MsgLengths == Lengths \cup {DMA_BUF_SIZE, 0}
Opcodes    == AppOpcodes \cup {tx_set_src_iface(i) : i \in 0..3} \cup {0}
Frames     == [src : Senders \cup {NoOwner}, bytes : MsgLengths,
               length : MsgLengths, opCode : Opcodes]

(* A frame is whole when its length is that of its bytes, it fits its      *)
(* buffer and, if a network device sent it, it carries that device's       *)
(* source interface bit.                                                   *)
Whole(f) == /\ f.src \in Senders
            /\ f.length = f.bytes
            /\ f.bytes <= DMA_BUF_SIZE
            /\ f.src \in Netdevs => f.opCode = tx_set_src_iface(f.src)

(* Every variable keeps its type; the index leaves the ring only between   *)
(* the two stores that wrap it.                                            *)
TypeOK ==
  /\ flags \in [Slots -> {0, 1}]
  /\ buffers \in [Slots -> [src : Senders \cup {NoOwner}, bytes : MsgLengths]]
  /\ metadata \in [Slots -> [length : MsgLengths, opCode : Opcodes]]
  /\ buf_index \in 0 .. DMA_CPU_BUFS
  /\ hw_state \in SUBSET {"HW_FOUND", "HW_INIT"}
  /\ owner \in [Locks -> Senders \cup {NoOwner}]
  /\ pc \in [Senders -> InRegion \cup {"idle", "lock", "stats"}]
  /\ req \in [Senders -> [len : MsgLengths, opCode : Opcodes]]
  /\ credits \in 0 .. DMA_CPU_BUFS
  /\ hw_index \in Slots
  /\ hw_frame \in Frames
  /\ tx_packets \in [Netdevs -> 0 .. StatMod - 1]
  /\ tx_dropped \in [Netdevs -> 0 .. StatMod - 1]
  /\ wire \in [Netdevs -> 0 .. StatMod - 1]

(* "Need a locking mechanism to control concurrent access to each DMA      *)
(* region": no two senders are at work on the transmit ring at once.       *)
TxExclusion ==
  \A s, t \in Senders :
    pc[s] \in InRegion /\ pc[t] \in InRegion => s = t

(* Some sender is at location l. *)
At(l) == \E s \in Senders : pc[s] = l

(* Where the next frame goes, once whoever is advancing buf_index is done. *)
NextIndex == IF At("index") THEN Slot(buf_index, 1)
             ELSE IF At("wrap") THEN 0
             ELSE buf_index

(* Buffers marked full: one per doorbell not served, and the one between   *)
(* its flag store and its doorbell.                                        *)
Committed == credits + IF At("doorbell") THEN 1 ELSE 0

(* The full/free flags, the driver's index, the hardware's index and the   *)
(* doorbell count always agree: the full buffers are exactly the Committed *)
(* ones from hw_index on, and the driver continues right behind them.  So  *)
(* flags[buf_index] == 0 really means that the ring is full.               *)
RingAgrees ==
  /\ Committed <= DMA_CPU_BUFS
  /\ NextIndex = Slot(hw_index, credits)
  /\ \A k \in 0 .. DMA_CPU_BUFS - 1 :
       flags[Slot(hw_index, k)] = 0 <=> k < Committed

(* The transmit ring is sound: every variable has its type, and flags, the *)
(* driver's index, the hardware's index and the doorbells agree on which   *)
(* buffers are full, at every store of nf10_ndo_start_xmit.                *)
RingSound == TypeOK /\ RingAgrees

(* Every buffer the hardware has been told about holds one whole frame,    *)
(* and what the hardware is reading is still what the buffer holds.        *)
FramesWhole ==
  /\ \A k \in 0 .. credits - 1 : Whole(FrameAt(Slot(hw_index, k)))
  /\ hw_frame # NoFrame => credits > 0 /\ hw_frame = FrameAt(hw_index)

(* A sender is at work on the ring exactly while it holds its lock. *)
LockHeld ==
  \A s \in Senders : pc[s] \in InRegion <=> owner[LockOf(s)] = s

(* Senders with different locks are apart if they are meant to be. *)
Apart == ~Overlap => \A s, t \in Senders : LockOf(s) # LockOf(t)
                                       => pc[s] = "idle" \/ pc[t] = "idle"

(* Between its check and its flag store a sender has a free buffer, and    *)
(* the index is outside the ring only between the two wrapping stores.     *)
IndexHeld ==
  /\ At("wrap") <=> buf_index = DMA_CPU_BUFS
  /\ At("copy") \/ At("meta") \/ At("flag") => flags[buf_index] # 0

(* What a sender is about to hand over is whole. *)
InProgress ==
  \A s \in Senders :
    /\ pc[s] \in InRegion \cup {"lock"} =>
         /\ req[s].len <= DMA_BUF_SIZE
         /\ s \in Netdevs => req[s].opCode = tx_set_src_iface(s)
    /\ pc[s] \in {"meta", "flag", "doorbell"} =>
         buffers[buf_index] = [src |-> s, bytes |-> req[s].len]
    /\ pc[s] \in {"flag", "doorbell"} =>
         metadata[buf_index] = [length |-> req[s].len,
                                opCode |-> req[s].opCode]

(* The inductive invariant. *)
IInv == /\ TypeOK
        /\ LockHeld
        /\ Apart
        /\ IndexHeld
        /\ RingAgrees
        /\ InProgress
        /\ FramesWhole

(* The frames in the ring, oldest first. *)
Queue == [k \in 1 .. credits |-> FrameAt(Slot(hw_index, k - 1))]

(* The statistics tell the truth: what nf10_ndo_start_xmit has counted as  *)
(* transmitted, or is about to, is what the hardware took plus what it has *)
(* still to take.                                                          *)
StatsAccount ==
  \A d \in Netdevs :
    (tx_packets[d] + (IF pc[d] \in {"index", "wrap", "unlock", "stats"}
                      THEN 1 ELSE 0)) % StatMod
      = (wire[d] + Cardinality({k \in 1 .. credits : Queue[k].src = d}))
          % StatMod

(* The transmit ring is a FIFO of whole frames: none is lost, duplicated,  *)
(* reordered or overwritten between the doorbell and the hardware.         *)
Fifo == INSTANCE PacketFifo WITH Frame <- {f \in Frames : Whole(f)},
                                 Capacity <- DMA_CPU_BUFS, queue <- Queue
TxIsFifo == Fifo!Spec

(* Every call that has entered returns: no path out of the functions keeps *)
(* the lock, and nobody waits for it for ever.                             *)
CallsReturn == \A s \in Senders : pc[s] # "idle" ~> pc[s] = "idle"

(* A full buffer comes back: a full ring cannot make the driver drop every *)
(* later packet.                                                           *)
BuffersComeBack == \A i \in Slots : flags[i] = 0 ~> flags[i] # 0

(* Nobody is stuck: every call of nf10_ndo_start_xmit and genl_cmd_dma_tx  *)
(* returns, a full ring and a contended lock included, and the hardware    *)
(* gives back every buffer the driver has filled.                          *)
Progress == CallsReturn /\ BuffersComeBack
=============================================================================
