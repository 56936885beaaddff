---------------------------- MODULE TxDmaProofs -----------------------------
(***************************************************************************)
(* Proofs about TxDma, for every number of buffers, every set of network   *)
(* devices and of processes, all lengths and opcodes: as long as the two   *)
(* interfaces of the ring are not in use at the same time, the inductive   *)
(* invariant IInv holds, and with it type correctness, mutual exclusion,   *)
(* agreement of the driver and the hardware about the ring, integrity of   *)
(* frames, and statistics that tell the truth.                             *)
(***************************************************************************)
EXTENDS TxDma, SequenceTheorems, QueueCounting, TLAPS

(* At any time nf10_ndo_start_xmit or genl_cmd_dma_tx is in use, not both. *)
OneInterface == ~Overlap

-----------------------------------------------------------------------------
(* Ring arithmetic: walking the ring stays in the ring. *)
LEMMA SlotType ==
  ASSUME NEW i \in Slots, NEW k \in 0 .. DMA_CPU_BUFS
  PROVE  Slot(i, k) \in Slots
BY BufsAssumption DEF Slot, Slots

(* Ring arithmetic: fewer than DMA_CPU_BUFS steps reach distinct buffers. *)
LEMMA SlotInjective ==
  ASSUME NEW i \in Slots, NEW j \in 0 .. DMA_CPU_BUFS - 1,
         NEW k \in 0 .. DMA_CPU_BUFS - 1, Slot(i, j) = Slot(i, k)
  PROVE  j = k
BY BufsAssumption DEF Slot, Slots

(* Ring arithmetic: k steps from the next buffer are k + 1 steps. *)
LEMMA SlotShift ==
  ASSUME NEW i \in Slots, NEW k \in 0 .. DMA_CPU_BUFS - 1
  PROVE  /\ Slot(Slot(i, 1), k) = Slot(i, k + 1)
         /\ Slot(Slot(i, k), 1) = Slot(i, k + 1)
BY BufsAssumption DEF Slot, Slots

(* Ring arithmetic: no step and a whole turn come back to the start. *)
LEMMA SlotTurn ==
  ASSUME NEW i \in Slots
  PROVE  Slot(i, 0) = i /\ Slot(i, DMA_CPU_BUFS) = i
BY BufsAssumption DEF Slot, Slots

-----------------------------------------------------------------------------
(* The network devices share a lock, the users of the DMA_TX command share *)
(* genl_mutex, and the two kinds are apart: LockHeld gives exclusion.      *)
LEMMA Alone ==
  ASSUME OneInterface, LockHeld, Apart, NEW s \in Senders, NEW t \in Senders,
         pc[s] \in InRegion, pc[t] \in InRegion
  PROVE  s = t
<1>1. LockOf(s) = LockOf(t)
  BY DEF OneInterface, Apart, InRegion
<1> QED BY <1>1 DEF LockHeld

(* The initial state satisfies the invariant. *)
LEMMA InitIInv == Init => IInv
<1> SUFFICES ASSUME Init PROVE IInv
  OBVIOUS
<1>1. TypeOK
  BY BufsAssumption, DataAssumption
  DEF Init, TypeOK, Slots, Locks, NoFrame, Frames, MsgLengths, Opcodes
<1>2. /\ \A l \in InRegion : ~At(l)
      /\ Committed = 0
      /\ NextIndex = 0
  BY DEF Init, At, InRegion, Committed, NextIndex
<1>3. LockHeld
  BY SenderAssumption DEF Init, LockHeld, LockOf, Locks, InRegion, Senders
<1>8. Apart
  BY DEF Init, Apart
<1>4. IndexHeld
  BY <1>2, BufsAssumption DEF Init, IndexHeld, InRegion
<1>5. RingAgrees
  BY <1>2, BufsAssumption DEF Init, RingAgrees, Slot, Slots
<1>6. InProgress
  BY DEF Init, InProgress, InRegion
<1>7. FramesWhole
  BY DEF Init, FramesWhole
<1> QED BY <1>1, <1>3, <1>4, <1>5, <1>6, <1>7, <1>8 DEF IInv

-----------------------------------------------------------------------------
(* The locations between the check and the last index store. *)
RingLocs == {"copy", "meta", "flag", "doorbell", "index", "wrap"}

(* A step before the check or after the last index store, by sender s: the *)
(* ring, the hardware and everybody else are left alone.                   *)
Outside(s, m) == /\ pc[s] \notin RingLocs
                 /\ m \notin RingLocs
                 /\ pc' = [pc EXCEPT ![s] = m]
                 /\ UNCHANGED <<ringVars, hwVars, hw_state>>

(* The steps outside the ring work, and what they do to pc, owner and req. *)
LEMMA OutsideSteps ==
  /\ \A d \in Netdevs : XmitReject(d) =>
       UNCHANGED <<ringVars, hwVars, hw_state, owner, pc, req>>
  /\ \A d \in Netdevs : XmitEnter(d) =>
       Outside(d, "lock") /\ pc[d] = "idle" /\ UNCHANGED owner
  /\ \A d \in Netdevs : XmitLock(d) =>
       /\ Outside(d, "check") /\ pc[d] = "lock" /\ UNCHANGED req
       /\ owner[LockOf(d)] = NoOwner
       /\ owner' = [owner EXCEPT ![LockOf(d)] = d]
  /\ \A d \in Netdevs : XmitFull(d) =>
       /\ Outside(d, "idle") /\ pc[d] = "check" /\ UNCHANGED req
       /\ owner' = [owner EXCEPT ![LockOf(d)] = NoOwner]
  /\ \A d \in Netdevs : XmitUnlock(d) =>
       /\ Outside(d, "stats") /\ pc[d] = "unlock" /\ UNCHANGED req
       /\ owner' = [owner EXCEPT ![LockOf(d)] = NoOwner]
  /\ \A d \in Netdevs : XmitStats(d) =>
       Outside(d, "idle") /\ pc[d] = "stats" /\ UNCHANGED <<owner, req>>
  /\ \A a \in Apps : GenlEnter(a) =>
       /\ Outside(a, "check") /\ pc[a] = "idle"
       /\ owner[LockOf(a)] = NoOwner
       /\ owner' = [owner EXCEPT ![LockOf(a)] = a]
  /\ \A a \in Apps : GenlFull(a) =>
       /\ Outside(a, "idle") /\ pc[a] = "check" /\ UNCHANGED req
       /\ owner' = [owner EXCEPT ![LockOf(a)] = NoOwner]
  /\ \A a \in Apps : GenlReturn(a) =>
       /\ Outside(a, "idle") /\ pc[a] = "unlock" /\ UNCHANGED req
       /\ owner' = [owner EXCEPT ![LockOf(a)] = NoOwner]
BY DEF Outside, RingLocs, ringVars, hwVars, XmitReject, XmitEnter, XmitLock,
       XmitFull, XmitUnlock, XmitStats, GenlEnter, GenlFull, GenlReturn

(* What mutual exclusion says of At before and after a step of the sender  *)
(* that is at work on the ring.                                            *)
LEMMA AtStep ==
  ASSUME OneInterface, TypeOK, LockHeld, Apart, NEW s \in Senders,
         pc[s] \in InRegion, NEW m, pc' = [pc EXCEPT ![s] = m]
  PROVE  /\ \A l \in InRegion : At(l) <=> pc[s] = l
         /\ \A l \in InRegion : At(l)' <=> m = l
BY Alone DEF At, TypeOK

(* A step outside the ring work changes no At that matters. *)
LEMMA AtOutside ==
  ASSUME TypeOK, NEW s \in Senders, NEW m, Outside(s, m)
  PROVE  \A l \in RingLocs : At(l)' <=> At(l)
BY DEF At, TypeOK, Outside

-----------------------------------------------------------------------------
(* The locks are respected by every step. *)
LEMMA LockStep ==
  ASSUME TypeOK, LockHeld, [Next]_vars
  PROVE  LockHeld'
<1> DEFINE PcType == pc \in [Senders -> InRegion \cup {"idle", "lock", "stats"}]
           OwnerType == owner \in [Locks -> Senders \cup {NoOwner}]
<1>0. PcType /\ OwnerType
  BY DEF TypeOK
<1> USE DEF LockHeld, LockOf, Locks, Senders
<1>1. ASSUME NEW s \in Senders, NEW l, UNCHANGED owner,
             pc' = [pc EXCEPT ![s] = l], pc[s] \in InRegion <=> l \in InRegion
      PROVE  LockHeld'
  BY <1>0, <1>1
<1>2. ASSUME NEW s \in Senders, pc[s] \notin InRegion,
             owner[LockOf(s)] = NoOwner, pc' = [pc EXCEPT ![s] = "check"],
             owner' = [owner EXCEPT ![LockOf(s)] = s]
      PROVE  LockHeld'
  BY <1>0, <1>2, SenderAssumption DEF InRegion
<1>3. ASSUME NEW s \in Senders, NEW l, pc[s] \in InRegion, l \notin InRegion,
             pc' = [pc EXCEPT ![s] = l],
             owner' = [owner EXCEPT ![LockOf(s)] = NoOwner]
      PROVE  LockHeld'
  BY <1>0, <1>3, SenderAssumption
<1>4. ASSUME NEW d \in Netdevs,
             \/ XmitReject(d) \/ XmitEnter(d) \/ XmitLock(d)
             \/ XmitFull(d) \/ XmitUnlock(d) \/ XmitStats(d)
      PROVE  LockHeld'
  BY <1>1, <1>2, <1>3, <1>4, OutsideSteps DEF Outside, InRegion
<1>5. ASSUME NEW a \in Apps, GenlEnter(a) \/ GenlFull(a) \/ GenlReturn(a)
      PROVE  LockHeld'
  BY <1>2, <1>3, <1>5, OutsideSteps DEF Outside, InRegion
<1>6. ASSUME NEW s \in Senders, RingWork(s)
      PROVE  LockHeld'
  BY <1>1, <1>6 DEF RingWork, FoundFree, CopyMessage, FillMetadata, MarkFull,
                    RingDoorbell, AdvanceIndex, WrapIndex, InRegion
<1>7. CASE ProbeFinds \/ ProbeStarts \/ HwFetch \/ HwRelease \/ UNCHANGED vars
  BY <1>7 DEF ProbeFinds, ProbeStarts, HwFetch, HwRelease, vars
<1> QED
  BY <1>4, <1>5, <1>6, <1>7
  DEF Next, nf10_ndo_start_xmit, genl_cmd_dma_tx

(* Nobody leaves "idle" while a sender of the other interface is at work. *)
LEMMA ApartStep ==
  ASSUME TypeOK, Apart, [Next]_vars
  PROVE  Apart'
<1>0. pc \in [Senders -> InRegion \cup {"idle", "lock", "stats"}]
  BY DEF TypeOK
<1>1. ASSUME NEW s \in Senders, NEW m, pc' = [pc EXCEPT ![s] = m],
             pc[s] # "idle" \/ MayEnter(s)
      PROVE  Apart'
  BY <1>0, <1>1 DEF Apart, MayEnter
<1>2. ASSUME NEW d \in Netdevs, XmitReject(d) \/ XmitEnter(d) \/ XmitLock(d)
             \/ XmitFull(d) \/ XmitUnlock(d) \/ XmitStats(d)
      PROVE  Apart'
  <2>1. CASE XmitReject(d)
    BY <2>1 DEF XmitReject, Apart
  <2>2. CASE XmitEnter(d)
    BY <1>1, <2>2 DEF XmitEnter, Senders
  <2>3. CASE XmitLock(d) \/ XmitFull(d) \/ XmitUnlock(d) \/ XmitStats(d)
    <3>1. pc[d] # "idle" /\ \E m : pc' = [pc EXCEPT ![d] = m]
      BY <2>3 DEF XmitLock, XmitFull, XmitUnlock, XmitStats
    <3> QED BY <1>1, <3>1 DEF Senders
  <2> QED BY <1>2, <2>1, <2>2, <2>3
<1>3. ASSUME NEW a \in Apps, GenlEnter(a) \/ GenlFull(a) \/ GenlReturn(a)
      PROVE  Apart'
  <2>1. /\ pc[a] # "idle" \/ MayEnter(a)
        /\ \E m : pc' = [pc EXCEPT ![a] = m]
    BY <1>3 DEF GenlEnter, GenlFull, GenlReturn
  <2> QED BY <1>1, <2>1 DEF Senders
<1>4. ASSUME NEW s \in Senders, RingWork(s)
      PROVE  Apart'
  <2>1. pc[s] # "idle" /\ \E m : pc' = [pc EXCEPT ![s] = m]
    BY <1>4 DEF RingWork, FoundFree, CopyMessage, FillMetadata, MarkFull,
                RingDoorbell, AdvanceIndex, WrapIndex
  <2> QED BY <1>1, <2>1
<1>5. CASE ProbeFinds \/ ProbeStarts \/ HwFetch \/ HwRelease \/ UNCHANGED vars
  BY <1>5 DEF ProbeFinds, ProbeStarts, HwFetch, HwRelease, vars, Apart
<1> QED
  BY <1>2, <1>3, <1>4, <1>5
  DEF Next, nf10_ndo_start_xmit, genl_cmd_dma_tx, Senders

-----------------------------------------------------------------------------
(* A sender that has found a free buffer knows that the ring is not full,  *)
(* and that the buffer is the one behind the full ones.                    *)
LEMMA RoomLeft ==
  ASSUME TypeOK, IndexHeld, RingAgrees, ~At("index"), ~At("wrap"),
         ~At("doorbell"), flags[buf_index] # 0
  PROVE  /\ buf_index \in Slots
         /\ credits < DMA_CPU_BUFS
         /\ buf_index = Slot(hw_index, credits)
         /\ Committed = credits
<1>1. buf_index \in Slots /\ buf_index = Slot(hw_index, credits)
  BY BufsAssumption DEF TypeOK, IndexHeld, RingAgrees, NextIndex, Slots
<1>2. Committed = credits
  BY DEF Committed, TypeOK
<1>3. flags[Slot(hw_index, 0)] = 0 <=> 0 < credits
  BY <1>2, BufsAssumption DEF RingAgrees
<1>4. credits # DMA_CPU_BUFS
  BY <1>1, <1>3, SlotTurn, BufsAssumption DEF TypeOK
<1> QED BY <1>1, <1>2, <1>4, BufsAssumption DEF TypeOK

(* The agreement between driver and hardware survives every step of the    *)
(* sender at work on the ring.                                             *)
LEMMA RingWorkStep ==
  ASSUME OneInterface, IInv, NEW s \in Senders, RingWork(s)
  PROVE  IndexHeld' /\ RingAgrees'
<1> USE BufsAssumption DEF IInv
<1>0. /\ flags \in [Slots -> {0, 1}] /\ buf_index \in 0 .. DMA_CPU_BUFS
      /\ credits \in 0 .. DMA_CPU_BUFS /\ hw_index \in Slots
  BY DEF TypeOK
<1>1. CASE FoundFree(s)
  <2>1. /\ pc[s] = "check" /\ pc' = [pc EXCEPT ![s] = "copy"]
        /\ flags[buf_index] # 0
        /\ UNCHANGED <<flags, buf_index, credits, hw_index>>
    BY <1>1 DEF FoundFree, ringVars, hwVars
  <2>2. /\ \A l \in InRegion : At(l) <=> l = "check"
        /\ \A l \in InRegion : At(l)' <=> l = "copy"
    BY <2>1, AtStep DEF InRegion
  <2>3. NextIndex' = NextIndex /\ Committed' = Committed
    BY <2>1, <2>2 DEF NextIndex, Committed, InRegion
  <2> QED BY <2>1, <2>2, <2>3 DEF IndexHeld, RingAgrees, InRegion, Slot
<1>2. CASE CopyMessage(s) \/ FillMetadata(s)
  <2>1. PICK m \in {"meta", "flag"} :
          /\ pc[s] \in {"copy", "meta"} /\ pc' = [pc EXCEPT ![s] = m]
          /\ UNCHANGED <<flags, buf_index, credits, hw_index>>
    BY <1>2 DEF CopyMessage, FillMetadata, hwVars
  <2>2. /\ \A l \in InRegion : At(l) <=> pc[s] = l
        /\ \A l \in InRegion : At(l)' <=> l = m
    BY <2>1, AtStep DEF InRegion
  <2>3. NextIndex' = NextIndex /\ Committed' = Committed
    BY <2>1, <2>2 DEF NextIndex, Committed, InRegion
  <2> QED BY <2>1, <2>2, <2>3 DEF IndexHeld, RingAgrees, InRegion, Slot
<1>3. CASE MarkFull(s)
  <2>1. /\ pc[s] = "flag" /\ pc' = [pc EXCEPT ![s] = "doorbell"]
        /\ flags' = [flags EXCEPT ![buf_index] = 0]
        /\ UNCHANGED <<buf_index, credits, hw_index>>
    BY <1>3 DEF MarkFull, hwVars
  <2>2. /\ \A l \in InRegion : At(l) <=> l = "flag"
        /\ \A l \in InRegion : At(l)' <=> l = "doorbell"
    BY <2>1, AtStep DEF InRegion
  <2>3. /\ buf_index \in Slots /\ credits < DMA_CPU_BUFS
        /\ buf_index = Slot(hw_index, credits) /\ Committed = credits
    BY <2>2, RoomLeft DEF IndexHeld, InRegion
  <2>4. Committed' = credits + 1 /\ NextIndex' = buf_index
    BY <2>1, <2>2 DEF Committed, NextIndex, InRegion
  <2>5. ASSUME NEW k \in 0 .. DMA_CPU_BUFS - 1
        PROVE  flags'[Slot(hw_index, k)] = 0 <=> k < credits + 1
    <3>1. Slot(hw_index, k) \in Slots
      BY <1>0, SlotType
    <3>2. Slot(hw_index, k) = buf_index <=> k = credits
      BY <1>0, <2>3, SlotInjective
    <3>3. flags[Slot(hw_index, k)] = 0 <=> k < credits
      BY <2>3 DEF RingAgrees
    <3> QED BY <1>0, <2>1, <3>1, <3>2, <3>3
  <2>6. RingAgrees'
    BY <1>0, <2>1, <2>3, <2>4, <2>5 DEF RingAgrees, Slot
  <2> QED BY <2>1, <2>2, <2>3, <2>6 DEF IndexHeld, InRegion, Slots
<1>4. CASE RingDoorbell(s)
  <2>1. /\ pc[s] = "doorbell" /\ pc' = [pc EXCEPT ![s] = "index"]
        /\ credits' = credits + 1 /\ UNCHANGED <<flags, buf_index, hw_index>>
    BY <1>4 DEF RingDoorbell, ringVars
  <2>2. /\ \A l \in InRegion : At(l) <=> l = "doorbell"
        /\ \A l \in InRegion : At(l)' <=> l = "index"
    BY <2>1, AtStep DEF InRegion
  <2>3. /\ Committed = credits + 1 /\ Committed' = Committed
        /\ NextIndex = buf_index /\ NextIndex' = Slot(buf_index, 1)
    BY <1>0, <2>1, <2>2 DEF Committed, NextIndex, InRegion, Slot
  <2>4. Slot(buf_index, 1) = Slot(hw_index, credits + 1)
    <3>1. credits \in 0 .. DMA_CPU_BUFS - 1 /\ buf_index = Slot(hw_index, credits)
      BY <1>0, <2>3 DEF RingAgrees
    <3> QED BY <1>0, <3>1, SlotShift
  <2> QED BY <1>0, <2>1, <2>2, <2>3, <2>4
          DEF RingAgrees, IndexHeld, InRegion, Slot
<1>5. CASE AdvanceIndex(s)
  <2>1. /\ pc[s] = "index" /\ buf_index' = buf_index + 1
        /\ pc' = [pc EXCEPT ![s] = IF buf_index' = DMA_CPU_BUFS THEN "wrap"
                                                               ELSE "unlock"]
        /\ UNCHANGED <<flags, credits, hw_index>>
    BY <1>5 DEF AdvanceIndex, hwVars
  <2>2. /\ \A l \in InRegion : At(l) <=> l = "index"
        /\ \A l \in InRegion : At(l)' <=>
             l = IF buf_index' = DMA_CPU_BUFS THEN "wrap" ELSE "unlock"
    BY <2>1, AtStep DEF InRegion
  <2>3. Committed' = Committed /\ NextIndex' = NextIndex
    BY <1>0, <2>1, <2>2 DEF Committed, NextIndex, InRegion, Slot, IndexHeld
  <2> QED BY <1>0, <2>1, <2>2, <2>3 DEF RingAgrees, IndexHeld, InRegion, Slot
<1>6. CASE WrapIndex(s)
  <2>1. /\ pc[s] = "wrap" /\ buf_index' = 0
        /\ pc' = [pc EXCEPT ![s] = "unlock"]
        /\ UNCHANGED <<flags, credits, hw_index>>
    BY <1>6 DEF WrapIndex, hwVars
  <2>2. /\ \A l \in InRegion : At(l) <=> l = "wrap"
        /\ \A l \in InRegion : At(l)' <=> l = "unlock"
    BY <2>1, AtStep DEF InRegion
  <2>3. Committed' = Committed /\ NextIndex' = NextIndex
    BY <1>0, <2>1, <2>2 DEF Committed, NextIndex, InRegion
  <2> QED BY <1>0, <2>1, <2>2, <2>3 DEF RingAgrees, IndexHeld, InRegion, Slot
<1> QED BY <1>1, <1>2, <1>3, <1>4, <1>5, <1>6 DEF RingWork

(* The agreement survives the hardware giving a buffer back. *)
LEMMA HwReleaseStep ==
  ASSUME IInv, HwRelease
  PROVE  IndexHeld' /\ RingAgrees'
<1> USE BufsAssumption DEF IInv
<1>0. /\ flags \in [Slots -> {0, 1}] /\ buf_index \in 0 .. DMA_CPU_BUFS
      /\ credits \in 1 .. DMA_CPU_BUFS /\ hw_index \in Slots
  BY DEF TypeOK, FramesWhole, HwRelease
<1>1. /\ flags' = [flags EXCEPT ![hw_index] = 1]
      /\ hw_index' = Slot(hw_index, 1) /\ credits' = credits - 1
      /\ UNCHANGED <<buf_index, pc>>
  BY DEF HwRelease
<1>2. \A l : At(l)' <=> At(l)
  BY <1>1 DEF At
<1>3. Committed' = Committed - 1 /\ NextIndex' = NextIndex
  BY <1>0, <1>1, <1>2 DEF Committed, NextIndex, Slot
<1>4. NextIndex' = Slot(hw_index', credits')
  <2>1. Slot(hw_index', credits') = Slot(hw_index, credits)
    BY <1>0, <1>1, SlotShift
  <2> QED BY <1>3, <2>1 DEF RingAgrees
<1>5. ASSUME NEW k \in 0 .. DMA_CPU_BUFS - 1
      PROVE  flags'[Slot(hw_index', k)] = 0 <=> k < Committed - 1
  <2>1. Committed \in 1 .. DMA_CPU_BUFS
    BY <1>0 DEF Committed, RingAgrees
  <2>2. Slot(hw_index', k) = Slot(hw_index, k + 1)
    BY <1>0, <1>1, SlotShift
  <2>3. CASE k = DMA_CPU_BUFS - 1
    BY <1>0, <1>1, <2>1, <2>2, <2>3, SlotTurn
  <2>4. CASE k # DMA_CPU_BUFS - 1
    <3>1. k + 1 \in 0 .. DMA_CPU_BUFS - 1 /\ Slot(hw_index, k + 1) \in Slots
      BY <1>0, <2>4, SlotType
    <3>2. Slot(hw_index, k + 1) # hw_index
      BY <1>0, <3>1, SlotInjective, SlotTurn
    <3>3. flags[Slot(hw_index, k + 1)] = 0 <=> k + 1 < Committed
      BY <3>1 DEF RingAgrees
    <3> QED BY <1>0, <1>1, <2>1, <2>2, <3>1, <3>2, <3>3
  <2> QED BY <2>3, <2>4
<1>6. RingAgrees'
  BY <1>0, <1>3, <1>4, <1>5 DEF RingAgrees, Committed
<1>7. IndexHeld'
  BY <1>0, <1>1, <1>2 DEF IndexHeld, Slots
<1> QED BY <1>6, <1>7

(* The agreement survives every step. *)
LEMMA RingStep ==
  ASSUME OneInterface, IInv, [Next]_vars
  PROVE  IndexHeld' /\ RingAgrees'
<1> USE DEF IInv
<1>1. ASSUME UNCHANGED <<flags, buf_index, credits, hw_index>>,
             \A l \in RingLocs : At(l)' <=> At(l)
      PROVE  IndexHeld' /\ RingAgrees'
  <2>1. Committed' = Committed /\ NextIndex' = NextIndex
    BY <1>1 DEF Committed, NextIndex, RingLocs, Slot
  <2> QED BY <1>1, <2>1 DEF IndexHeld, RingAgrees, RingLocs, Slot
<1>2. ASSUME NEW s \in Senders, NEW m, Outside(s, m)
      PROVE  IndexHeld' /\ RingAgrees'
  BY <1>1, <1>2, AtOutside DEF Outside, ringVars, hwVars
<1>3. ASSUME UNCHANGED <<flags, buf_index, credits, hw_index, pc>>
      PROVE  IndexHeld' /\ RingAgrees'
  BY <1>1, <1>3 DEF At
<1>4. ASSUME NEW d \in Netdevs,
             \/ XmitReject(d) \/ XmitEnter(d) \/ XmitLock(d)
             \/ XmitFull(d) \/ XmitUnlock(d) \/ XmitStats(d)
      PROVE  IndexHeld' /\ RingAgrees'
  BY <1>2, <1>3, <1>4, OutsideSteps DEF Senders, ringVars, hwVars
<1>5. ASSUME NEW a \in Apps, GenlEnter(a) \/ GenlFull(a) \/ GenlReturn(a)
      PROVE  IndexHeld' /\ RingAgrees'
  BY <1>2, <1>5, OutsideSteps DEF Senders
<1>6. CASE ProbeFinds \/ ProbeStarts \/ HwFetch \/ UNCHANGED vars
  BY <1>3, <1>6 DEF ProbeFinds, ProbeStarts, HwFetch, vars, ringVars, hwVars
<1> QED
  BY <1>4, <1>5, <1>6, RingWorkStep, HwReleaseStep
  DEF Next, nf10_ndo_start_xmit, genl_cmd_dma_tx, Senders

-----------------------------------------------------------------------------
(* Statistics stay within the modulus. *)
LEMMA StatType ==
  ASSUME NEW S, NEW f \in [S -> 0 .. StatMod - 1], NEW x
  PROVE  [f EXCEPT ![x] = (@ + 1) % StatMod] \in [S -> 0 .. StatMod - 1]
<1>1. ASSUME NEW n \in 0 .. StatMod - 1
      PROVE  (n + 1) % StatMod \in 0 .. StatMod - 1
  BY DataAssumption
<1> QED BY <1>1

(* What a sender asks for has the type of a message. *)
LEMMA ReqType ==
  /\ \A d \in Netdevs : tx_set_src_iface(d) \in Opcodes
  /\ \A op \in AppOpcodes : op \in Opcodes
  /\ \A len \in Lengths :
       (IF len > DMA_BUF_SIZE THEN DMA_BUF_SIZE ELSE len) \in MsgLengths
  /\ Lengths \subseteq MsgLengths
BY SenderAssumption DEF Opcodes, MsgLengths

(* Every step keeps the types. *)
LEMMA TypeStep ==
  ASSUME OneInterface, IInv, [Next]_vars
  PROVE  TypeOK'
<1> USE BufsAssumption DEF IInv
<1>1. CASE ProbeFinds \/ ProbeStarts \/ UNCHANGED vars
  BY <1>1 DEF ProbeFinds, ProbeStarts, vars, ringVars, hwVars, statVars, TypeOK
<1>2. ASSUME NEW d \in Netdevs, XmitReject(d) \/ XmitFull(d)
      PROVE  TypeOK'
  <2>1. tx_dropped' \in [Netdevs -> 0 .. StatMod - 1]
    <3>1. /\ tx_dropped \in [Netdevs -> 0 .. StatMod - 1]
          /\ tx_dropped' = [tx_dropped EXCEPT ![d] = (@ + 1) % StatMod]
      BY <1>2 DEF XmitReject, XmitFull, TypeOK
    <3> QED BY <3>1, StatType
  <2> QED BY <1>2, <2>1 DEF XmitReject, XmitFull, ringVars, hwVars, TypeOK,
                            Locks, LockOf
<1>3. ASSUME NEW d \in Netdevs, XmitEnter(d)
      PROVE  TypeOK'
  <2>1. req' \in [Senders -> [len : MsgLengths, opCode : Opcodes]]
    <3>1. req \in [Senders -> [len : MsgLengths, opCode : Opcodes]]
      BY DEF TypeOK
    <3>2. PICK len \in Lengths :
            req' = [req EXCEPT ![d] = [len    |-> len,
                                       opCode |-> tx_set_src_iface(d)]]
      BY <1>3 DEF XmitEnter
    <3> QED BY <3>1, <3>2, ReqType
  <2>2. pc' \in [Senders -> InRegion \cup {"idle", "lock", "stats"}]
    BY <1>3 DEF XmitEnter, TypeOK
  <2> QED BY <1>3, <2>1, <2>2 DEF XmitEnter, ringVars, hwVars, statVars, TypeOK
<1>4. ASSUME NEW d \in Netdevs, XmitLock(d) \/ XmitUnlock(d)
      PROVE  TypeOK'
  <2>1. PICK o \in Senders \cup {NoOwner}, l \in {"check", "stats"} :
          /\ owner' = [owner EXCEPT ![LockOf(d)] = o]
          /\ pc' = [pc EXCEPT ![d] = l]
    BY <1>4 DEF XmitLock, XmitUnlock, Senders
  <2>2. owner' \in [Locks -> Senders \cup {NoOwner}]
    BY <2>1 DEF TypeOK
  <2>3. pc' \in [Senders -> InRegion \cup {"idle", "lock", "stats"}]
    BY <2>1 DEF TypeOK, InRegion
  <2> QED BY <1>4, <2>2, <2>3 DEF XmitLock, XmitUnlock, ringVars, hwVars,
                                  statVars, TypeOK
<1>5. ASSUME NEW d \in Netdevs, XmitStats(d)
      PROVE  TypeOK'
  <2>1. tx_packets' \in [Netdevs -> 0 .. StatMod - 1]
    BY <1>5, StatType DEF XmitStats, TypeOK
  <2> QED BY <1>5, <2>1 DEF XmitStats, ringVars, hwVars, TypeOK
<1>6. ASSUME NEW a \in Apps, GenlEnter(a)
      PROVE  TypeOK'
  <2>1. req' \in [Senders -> [len : MsgLengths, opCode : Opcodes]]
    <3>1. req \in [Senders -> [len : MsgLengths, opCode : Opcodes]]
      BY DEF TypeOK
    <3>2. PICK len \in Lengths, op \in AppOpcodes :
            req' = [req EXCEPT ![a] =
                      [len |-> IF len > DMA_BUF_SIZE THEN DMA_BUF_SIZE ELSE len,
                       opCode |-> op]]
      BY <1>6 DEF GenlEnter
    <3>3. (IF len > DMA_BUF_SIZE THEN DMA_BUF_SIZE ELSE len) \in MsgLengths
      BY ReqType
    <3> QED BY <3>1, <3>2, <3>3, ReqType
  <2>2. pc' \in [Senders -> InRegion \cup {"idle", "lock", "stats"}]
    BY <1>6 DEF GenlEnter, TypeOK, InRegion
  <2>3. owner' \in [Locks -> Senders \cup {NoOwner}]
    BY <1>6 DEF GenlEnter, TypeOK, Senders
  <2> QED BY <1>6, <2>1, <2>2, <2>3
          DEF GenlEnter, ringVars, hwVars, statVars, TypeOK
<1>7. ASSUME NEW a \in Apps, GenlFull(a) \/ GenlReturn(a)
      PROVE  TypeOK'
  BY <1>7 DEF GenlFull, GenlReturn, ringVars, hwVars, statVars, TypeOK
<1>8. ASSUME NEW s \in Senders, RingWork(s)
      PROVE  TypeOK'
  <2>1. CASE FoundFree(s) \/ MarkFull(s)
    BY <2>1 DEF FoundFree, MarkFull, ringVars, hwVars, statVars, TypeOK,
                InRegion
  <2>5. CASE CopyMessage(s)
    <3>1. buffers' \in [Slots -> [src : Senders \cup {NoOwner},
                                 bytes : MsgLengths]]
      BY <2>5 DEF CopyMessage, TypeOK
    <3> QED BY <2>5, <3>1 DEF CopyMessage, hwVars, statVars, TypeOK, InRegion
  <2>6. CASE FillMetadata(s)
    <3>1. metadata' \in [Slots -> [length : MsgLengths, opCode : Opcodes]]
      BY <2>6 DEF FillMetadata, TypeOK
    <3> QED BY <2>6, <3>1 DEF FillMetadata, hwVars, statVars, TypeOK, InRegion
  <2>2. CASE RingDoorbell(s)
    <3>1. credits + 1 <= DMA_CPU_BUFS
      BY <2>2 DEF RingDoorbell, RingAgrees, Committed, At, TypeOK
    <3> QED BY <2>2, <3>1 DEF RingDoorbell, ringVars, statVars, TypeOK, InRegion
  <2>3. CASE AdvanceIndex(s)
    <3>1. ~At("wrap")
      BY <2>3, Alone DEF At, AdvanceIndex, InRegion
    <3>2. buf_index + 1 \in 0 .. DMA_CPU_BUFS
      BY <3>1 DEF IndexHeld, TypeOK
    <3> QED BY <2>3, <3>2 DEF AdvanceIndex, hwVars, statVars, TypeOK, InRegion
  <2>4. CASE WrapIndex(s)
    BY <2>4 DEF WrapIndex, hwVars, statVars, TypeOK, InRegion
  <2> QED BY <1>8, <2>1, <2>2, <2>3, <2>4, <2>5, <2>6 DEF RingWork
<1>9. CASE HwFetch
  <2>1. FrameAt(hw_index) \in Frames
    BY DEF FrameAt, Frames, TypeOK
  <2> QED BY <1>9, <2>1 DEF HwFetch, ringVars, statVars, TypeOK
<1>10. CASE HwRelease
  <2>1. wire' \in [Netdevs -> 0 .. StatMod - 1]
    BY <1>10, StatType DEF HwRelease, TypeOK
  <2>2. hw_index' \in Slots
    BY <1>10, SlotType DEF HwRelease, TypeOK
  <2>3. credits' \in 0 .. DMA_CPU_BUFS
    BY <1>10 DEF HwRelease, TypeOK, FramesWhole
  <2>4. NoFrame \in Frames
    BY DEF NoFrame, Frames, MsgLengths, Opcodes
  <2> QED BY <1>10, <2>1, <2>2, <2>3, <2>4 DEF HwRelease, statVars, TypeOK
<1> QED
  BY <1>1, <1>2, <1>3, <1>4, <1>5, <1>6, <1>7, <1>8, <1>9, <1>10
  DEF Next, nf10_ndo_start_xmit, genl_cmd_dma_tx, Senders

-----------------------------------------------------------------------------
(* Of one sender: what InProgress says. *)
InProgressOf(s) ==
  /\ pc[s] \in InRegion \cup {"lock"} =>
       /\ req[s].len <= DMA_BUF_SIZE
       /\ s \in Netdevs => req[s].opCode = tx_set_src_iface(s)
  /\ pc[s] \in {"meta", "flag", "doorbell"} =>
       buffers[buf_index] = [src |-> s, bytes |-> req[s].len]
  /\ pc[s] \in {"flag", "doorbell"} =>
       metadata[buf_index] = [length |-> req[s].len, opCode |-> req[s].opCode]

(* What is about to be handed over stays whole in every step. *)
LEMMA InProgressStep ==
  ASSUME OneInterface, IInv, [Next]_vars
  PROVE  InProgress'
<1> USE BufsAssumption DEF IInv
<1>0. /\ \A s \in Senders : InProgressOf(s)
      /\ pc \in [Senders -> InRegion \cup {"idle", "lock", "stats"}]
      /\ req \in [Senders -> [len : MsgLengths, opCode : Opcodes]]
  BY DEF InProgress, InProgressOf, TypeOK
<1> SUFFICES ASSUME NEW t \in Senders PROVE InProgressOf(t)'
  BY DEF InProgress, InProgressOf
<1>1. ASSUME pc'[t] = pc[t], req'[t] = req[t],
             UNCHANGED <<buffers, metadata, buf_index>>
      PROVE  InProgressOf(t)'
  BY <1>0, <1>1 DEF InProgressOf
<1>2. ASSUME NEW s \in Senders, NEW m, s # t \/ m \in {"idle", "stats"},
             Outside(s, m), req'[t] = req[t]
      PROVE  InProgressOf(t)'
  BY <1>0, <1>1, <1>2 DEF Outside, ringVars, InProgressOf, InRegion
<1>3. ASSUME NEW d \in Netdevs, XmitReject(d) \/ XmitFull(d) \/ XmitUnlock(d)
                                \/ XmitStats(d)
      PROVE  InProgressOf(t)'
  <2>1. CASE XmitReject(d)
    BY <1>1, <2>1, OutsideSteps DEF ringVars
  <2>2. CASE XmitFull(d) \/ XmitUnlock(d) \/ XmitStats(d)
    BY <1>2, <2>2, OutsideSteps DEF Senders
  <2> QED BY <1>3, <2>1, <2>2
<1>4. ASSUME NEW d \in Netdevs, XmitEnter(d)
      PROVE  InProgressOf(t)'
  <2>1. PICK len \in Lengths :
          /\ Sendable(len)
          /\ req' = [req EXCEPT ![d] = [len    |-> len,
                                        opCode |-> tx_set_src_iface(d)]]
    BY <1>4 DEF XmitEnter
  <2>2. CASE t # d
    BY <1>0, <1>2, <1>4, <2>1, <2>2, OutsideSteps DEF Senders
  <2>3. CASE t = d
    <3>1. pc'[t] = "lock" /\ req'[t] = [len    |-> len,
                                        opCode |-> tx_set_src_iface(t)]
      BY <1>0, <1>4, <2>1, <2>3 DEF XmitEnter
    <3> QED BY <2>1, <3>1 DEF InProgressOf, InRegion, Sendable
  <2> QED BY <2>2, <2>3
<1>5. ASSUME NEW d \in Netdevs, XmitLock(d)
      PROVE  InProgressOf(t)'
  <2>1. CASE t # d
    BY <1>2, <1>5, <2>1, OutsideSteps DEF Senders
  <2>2. CASE t = d
    <3>1. pc[t] = "lock" /\ pc'[t] = "check" /\ req' = req
      BY <1>0, <1>5, <2>2 DEF XmitLock
    <3> QED BY <1>0, <3>1 DEF InProgressOf, InRegion
  <2> QED BY <2>1, <2>2
<1>6. ASSUME NEW a \in Apps, GenlEnter(a)
      PROVE  InProgressOf(t)'
  <2>1. PICK len \in Lengths, op \in AppOpcodes :
          req' = [req EXCEPT ![a] =
                    [len |-> IF len > DMA_BUF_SIZE THEN DMA_BUF_SIZE ELSE len,
                     opCode |-> op]]
    BY <1>6 DEF GenlEnter
  <2>2. CASE t # a
    BY <1>0, <1>2, <1>6, <2>1, <2>2, OutsideSteps DEF Senders
  <2>3. CASE t = a
    <3>1. /\ pc'[t] = "check" /\ t \notin Netdevs
          /\ req'[t].len = IF len > DMA_BUF_SIZE THEN DMA_BUF_SIZE ELSE len
      BY <1>0, <1>6, <2>1, <2>3, SenderAssumption DEF GenlEnter
    <3>2. req'[t].len <= DMA_BUF_SIZE
      BY <3>1, DataAssumption DEF DMA_BUF_SIZE
    <3> QED BY <3>1, <3>2 DEF InProgressOf, InRegion
  <2> QED BY <2>2, <2>3
<1>7. ASSUME NEW a \in Apps, GenlFull(a) \/ GenlReturn(a)
      PROVE  InProgressOf(t)'
  BY <1>2, <1>7, OutsideSteps DEF Senders
<1>8. ASSUME NEW s \in Senders, RingWork(s)
      PROVE  InProgressOf(t)'
  <2>1. pc[s] \in InRegion /\ req' = req
    BY <1>8 DEF RingWork, FoundFree, CopyMessage, FillMetadata, MarkFull,
                RingDoorbell, AdvanceIndex, WrapIndex, InRegion
  <2>2. CASE t # s
    <3>1. pc[t] \notin InRegion
      BY <2>1, <2>2, Alone
    <3>2. pc'[t] = pc[t]
      BY <1>0, <1>8, <2>2
      DEF RingWork, FoundFree, CopyMessage, FillMetadata, MarkFull,
          RingDoorbell, AdvanceIndex, WrapIndex
    <3> QED BY <1>0, <2>1, <3>1, <3>2 DEF InProgressOf, InRegion
  <2>3. CASE t = s
    <3>1. buf_index \in Slots \/ pc[s] = "wrap"
      <4>1. At("wrap") => pc[s] = "wrap"
        BY <2>1, Alone DEF At, InRegion
      <4> QED BY <4>1 DEF IndexHeld, TypeOK, Slots
    <3>2. CASE FoundFree(s) \/ MarkFull(s) \/ RingDoorbell(s)
      BY <1>0, <2>1, <2>3, <3>2
      DEF FoundFree, MarkFull, RingDoorbell, ringVars, InProgressOf, InRegion
    <3>3. CASE CopyMessage(s)
      BY <1>0, <2>1, <2>3, <3>1, <3>3
      DEF CopyMessage, InProgressOf, InRegion, TypeOK
    <3>4. CASE FillMetadata(s)
      BY <1>0, <2>1, <2>3, <3>1, <3>4
      DEF FillMetadata, InProgressOf, InRegion, TypeOK
    <3>5. CASE AdvanceIndex(s) \/ WrapIndex(s)
      BY <1>0, <2>1, <2>3, <3>5
      DEF AdvanceIndex, WrapIndex, InProgressOf, InRegion
    <3> QED BY <1>8, <3>2, <3>3, <3>4, <3>5 DEF RingWork
  <2> QED BY <2>2, <2>3
<1>9. CASE ProbeFinds \/ ProbeStarts \/ HwFetch \/ HwRelease \/ UNCHANGED vars
  BY <1>1, <1>9 DEF ProbeFinds, ProbeStarts, HwFetch, HwRelease, vars, ringVars
<1> QED
  BY <1>3, <1>4, <1>5, <1>6, <1>7, <1>8, <1>9
  DEF Next, nf10_ndo_start_xmit, genl_cmd_dma_tx, Senders

-----------------------------------------------------------------------------
(* No step of the driver writes a buffer the hardware has been told about. *)
LEMMA QueuedUntouched ==
  ASSUME OneInterface, IInv, [Next]_vars, NEW k \in 0 .. credits - 1
  PROVE  LET i == Slot(hw_index, k) IN
           i \in Slots /\ buffers'[i] = buffers[i] /\ metadata'[i] = metadata[i]
<1> DEFINE i == Slot(hw_index, k)
<1> USE BufsAssumption DEF IInv
<1>1. /\ credits \in 0 .. DMA_CPU_BUFS /\ hw_index \in Slots
      /\ k \in 0 .. DMA_CPU_BUFS - 1 /\ i \in Slots
  BY SlotType DEF TypeOK
<1>2. CASE UNCHANGED <<buffers, metadata>>
  BY <1>1, <1>2
<1>3. ASSUME NEW s \in Senders, CopyMessage(s) \/ FillMetadata(s)
      PROVE  buffers'[i] = buffers[i] /\ metadata'[i] = metadata[i]
  <2>1. /\ pc[s] \in {"copy", "meta"}
        /\ \E b : buffers' = [buffers EXCEPT ![buf_index] = b]
                  \/ buffers' = buffers
        /\ \E b : metadata' = [metadata EXCEPT ![buf_index] = b]
                  \/ metadata' = metadata
    BY <1>3 DEF CopyMessage, FillMetadata
  <2>2. \A l \in InRegion : At(l) <=> pc[s] = l
    BY <2>1, Alone DEF At, InRegion
  <2>3. buf_index = Slot(hw_index, credits) /\ credits < DMA_CPU_BUFS
    BY <2>1, <2>2, RoomLeft DEF IndexHeld, InRegion
  <2>4. i # buf_index
    BY <1>1, <2>3, SlotInjective
  <2> QED BY <1>1, <2>1, <2>4 DEF TypeOK
<1>4. \/ UNCHANGED <<buffers, metadata>>
      \/ \E s \in Senders : CopyMessage(s) \/ FillMetadata(s)
  <2>1. ASSUME NEW d \in Netdevs,
               \/ XmitReject(d) \/ XmitEnter(d) \/ XmitLock(d)
               \/ XmitFull(d) \/ XmitUnlock(d) \/ XmitStats(d)
        PROVE  UNCHANGED <<buffers, metadata>>
    BY <2>1, OutsideSteps DEF Outside, ringVars
  <2>2. ASSUME NEW a \in Apps, GenlEnter(a) \/ GenlFull(a) \/ GenlReturn(a)
        PROVE  UNCHANGED <<buffers, metadata>>
    BY <2>2, OutsideSteps DEF Outside, ringVars
  <2>3. ASSUME NEW s \in Senders, RingWork(s)
        PROVE  UNCHANGED <<buffers, metadata>> \/ CopyMessage(s)
               \/ FillMetadata(s)
    BY <2>3 DEF RingWork, FoundFree, MarkFull, RingDoorbell, AdvanceIndex,
                WrapIndex, ringVars
  <2>4. CASE ProbeFinds \/ ProbeStarts \/ HwFetch \/ HwRelease \/ UNCHANGED vars
    BY <2>4 DEF ProbeFinds, ProbeStarts, HwFetch, HwRelease, vars, ringVars
  <2> QED BY <2>1, <2>2, <2>3, <2>4
          DEF Next, nf10_ndo_start_xmit, genl_cmd_dma_tx, Senders
<1> QED BY <1>1, <1>2, <1>3, <1>4

(* How the steps move the hardware's end of the ring. *)
LEMMA HwEndSteps ==
  ASSUME [Next]_vars
  PROVE  \/ UNCHANGED <<credits, hw_index, hw_frame>>
         \/ HwFetch
         \/ HwRelease
         \/ \E s \in Senders : RingDoorbell(s)
<1>1. ASSUME NEW d \in Netdevs,
             \/ XmitReject(d) \/ XmitEnter(d) \/ XmitLock(d)
             \/ XmitFull(d) \/ XmitUnlock(d) \/ XmitStats(d)
      PROVE  UNCHANGED <<credits, hw_index, hw_frame>>
  BY <1>1, OutsideSteps DEF Outside, hwVars
<1>2. ASSUME NEW a \in Apps, GenlEnter(a) \/ GenlFull(a) \/ GenlReturn(a)
      PROVE  UNCHANGED <<credits, hw_index, hw_frame>>
  BY <1>2, OutsideSteps DEF Outside, hwVars
<1>3. ASSUME NEW s \in Senders, RingWork(s)
      PROVE  UNCHANGED <<credits, hw_index, hw_frame>> \/ RingDoorbell(s)
  BY <1>3 DEF RingWork, FoundFree, CopyMessage, FillMetadata, MarkFull,
              AdvanceIndex, WrapIndex, hwVars
<1>4. CASE ProbeFinds \/ ProbeStarts \/ UNCHANGED vars
  BY <1>4 DEF ProbeFinds, ProbeStarts, vars, hwVars
<1> QED BY <1>1, <1>2, <1>3, <1>4
        DEF Next, nf10_ndo_start_xmit, genl_cmd_dma_tx, Senders

(* The doorbell hands over a whole frame, right behind the others. *)
LEMMA HandOver ==
  ASSUME OneInterface, IInv, NEW s \in Senders, RingDoorbell(s)
  PROVE  /\ credits < DMA_CPU_BUFS
         /\ buf_index = Slot(hw_index, credits)
         /\ buf_index \in Slots
         /\ Whole(FrameAt(buf_index))
<1> USE BufsAssumption DEF IInv
<1>1. pc[s] = "doorbell"
  BY DEF RingDoorbell
<1>2. \A l \in InRegion : At(l) <=> l = "doorbell"
  BY <1>1, Alone DEF At, InRegion
<1>3. /\ credits < DMA_CPU_BUFS /\ buf_index = Slot(hw_index, credits)
      /\ buf_index \in Slots
  BY <1>2 DEF RingAgrees, Committed, NextIndex, IndexHeld, InRegion, TypeOK,
              Slots
<1>4. /\ buffers[buf_index] = [src |-> s, bytes |-> req[s].len]
      /\ metadata[buf_index] = [length |-> req[s].len,
                                opCode |-> req[s].opCode]
      /\ req[s].len <= DMA_BUF_SIZE
      /\ s \in Netdevs => req[s].opCode = tx_set_src_iface(s)
  BY <1>1 DEF InProgress, InRegion
<1> QED BY <1>3, <1>4 DEF Whole, FrameAt

(* Frames the hardware knows of stay whole, and what it reads stays put. *)
LEMMA FramesStep ==
  ASSUME OneInterface, IInv, [Next]_vars
  PROVE  FramesWhole'
<1> USE BufsAssumption DEF IInv
<1>1. credits \in 0 .. DMA_CPU_BUFS /\ hw_index \in Slots
  BY DEF TypeOK
<1>2. \A k \in 0 .. credits - 1 :
        /\ Slot(hw_index, k) \in Slots
        /\ buffers'[Slot(hw_index, k)] = buffers[Slot(hw_index, k)]
        /\ metadata'[Slot(hw_index, k)] = metadata[Slot(hw_index, k)]
        /\ Whole(FrameAt(Slot(hw_index, k)))
  BY QueuedUntouched DEF FramesWhole
<1>3. credits > 0 => /\ buffers'[hw_index] = buffers[hw_index]
                     /\ metadata'[hw_index] = metadata[hw_index]
  BY <1>1, <1>2, SlotTurn
<1>4. CASE UNCHANGED <<credits, hw_index, hw_frame>>
  BY <1>1, <1>2, <1>3, <1>4 DEF FramesWhole, FrameAt, Whole, Slot
<1>5. CASE HwFetch
  BY <1>1, <1>2, <1>3, <1>5
  DEF HwFetch, FramesWhole, FrameAt, Whole, Slot, ringVars
<1>6. CASE HwRelease
  <2>1. /\ hw_index' = Slot(hw_index, 1) /\ credits' = credits - 1
        /\ hw_frame' = NoFrame /\ UNCHANGED <<buffers, metadata>>
    BY <1>6 DEF HwRelease
  <2>2. ASSUME NEW k \in 0 .. credits' - 1
        PROVE  Slot(hw_index', k) = Slot(hw_index, k + 1) /\ k + 1 \in 0 .. credits - 1
    BY <1>1, <2>1, SlotShift
  <2>3. ASSUME NEW k \in 0 .. credits' - 1
        PROVE  Whole(FrameAt(Slot(hw_index', k)))
    BY <1>2, <2>2
  <2> QED BY <2>1, <2>3 DEF FramesWhole, FrameAt, Whole, Slot
<1>7. ASSUME NEW s \in Senders, RingDoorbell(s)
      PROVE  FramesWhole'
  <2>1. /\ credits' = credits + 1
        /\ UNCHANGED <<buffers, metadata, hw_index, hw_frame>>
    BY <1>7 DEF RingDoorbell, ringVars
  <2>2. Whole(FrameAt(Slot(hw_index, credits)))
    BY <1>7, HandOver
  <2>3. \A k \in 0 .. credits' - 1 : Whole(FrameAt(Slot(hw_index, k)))
    BY <1>1, <1>2, <2>1, <2>2
  <2> QED BY <1>1, <2>1, <2>3 DEF FramesWhole, FrameAt, Whole, Slot
<1> QED BY <1>4, <1>5, <1>6, <1>7, HwEndSteps

-----------------------------------------------------------------------------
(* As long as network devices and the DMA_TX command are used one at a     *)
(* time, the inductive invariant holds in every reachable state.           *)
THEOREM IInvHolds == ASSUME OneInterface PROVE Spec => []IInv
<1>1. IInv /\ [Next]_vars => IInv'
  <2> SUFFICES ASSUME IInv, [Next]_vars PROVE IInv'
    OBVIOUS
  <2>1. TypeOK' /\ LockHeld' /\ Apart'
    BY TypeStep, LockStep, ApartStep DEF IInv
  <2>2. IndexHeld' /\ RingAgrees'
    BY RingStep
  <2>3. InProgress' /\ FramesWhole'
    BY InProgressStep, FramesStep
  <2> QED BY <2>1, <2>2, <2>3 DEF IInv
<1> QED BY <1>1, InitIInv, PTL DEF Spec

(* Type correctness: the index, the doorbell count and everything else stay*)
(* in range, with network devices and DMA_TX used one at a time.           *)
THEOREM TypeCorrect == ASSUME OneInterface PROVE Spec => []TypeOK
<1>1. IInv => TypeOK
  BY DEF IInv
<1> QED BY <1>1, IInvHolds, PTL

(* Mutual exclusion on the transmit region: no two callers are at work on  *)
(* the ring at the same time, with network devices and DMA_TX one at a time.*)
THEOREM Exclusion == ASSUME OneInterface PROVE Spec => []TxExclusion
<1>1. IInv => TxExclusion
  BY Alone DEF IInv, TxExclusion
<1> QED BY <1>1, IInvHolds, PTL

(* The driver and the hardware agree about the ring: flags, indices and    *)
(* doorbells, with network devices and DMA_TX used one at a time.          *)
THEOREM RingAgreement == ASSUME OneInterface PROVE Spec => []RingAgrees
<1>1. IInv => RingAgrees
  BY DEF IInv
<1> QED BY <1>1, IInvHolds, PTL

(* RingSound: the transmit ring never leaves its types, and flags, indices *)
(* and doorbells of tx_dma_stream agree, for any number of buffers and     *)
(* senders, with network devices and DMA_TX used one at a time.            *)
THEOREM RingSoundness == ASSUME OneInterface PROVE Spec => []RingSound
<1>1. IInv => RingSound
  BY DEF IInv, RingSound
<1> QED BY <1>1, IInvHolds, PTL

(* The hardware only ever sees whole frames, with network devices and      *)
(* DMA_TX used one at a time.                                              *)
THEOREM FrameIntegrity == ASSUME OneInterface PROVE Spec => []FramesWhole
<1>1. IInv => FramesWhole
  BY DEF IInv
<1> QED BY <1>1, IInvHolds, PTL

-----------------------------------------------------------------------------
(* A whole frame in the ring is a frame of the abstract FIFO. *)
LEMMA QueueType ==
  ASSUME IInv
  PROVE  Queue \in Seq(Frames) /\ Len(Queue) = credits
<1>1. ASSUME NEW k \in 1 .. credits
      PROVE  FrameAt(Slot(hw_index, k - 1)) \in Frames
  <2>1. Slot(hw_index, k - 1) \in Slots
    BY SlotType, BufsAssumption DEF IInv, TypeOK
  <2> QED BY <2>1 DEF IInv, TypeOK, FrameAt, Frames
<1> QED BY <1>1 DEF Queue, IInv, TypeOK

(* Every step of the transmit path is a step of the abstract FIFO, or one  *)
(* that leaves it alone.                                                   *)
LEMMA FifoStep ==
  ASSUME OneInterface, IInv, IInv', [Next]_vars
  PROVE  [Fifo!Next]_Queue
<1> USE BufsAssumption
<1>0. /\ credits \in 0 .. DMA_CPU_BUFS /\ hw_index \in Slots
      /\ Queue \in Seq(Frames) /\ Len(Queue) = credits
  BY QueueType DEF IInv, TypeOK
<1>1. \A k \in 0 .. credits - 1 :
        /\ buffers'[Slot(hw_index, k)] = buffers[Slot(hw_index, k)]
        /\ metadata'[Slot(hw_index, k)] = metadata[Slot(hw_index, k)]
  BY QueuedUntouched
<1>2. CASE UNCHANGED <<credits, hw_index>>
  BY <1>0, <1>1, <1>2 DEF Queue, FrameAt, Slot
<1>3. ASSUME NEW s \in Senders, RingDoorbell(s)
      PROVE  Fifo!Put
  <2> DEFINE f == FrameAt(buf_index)
  <2>1. /\ credits' = credits + 1
        /\ UNCHANGED <<buffers, metadata, hw_index>>
    BY <1>3 DEF RingDoorbell, ringVars
  <2>2. /\ credits < DMA_CPU_BUFS /\ buf_index = Slot(hw_index, credits)
        /\ buf_index \in Slots /\ Whole(f)
    BY <1>3, HandOver
  <2>3. f \in {g \in Frames : Whole(g)}
    BY <2>2 DEF IInv, TypeOK, FrameAt, Frames
  <2>4. Queue' = [k \in 1 .. credits + 1 |-> FrameAt(Slot(hw_index, k - 1))]
    BY <2>1 DEF Queue, FrameAt, Slot
  <2>5. Queue' = Append(Queue, f)
    <3>1. \A k \in 1 .. credits : FrameAt(Slot(hw_index, k - 1)) = Queue[k]
      BY DEF Queue
    <3>2. FrameAt(Slot(hw_index, (credits + 1) - 1)) = f
      BY <1>0, <2>2
    <3>3. \A k \in 1 .. credits + 1 :
            FrameAt(Slot(hw_index, k - 1)) = Append(Queue, f)[k]
      BY <1>0, <2>3, <3>1, <3>2, AppendProperties
    <3>4. /\ Append(Queue, f) \in Seq(Frames)
          /\ Len(Append(Queue, f)) = credits + 1
      BY <1>0, <2>3, AppendProperties
    <3>5. \A k \in 1 .. credits + 1 : Append(Queue, f)[k] \in Frames
      BY <3>4, ElementOfSeq
    <3>6. Queue' \in Seq(Frames) /\ Len(Queue') = credits + 1
      <4>1. \A k \in 1 .. credits + 1 :
              FrameAt(Slot(hw_index, k - 1)) \in Frames
        BY <3>3, <3>5
      <4>2. Queue' \in [1 .. credits + 1 -> Frames]
        BY <2>4, <4>1
      <4> QED BY <1>0, <4>2
    <3> QED BY <2>4, <3>3, <3>4, <3>6, SeqEqual
  <2> QED BY <1>0, <2>2, <2>3, <2>5 DEF Fifo!Put
<1>4. CASE HwRelease
  <2>1. /\ hw_index' = Slot(hw_index, 1) /\ credits' = credits - 1
        /\ credits > 0 /\ UNCHANGED <<buffers, metadata>>
    BY <1>4 DEF HwRelease, IInv, FramesWhole
  <2>2. \A k \in 1 .. credits - 1 :
          Slot(hw_index', k - 1) = Slot(hw_index, k)
    BY <1>0, <2>1, SlotShift
  <2>3. Queue' = [k \in 1 .. credits - 1 |-> FrameAt(Slot(hw_index, k))]
    BY <2>1, <2>2 DEF Queue, FrameAt, Slot
  <2>4. Queue' = Tail(Queue)
    BY <1>0, <2>1, <2>3 DEF Queue
  <2>5. Queue # << >>
    BY <1>0, <2>1
  <2> QED BY <2>4, <2>5 DEF Fifo!Get, Fifo!Next
<1>5. CASE HwFetch
  BY <1>2, <1>5 DEF HwFetch
<1> QED BY <1>2, <1>3, <1>4, <1>5, HwEndSteps DEF Fifo!Next

(* The transmit ring implements the bounded FIFO of whole frames (one      *)
(* interface): nothing is lost, duplicated, reordered or torn between the  *)
(* doorbell and the hardware.                                              *)
THEOREM Refinement == ASSUME OneInterface PROVE Spec => TxIsFifo
<1>1. Init => Fifo!Init
  BY DEF Init, Fifo!Init, Queue
<1>2. IInv /\ IInv' /\ [Next]_vars => [Fifo!Next]_Queue
  BY FifoStep
<1> QED BY <1>1, <1>2, IInvHolds, PTL DEF Spec, TxIsFifo, Fifo!Spec

-----------------------------------------------------------------------------
(* Device d has rung the doorbell for a packet it has not counted yet.     *)
Done(d) == pc[d] \in {"index", "wrap", "unlock", "stats"}
Owed(d) == IF Done(d) THEN 1 ELSE 0

(* The places in the queue of frames that device d sent.                   *)
From(d) == {k \in 1 .. credits : buffers[Slot(hw_index, k - 1)].src = d}

(* The statistics, in these terms.                                         *)
Balanced(d) ==
  (tx_packets[d] + Owed(d)) % StatMod
    = (wire[d] + Cardinality(From(d))) % StatMod

(* StatsAccount says that each device's account is balanced.               *)
LEMMA AccountIsBalance ==
  /\ StatsAccount <=> \A d \in Netdevs : Balanced(d)
  /\ StatsAccount' <=> \A d \in Netdevs : Balanced(d)'
<1>1. \A d : {k \in 1 .. credits : Queue[k].src = d} = From(d)
  BY DEF Queue, FrameAt, From
<1>2. \A d : {k \in 1 .. credits' : Queue'[k].src = d} = From(d)'
  BY DEF Queue, FrameAt, From
<1> QED BY Zenon, <1>1, <1>2 DEF StatsAccount, Balanced, Owed, Done

(* The counters and the places are what they seem.                         *)
LEMMA AccountTypes ==
  ASSUME IInv, NEW d \in Netdevs
  PROVE  /\ StatMod \in Nat \ {0}
         /\ tx_packets[d] \in 0 .. StatMod - 1
         /\ wire[d] \in 0 .. StatMod - 1
         /\ credits \in Nat /\ hw_index \in Slots
         /\ From(d) \in SUBSET (1 .. credits)
         /\ Cardinality(From(d)) \in Nat
         /\ Owed(d) \in {0, 1}
<1>1. /\ StatMod \in Nat \ {0}
      /\ tx_packets[d] \in 0 .. StatMod - 1
      /\ wire[d] \in 0 .. StatMod - 1
      /\ credits \in Nat /\ hw_index \in Slots
  BY BufsAssumption, DataAssumption DEF IInv, TypeOK
<1>2. From(d) \in SUBSET (1 .. credits)
  BY DEF From
<1>3. Cardinality(From(d)) \in Nat
  BY <1>1, <1>2, Positions
<1> QED BY <1>1, <1>2, <1>3 DEF Owed

(* The steps that touch the account: the doorbell, the statistics and the  *)
(* hardware's release.                                                     *)
LEMMA AccountSteps ==
  ASSUME IInv, [Next]_vars
  PROVE  \/ /\ UNCHANGED <<tx_packets, wire, credits, hw_index>>
            /\ \A d \in Netdevs : Done(d)' <=> Done(d)
         \/ \E s \in Senders : RingDoorbell(s)
         \/ \E d \in Netdevs : XmitStats(d)
         \/ HwRelease
<1> DEFINE Quiet == /\ UNCHANGED <<tx_packets, wire, credits, hw_index>>
                    /\ \A d \in Netdevs : Done(d)' <=> Done(d)
<1>1. pc \in [Senders -> InRegion \cup {"idle", "lock", "stats"}]
  BY DEF IInv, TypeOK
<1>2. ASSUME NEW d \in Netdevs,
             \/ XmitReject(d) \/ XmitEnter(d) \/ XmitLock(d)
             \/ XmitFull(d) \/ XmitUnlock(d)
      PROVE  Quiet
  BY <1>1, <1>2 DEF XmitReject, XmitEnter, XmitLock, XmitFull, XmitUnlock,
                    Done, Senders, hwVars, statVars
<1>3. ASSUME NEW a \in Apps, GenlEnter(a) \/ GenlFull(a) \/ GenlReturn(a)
      PROVE  Quiet
  BY <1>1, <1>3, SenderAssumption
  DEF GenlEnter, GenlFull, GenlReturn, Done, Senders, hwVars, statVars
<1>4. ASSUME NEW s \in Senders, RingWork(s), ~RingDoorbell(s)
      PROVE  Quiet
  BY <1>1, <1>4 DEF RingWork, FoundFree, CopyMessage, FillMetadata, MarkFull,
                    AdvanceIndex, WrapIndex, Done, Senders, hwVars, statVars
<1>5. CASE ProbeFinds \/ ProbeStarts \/ HwFetch \/ UNCHANGED vars
  BY <1>5 DEF ProbeFinds, ProbeStarts, HwFetch, Done, vars, hwVars, statVars
<1> QED BY <1>2, <1>3, <1>4, <1>5
        DEF Next, nf10_ndo_start_xmit, genl_cmd_dma_tx, Senders

(* A step that leaves the hardware's end alone leaves the places alone.    *)
LEMMA PlacesKept ==
  ASSUME OneInterface, IInv, [Next]_vars, UNCHANGED <<credits, hw_index>>
  PROVE  \A d : From(d)' = From(d)
<1>1. ASSUME NEW k \in 1 .. credits
      PROVE  buffers'[Slot(hw_index, k - 1)] = buffers[Slot(hw_index, k - 1)]
  <2>1. k - 1 \in 0 .. credits - 1
    BY DEF IInv, TypeOK
  <2> QED BY <2>1, QueuedUntouched
<1> QED BY <1>1 DEF From, Slot

(* The doorbell adds the sender's frame at the end of the queue, and the   *)
(* sender owes one packet to its statistics.                               *)
LEMMA DoorbellBalance ==
  ASSUME OneInterface, IInv, NEW s \in Senders, RingDoorbell(s),
         NEW d \in Netdevs, Balanced(d)
  PROVE  Balanced(d)'
<1>1. /\ pc[s] = "doorbell" /\ pc' = [pc EXCEPT ![s] = "index"]
      /\ credits' = credits + 1
      /\ UNCHANGED <<buffers, hw_index, tx_packets, wire>>
  BY DEF RingDoorbell, ringVars, statVars
<1>2. buf_index = Slot(hw_index, credits) /\ buffers[buf_index].src = s
  <2>1. buf_index = Slot(hw_index, credits)
    BY HandOver
  <2>2. buffers[buf_index] = [src |-> s, bytes |-> req[s].len]
    BY <1>1 DEF IInv, InProgress
  <2> QED BY <2>1, <2>2
<1>3. /\ StatMod \in Nat \ {0} /\ tx_packets[d] \in 0 .. StatMod - 1
      /\ wire[d] \in 0 .. StatMod - 1 /\ credits \in Nat
      /\ From(d) \in SUBSET (1 .. credits) /\ Cardinality(From(d)) \in Nat
  BY AccountTypes
<1>4. CASE s = d
  <2>1. From(d)' = From(d) \cup {credits + 1}
    BY <1>1, <1>2, <1>3, <1>4 DEF From, Slot
  <2>2. Cardinality(From(d)') = Cardinality(From(d)) + 1
    BY <1>3, <2>1, Appended
  <2>3. Owed(d) = 0 /\ Owed(d)' = 1
    BY <1>1, <1>4 DEF Owed, Done, IInv, TypeOK, Senders
  <2> DEFINE a == tx_packets[d]
             b == wire[d] + Cardinality(From(d))
  <2>4. a \in Int /\ b \in Int /\ a % StatMod = b % StatMod
    <3>1. a \in Int /\ b \in Int /\ a + 0 = a
      BY <1>3
    <3> QED BY Zenon, <2>3, <3>1 DEF Balanced
  <2>5. (a + 1) % StatMod = (b + 1) % StatMod
    <3>1. 1 \in Int
      OBVIOUS
    <3> QED BY Zenon, <1>3, <2>4, <3>1, SameCount
  <2>6. b + 1 = wire[d] + (Cardinality(From(d)) + 1)
    BY <1>3
  <2> QED BY <1>1, <2>2, <2>3, <2>5, <2>6 DEF Balanced
<1>5. CASE s # d
  <2>1. From(d)' = From(d)
    BY <1>1, <1>2, <1>3, <1>5 DEF From, Slot
  <2>2. Owed(d)' = Owed(d)
    BY <1>1, <1>5 DEF Owed, Done, IInv, TypeOK, Senders
  <2> QED BY <1>1, <2>1, <2>2 DEF Balanced
<1> QED BY <1>4, <1>5

(* The statistics count the packet that was owed.                          *)
LEMMA StatsBalance ==
  ASSUME OneInterface, IInv, [Next]_vars, NEW e \in Netdevs, XmitStats(e),
         NEW d \in Netdevs, Balanced(d)
  PROVE  Balanced(d)'
<1>1. /\ pc[e] = "stats" /\ pc' = [pc EXCEPT ![e] = "idle"]
      /\ tx_packets' = [tx_packets EXCEPT ![e] = (@ + 1) % StatMod]
      /\ UNCHANGED <<credits, hw_index, wire>>
  BY DEF XmitStats, hwVars
<1>2. From(d)' = From(d)
  BY <1>1, PlacesKept
<1>3. /\ StatMod \in Nat \ {0} /\ tx_packets[d] \in 0 .. StatMod - 1
      /\ tx_packets \in [Netdevs -> 0 .. StatMod - 1]
  BY AccountTypes DEF IInv, TypeOK
<1>4. CASE e = d
  <2>1. Owed(d) = 1 /\ Owed(d)' = 0
    BY <1>1, <1>4 DEF Owed, Done, IInv, TypeOK, Senders
  <2> DEFINE r == (tx_packets[d] + 1) % StatMod
  <2>2. tx_packets'[d] = r
    BY <1>1, <1>3, <1>4
  <2>3. r \in 0 .. StatMod - 1
    BY <1>3, Counted
  <2>4. r % StatMod = r /\ r + 0 = r
    BY <1>3, <2>3, Small
  <2> QED BY Zenon, <1>1, <1>2, <2>1, <2>2, <2>4 DEF Balanced
<1>5. CASE e # d
  <2>1. Owed(d)' = Owed(d) /\ tx_packets'[d] = tx_packets[d]
    BY <1>1, <1>3, <1>5 DEF Owed, Done, IInv, TypeOK, Senders
  <2> QED BY <1>1, <1>2, <2>1 DEF Balanced
<1> QED BY <1>4, <1>5

(* The hardware releases the oldest buffer and counts the frame it took    *)
(* from it.                                                                *)
LEMMA ReleaseBalance ==
  ASSUME IInv, HwRelease, NEW d \in Netdevs, Balanced(d)
  PROVE  Balanced(d)'
<1>1. /\ hw_index' = Slot(hw_index, 1) /\ credits' = credits - 1
      /\ hw_frame # NoFrame
      /\ wire' = IF hw_frame.src \in Netdevs
                 THEN [wire EXCEPT ![hw_frame.src] = (@ + 1) % StatMod]
                 ELSE wire
      /\ UNCHANGED <<buffers, pc, tx_packets>>
  BY DEF HwRelease, statVars
<1>2. /\ StatMod \in Nat \ {0} /\ tx_packets[d] \in 0 .. StatMod - 1
      /\ wire[d] \in 0 .. StatMod - 1 /\ credits \in Nat
      /\ hw_index \in Slots
      /\ From(d) \in SUBSET (1 .. credits) /\ Cardinality(From(d)) \in Nat
      /\ wire \in [Netdevs -> 0 .. StatMod - 1]
      /\ credits \in 0 .. DMA_CPU_BUFS
  BY AccountTypes DEF IInv, TypeOK
<1>3. credits > 0 /\ hw_frame.src = buffers[hw_index].src
  BY <1>1 DEF IInv, FramesWhole, FrameAt
<1>4. From(d)' = {i \in 1 .. credits - 1 : i + 1 \in From(d)}
  <2>1. ASSUME NEW k \in 1 .. credits - 1
        PROVE  Slot(hw_index', k - 1) = Slot(hw_index, (k + 1) - 1)
    <3>1. /\ k - 1 \in 0 .. DMA_CPU_BUFS - 1 /\ (k - 1) + 1 = k
          /\ (k + 1) - 1 = k
      BY <1>2, BufsAssumption
    <3> QED BY <1>1, <1>2, <3>1, SlotShift
  <2>2. \A k \in 1 .. credits - 1 : k + 1 \in 1 .. credits
    BY <1>2
  <2> QED BY <1>1, <2>1, <2>2 DEF From
<1>5. 1 \in From(d) <=> hw_frame.src = d
  <2>1. 1 \in 1 .. credits /\ Slot(hw_index, 1 - 1) = hw_index
    BY <1>2, <1>3, SlotTurn
  <2> QED BY <1>3, <2>1 DEF From
<1>6. Owed(d)' = Owed(d)
  BY <1>1 DEF Owed, Done
<1>7. CASE hw_frame.src = d
  <2> DEFINE c == Cardinality(From(d)) - 1
             w == wire[d]
  <2>1. Cardinality(From(d)') = c
    BY <1>2, <1>4, <1>5, <1>7, HeadGone
  <2>2. wire'[d] = (w + 1) % StatMod
    BY <1>1, <1>2, <1>7
  <2>3. c \in Int /\ w + 1 + c = w + Cardinality(From(d))
    BY <1>2
  <2>4. (((w + 1) % StatMod) + c) % StatMod = (w + 1 + c) % StatMod
    BY <1>2, <2>3, Counted
  <2> QED BY Zenon, <1>1, <1>6, <2>1, <2>2, <2>3, <2>4 DEF Balanced
<1>8. CASE hw_frame.src # d
  <2>1. Cardinality(From(d)') = Cardinality(From(d))
    BY <1>2, <1>4, <1>5, <1>8, HeadGone
  <2>2. wire'[d] = wire[d]
    BY <1>1, <1>2, <1>8
  <2> QED BY <1>1, <1>6, <2>1, <2>2 DEF Balanced
<1> QED BY <1>7, <1>8

(* The statistics tell the truth: with network devices and DMA_TX used one *)
(* at a time, tx_packets of a device, with the packet it is about to count,*)
(* is what the hardware took of it plus what waits in the ring, whatever   *)
(* the width of the counters.                                              *)
THEOREM Accounting == ASSUME OneInterface PROVE Spec => []StatsAccount
<1>1. Init => StatsAccount
  <2> SUFFICES ASSUME Init, NEW d \in Netdevs PROVE Balanced(d)
    BY AccountIsBalance
  <2>1. credits = 0 /\ tx_packets[d] = 0 /\ wire[d] = 0 /\ pc[d] = "idle"
    BY DEF Init, Senders
  <2>2. From(d) = {} /\ Owed(d) = 0
    BY <2>1 DEF From, Owed, Done
  <2>3. Cardinality(From(d)) = 0
    BY <2>2, FS_EmptySet
  <2> QED BY <2>1, <2>2, <2>3 DEF Balanced
<1>2. IInv /\ [Next]_vars /\ StatsAccount => StatsAccount'
  <2> SUFFICES ASSUME IInv, [Next]_vars, StatsAccount, NEW d \in Netdevs
               PROVE  Balanced(d)'
    BY AccountIsBalance
  <2>1. Balanced(d)
    BY AccountIsBalance
  <2>2. CASE /\ UNCHANGED <<tx_packets, wire, credits, hw_index>>
             /\ \A e \in Netdevs : Done(e)' <=> Done(e)
    <3>1. From(d)' = From(d)
      BY <2>2, PlacesKept
    <3> QED BY Zenon, <2>1, <2>2, <3>1 DEF Balanced, Owed
  <2>3. ASSUME NEW s \in Senders, RingDoorbell(s) PROVE Balanced(d)'
    BY <2>1, <2>3, DoorbellBalance
  <2>4. ASSUME NEW e \in Netdevs, XmitStats(e) PROVE Balanced(d)'
    BY <2>1, <2>4, StatsBalance
  <2>5. CASE HwRelease
    BY <2>1, <2>5, ReleaseBalance
  <2> QED BY <2>2, <2>3, <2>4, <2>5, AccountSteps
<1> QED BY <1>1, <1>2, IInvHolds, PTL DEF Spec
=============================================================================
