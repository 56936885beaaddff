---------------------------- MODULE RxDmaProofs -----------------------------
(***************************************************************************)
(* Proofs about RxDma, for every number of buffers, every budget, all      *)
(* payloads and opcodes and every set of commands: as long as DMA_RX and   *)
(* NAPI_ENABLE are issued only while the polling rests, the inductive      *)
(* invariant IInv holds, and with it type correctness, the single token    *)
(* that drives the polling, agreement of the driver and the hardware about *)
(* the ring, the refinement of the bounded FIFO, and statistics that tell  *)
(* the truth.                                                              *)
(***************************************************************************)
EXTENDS RxDma, SequenceTheorems, QueueCounting, TLAPS

(* How the environment uses the two commands. *)
Quietly == Discipline = "quiet"

PcType == pc \in [Contexts -> InRegion \cup {"idle", "schedule", "rearm", "add"}]
NapiType == timer \in {"idle", "pending"} /\ sched \in BOOLEAN

-----------------------------------------------------------------------------
(* Ring arithmetic, as in the transmit ring: walking the ring stays in it. *)
LEMMA SlotType ==
  ASSUME NEW i \in Slots, NEW k \in 0 .. DMA_CPU_BUFS
  PROVE  Slot(i, k) \in Slots
BY BufsAssumption DEF Slot, Slots

(* Different distances lead to different buffers. *)
LEMMA SlotInjective ==
  ASSUME NEW i \in Slots, NEW j \in 0 .. DMA_CPU_BUFS - 1,
         NEW k \in 0 .. DMA_CPU_BUFS - 1, Slot(i, j) = Slot(i, k)
  PROVE  j = k
BY BufsAssumption DEF Slot, Slots

(* One step before or after walking k buffers is walking k + 1. *)
LEMMA SlotShift ==
  ASSUME NEW i \in Slots, NEW k \in 0 .. DMA_CPU_BUFS - 1
  PROVE  /\ Slot(Slot(i, 1), k) = Slot(i, k + 1)
         /\ Slot(Slot(i, k), 1) = Slot(i, k + 1)
BY BufsAssumption DEF Slot, Slots

(* Walking nothing or the whole ring leads nowhere. *)
LEMMA SlotTurn ==
  ASSUME NEW i \in Slots
  PROVE  Slot(i, 0) = i /\ Slot(i, DMA_CPU_BUFS) = i
BY BufsAssumption DEF Slot, Slots

-----------------------------------------------------------------------------
(* The token that drives the polling survives every step of the timer. *)
LEMMA TokenTimer ==
  ASSUME PcType, NapiType, Token, TimerExpires \/ rx_poll_timer_cb
  PROVE  Token'
<1> USE DEF PcType, NapiType, Token, Quiet, Contexts, InRegion, Goto, napiVars
<1>1. CASE TimerExpires
  BY <1>1 DEF TimerExpires
<1>2. CASE TimerCheck
  BY <1>2 DEF TimerCheck
<1>3. CASE TimerSchedules
  BY <1>3 DEF TimerSchedules
<1>4. CASE TimerRearms
  BY <1>4 DEF TimerRearms, AddTimer
<1> QED BY <1>1, <1>2, <1>3, <1>4 DEF rx_poll_timer_cb

(* It survives every step that gives a buffer back. *)
LEMMA TokenGiveBack ==
  ASSUME PcType, NapiType, Token, NEW c \in {"poll", "genl"}, GiveBack(c)
  PROVE  Token'
<1> USE DEF PcType, NapiType, Token, Quiet, Contexts, InRegion, Goto, napiVars
<1>1. CASE MarkEmpty(c)
  BY <1>1 DEF MarkEmpty
<1>2. CASE RingDoorbell(c)
  BY <1>2 DEF RingDoorbell
<1>3. CASE AdvanceIndex(c)
  BY <1>3 DEF AdvanceIndex
<1>4. CASE WrapIndex(c)
  BY <1>4 DEF WrapIndex
<1> QED BY <1>1, <1>2, <1>3, <1>4 DEF GiveBack

(* It survives every step of the poll. *)
LEMMA TokenPoll ==
  ASSUME PcType, NapiType, Token, PollStart \/ nf10_napi_struct_poll
  PROVE  Token'
<1> USE DEF PcType, NapiType, Token, Quiet, Contexts, InRegion, Goto, napiVars
<1>1. CASE PollStart
  BY <1>1 DEF PollStart
<1>2. CASE PollLoop
  BY <1>2 DEF PollLoop
<1>3. CASE PollBadOpcode \/ PollNoMemory \/ PollDeliver
  BY <1>3 DEF PollBadOpcode, PollNoMemory, PollDeliver
<1>4. CASE PollNext
  BY <1>4 DEF PollNext
<1>5. CASE PollComplete
  BY <1>5 DEF PollComplete
<1>6. CASE PollRearms
  BY <1>6 DEF PollRearms, AddTimer
<1>7. CASE PollMore
  BY <1>7 DEF PollMore
<1> QED
  BY <1>1, <1>2, <1>3, <1>4, <1>5, <1>6, <1>7, TokenGiveBack
  DEF nf10_napi_struct_poll

(* It survives the commands, because they come only while polling rests. *)
LEMMA TokenCommands ==
  ASSUME Quietly, PcType, NapiType, Token,
         \/ GenlRxEnter \/ genl_cmd_dma_rx
         \/ GenlEnableDel \/ GenlEnableAdd \/ genl_cmd_napi_disable
  PROVE  Token'
<1> USE DEF PcType, NapiType, Token, Quiet, Contexts, InRegion, Goto, napiVars,
            Quietly, Allowed, MayIssue
<1>1. CASE GenlRxEnter
  BY <1>1 DEF GenlRxEnter
<1>2. CASE GenlRxNothing \/ GenlRxPut \/ GenlRxReply
  BY <1>2 DEF GenlRxNothing, GenlRxPut, GenlRxReply
<1>3. CASE GenlEnableDel
  BY <1>3 DEF GenlEnableDel
<1>4. CASE GenlEnableAdd
  BY <1>4 DEF GenlEnableAdd, AddTimer
<1>5. CASE genl_cmd_napi_disable
  BY <1>5 DEF genl_cmd_napi_disable
<1> QED BY <1>1, <1>2, <1>3, <1>4, <1>5, TokenGiveBack DEF genl_cmd_dma_rx

(* So it survives every step. *)
LEMMA TokenStep ==
  ASSUME Quietly, PcType, NapiType, Token, [Next]_vars
  PROVE  Token'
<1>1. CASE HwWrite \/ HwFlag \/ UNCHANGED vars
  BY <1>1 DEF HwWrite, HwFlag, vars, napiVars, Token, Quiet
<1> QED BY <1>1, TokenTimer, TokenPoll, TokenCommands DEF Next

-----------------------------------------------------------------------------
(* A step of giving a buffer back, by the poll or by DMA_RX. *)
GiveBackBy(A(_)) == \E c \in {"poll", "genl"} : A(c)

(* Which steps touch which part of the state. *)
LEMMA Changes ==
  ASSUME [Next]_vars
  PROVE  /\ UNCHANGED frames \/ HwWrite
         /\ UNCHANGED flags \/ HwFlag \/ GiveBackBy(MarkEmpty)
         /\ UNCHANGED buf_index \/ GiveBackBy(AdvanceIndex)
                                \/ GiveBackBy(WrapIndex)
         /\ UNCHANGED credits \/ HwFlag \/ GiveBackBy(RingDoorbell)
         /\ UNCHANGED hw_index \/ HwFlag
         /\ UNCHANGED hw_busy \/ HwFlag \/ HwWrite
         /\ UNCHANGED arrived \/ HwFlag \/ GiveBackBy(MarkEmpty)
         /\ UNCHANGED poll_index \/ PollStart \/ PollNext
         /\ UNCHANGED n_rx \/ PollStart \/ PollNext
         /\ UNCHANGED <<fate, skb>> \/ PollBadOpcode \/ PollNoMemory
                                    \/ PollDeliver \/ PollNext
         /\ UNCHANGED work \/ PollRearms \/ PollMore
         /\ UNCHANGED rx_packets \/ PollDeliver
         /\ UNCHANGED rx_dropped \/ PollNext
<1> USE DEF ringVars, napiVars, pollVars, hwVars, statVars, GiveBackBy
<1>1. CASE HwWrite \/ HwFlag \/ UNCHANGED vars
  BY <1>1 DEF HwWrite, HwFlag, vars
<1>2. CASE TimerExpires \/ rx_poll_timer_cb
  BY <1>2 DEF TimerExpires, rx_poll_timer_cb, TimerCheck, TimerSchedules,
              TimerRearms
<1>3. CASE PollStart \/ PollLoop \/ PollBadOpcode \/ PollNoMemory \/ PollDeliver
  BY <1>3 DEF PollStart, PollLoop, PollBadOpcode, PollNoMemory, PollDeliver
<1>4. CASE PollNext \/ PollComplete \/ PollRearms \/ PollMore
  BY <1>4 DEF PollNext, PollComplete, PollRearms, PollMore
<1>5. ASSUME NEW c \in {"poll", "genl"}, GiveBack(c)
      PROVE  /\ UNCHANGED flags \/ MarkEmpty(c)
             /\ UNCHANGED credits \/ RingDoorbell(c)
             /\ UNCHANGED buf_index \/ AdvanceIndex(c) \/ WrapIndex(c)
             /\ UNCHANGED <<frames, pollVars, statVars>>
             /\ UNCHANGED <<hw_index, hw_busy>>
             /\ UNCHANGED arrived \/ MarkEmpty(c)
  BY <1>5 DEF GiveBack, MarkEmpty, RingDoorbell, AdvanceIndex, WrapIndex
<1>6. CASE \E c \in {"poll", "genl"} : GiveBack(c)
  BY <1>5, <1>6
<1>7. CASE GenlRxEnter \/ GenlRxNothing \/ GenlRxPut \/ GenlRxReply
  BY <1>7 DEF GenlRxEnter, GenlRxNothing, GenlRxPut, GenlRxReply
<1>8. CASE GenlEnableDel \/ GenlEnableAdd \/ genl_cmd_napi_disable
  BY <1>8 DEF GenlEnableDel, GenlEnableAdd, genl_cmd_napi_disable
<1> QED
  BY <1>1, <1>2, <1>3, <1>4, <1>6, <1>7, <1>8
  DEF Next, nf10_napi_struct_poll, genl_cmd_dma_rx

(* While one context is in the ring, the other is not. *)
LEMMA AtStep ==
  ASSUME PcType, Token, NEW c \in {"poll", "genl"}, pc[c] \in InRegion,
         NEW m, pc' = [pc EXCEPT ![c] = m]
  PROVE  /\ \A l \in InRegion : At(l) <=> pc[c] = l
         /\ \A l \in InRegion : At(l)' <=> m = l
BY DEF PcType, Token, Quiet, InRegion, At, Contexts

(* The ring seen from the driver's side. *)
LEMMA RingFacts ==
  ASSUME IInv
  PROVE  /\ Oldest \in Slots
         /\ Filled \in 0 .. DMA_CPU_BUFS
         /\ ~At("wrap") => buf_index \in Slots
         /\ flags[Oldest] = 1 <=> Filled > 0
<1> USE BufsAssumption DEF IInv
<1>1. ~At("wrap") => buf_index \in Slots
  BY DEF TypeOK, IndexHeld, Slots
<1>2. Filled \in 0 .. DMA_CPU_BUFS
  BY DEF TypeOK, RingAgrees, Filled
<1>3. Oldest \in Slots
  <2>1. At("doorbell") \/ At("advance") => ~At("wrap")
    BY DEF At, Token, Quiet, InRegion
  <2>2. At("doorbell") \/ At("advance") => Slot(buf_index, 1) \in Slots
    BY <1>1, <2>1, SlotType
  <2> QED BY <1>1, <2>2 DEF Oldest, Slots
<1>4. flags[Slot(Oldest, 0)] = 1 <=> 0 < Filled
  BY DEF RingAgrees
<1> QED BY <1>1, <1>2, <1>3, <1>4, SlotTurn

-----------------------------------------------------------------------------
(* What a step that gives a buffer back does to the ring: the locations,   *)
(* the oldest full buffer and the number of full buffers.                  *)
LEMMA MarkEmptyStep ==
  ASSUME IInv, NEW c \in {"poll", "genl"}, MarkEmpty(c)
  PROVE  /\ flags' = [flags EXCEPT ![Oldest] = 0]
         /\ Oldest = buf_index
         /\ Oldest' = Slot(Oldest, 1)
         /\ Filled > 0
         /\ Filled' = Filled - 1
         /\ \A l \in InRegion : At(l)' <=> l = "doorbell"
<1> USE BufsAssumption DEF IInv
<1>1. /\ pc[c] = "clear" /\ pc' = [pc EXCEPT ![c] = "doorbell"]
      /\ flags' = [flags EXCEPT ![IndexOf(c)] = 0]
      /\ UNCHANGED <<buf_index, credits, poll_index>>
  BY DEF MarkEmpty, Goto, hwVars, pollVars
<1>2. /\ \A l \in InRegion : At(l) <=> l = "clear"
      /\ \A l \in InRegion : At(l)' <=> l = "doorbell"
  BY <1>1, AtStep DEF InRegion, TypeOK, PcType
<1>3. Oldest = buf_index /\ Filled = DMA_CPU_BUFS - credits /\ Filled > 0
  BY <1>2 DEF Oldest, Filled, IndexHeld, InRegion, TypeOK
<1>4. IndexOf(c) = buf_index
  BY <1>1 DEF IndexOf, IndexHeld
<1>5. Oldest' = Slot(buf_index, 1) /\ Filled' = DMA_CPU_BUFS - credits - 1
  BY <1>1, <1>2 DEF Oldest, Filled, InRegion, Slot, TypeOK
<1> QED BY <1>1, <1>2, <1>3, <1>4, <1>5 DEF TypeOK

(* The doorbell adds a credit, and the ring has room for it. *)
LEMMA DoorbellStep ==
  ASSUME IInv, NEW c \in {"poll", "genl"}, RingDoorbell(c)
  PROVE  /\ credits < DMA_CPU_BUFS
         /\ Oldest' = Oldest
         /\ Filled' = Filled
         /\ \A l \in InRegion : At(l)' <=> l = "advance"
<1> USE BufsAssumption DEF IInv
<1>1. /\ pc[c] = "doorbell" /\ pc' = [pc EXCEPT ![c] = "advance"]
      /\ credits' = credits + 1 /\ UNCHANGED buf_index
  BY DEF RingDoorbell, Goto, ringVars
<1>2. /\ \A l \in InRegion : At(l) <=> l = "doorbell"
      /\ \A l \in InRegion : At(l)' <=> l = "advance"
  BY <1>1, AtStep DEF InRegion, TypeOK, PcType
<1>3. Filled = DMA_CPU_BUFS - credits - 1 /\ Filled' = DMA_CPU_BUFS - (credits + 1)
  BY <1>1, <1>2 DEF Filled, InRegion, TypeOK
<1>4. Oldest' = Oldest
  BY <1>1, <1>2 DEF Oldest, InRegion, Slot
<1> QED BY <1>2, <1>3, <1>4 DEF TypeOK, RingAgrees

(* The index moves on, past the end of the ring at the last buffer. *)
LEMMA AdvanceStep ==
  ASSUME IInv, NEW c \in {"poll", "genl"}, AdvanceIndex(c)
  PROVE  /\ buf_index < DMA_CPU_BUFS
         /\ Oldest' = Oldest
         /\ Filled' = Filled
         /\ \A l \in InRegion : At(l)' <=>
              l = IF buf_index + 1 = DMA_CPU_BUFS THEN "wrap" ELSE "next"
<1> USE BufsAssumption DEF IInv
<1>1. /\ pc[c] = "advance" /\ buf_index' = buf_index + 1
      /\ pc' = [pc EXCEPT ![c] = IF buf_index + 1 = DMA_CPU_BUFS THEN "wrap"
                                                               ELSE "next"]
      /\ UNCHANGED credits
  BY DEF AdvanceIndex, Goto, hwVars
<1>2. /\ \A l \in InRegion : At(l) <=> l = "advance"
      /\ \A l \in InRegion : At(l)' <=>
           l = IF buf_index + 1 = DMA_CPU_BUFS THEN "wrap" ELSE "next"
  BY <1>1, AtStep DEF InRegion, TypeOK, PcType
<1>3. buf_index \in Slots
  BY <1>2, RingFacts DEF InRegion
<1>4. Filled' = Filled
  BY <1>1, <1>2 DEF Filled, InRegion, TypeOK
<1>5. Oldest' = Oldest
  BY <1>1, <1>2, <1>3 DEF Oldest, InRegion, Slot, Slots
<1> QED BY <1>2, <1>3, <1>4, <1>5 DEF Slots

(* From there it returns to the first buffer. *)
LEMMA WrapStep ==
  ASSUME IInv, NEW c \in {"poll", "genl"}, WrapIndex(c)
  PROVE  /\ buf_index' = 0
         /\ Oldest' = Oldest
         /\ Filled' = Filled
         /\ \A l \in InRegion : At(l)' <=> l = "next"
<1> USE DEF IInv
<1>1. /\ pc[c] = "wrap" /\ pc' = [pc EXCEPT ![c] = "next"]
      /\ buf_index' = 0 /\ UNCHANGED credits
  BY DEF WrapIndex, Goto, hwVars
<1>2. /\ \A l \in InRegion : At(l) <=> l = "wrap"
      /\ \A l \in InRegion : At(l)' <=> l = "next"
  BY <1>1, AtStep DEF InRegion, TypeOK, PcType
<1> QED BY <1>1, <1>2 DEF Oldest, Filled, InRegion

(* All other steps leave the driver's side of the ring alone. *)
LEMMA OtherSteps ==
  ASSUME IInv, Quietly, [Next]_vars, ~HwFlag,
         ~(\E c \in {"poll", "genl"} : GiveBack(c))
  PROVE  /\ Oldest' = Oldest
         /\ Filled' = Filled
         /\ UNCHANGED <<flags, buf_index, credits, hw_index>>
         /\ \A l \in {"doorbell", "advance", "wrap"} : At(l)' <=> At(l)
<1>1. UNCHANGED <<flags, buf_index, credits, hw_index>>
  BY Changes DEF GiveBackBy, GiveBack
<1>2. \A l \in {"doorbell", "advance", "wrap"} : At(l)' <=> At(l)
  <2> USE DEF IInv, TypeOK, Contexts, At, Goto
  <2>1. CASE HwWrite \/ UNCHANGED vars
    BY <2>1 DEF HwWrite, vars
  <2>2. CASE TimerExpires \/ TimerCheck \/ TimerSchedules \/ TimerRearms
    BY <2>2 DEF TimerExpires, TimerCheck, TimerSchedules, TimerRearms
  <2>3. CASE PollStart \/ PollLoop \/ PollBadOpcode \/ PollNoMemory
             \/ PollDeliver
    BY <2>3 DEF PollStart, PollLoop, PollBadOpcode, PollNoMemory, PollDeliver
  <2>4. CASE PollNext \/ PollComplete \/ PollRearms \/ PollMore
    BY <2>4 DEF PollNext, PollComplete, PollRearms, PollMore
  <2>5. CASE GenlRxEnter \/ GenlRxNothing \/ GenlRxPut \/ GenlRxReply
    BY <2>5 DEF GenlRxEnter, GenlRxNothing, GenlRxPut, GenlRxReply, MayIssue
  <2>6. CASE GenlEnableDel \/ GenlEnableAdd \/ genl_cmd_napi_disable
    BY <2>6 DEF GenlEnableDel, GenlEnableAdd, genl_cmd_napi_disable, MayIssue
  <2> QED
    BY <2>1, <2>2, <2>3, <2>4, <2>5, <2>6
    DEF Next, rx_poll_timer_cb, nf10_napi_struct_poll, genl_cmd_dma_rx
<1> QED BY <1>1, <1>2 DEF Oldest, Filled, Slot

-----------------------------------------------------------------------------
(* What the hardware does to the ring when it writes its flag. *)
LEMMA HwFlagStep ==
  ASSUME IInv, HwFlag
  PROVE  /\ credits > 0
         /\ Filled < DMA_CPU_BUFS
         /\ hw_index = Slot(Oldest, Filled)
         /\ Oldest' = Oldest
         /\ Filled' = Filled + 1
         /\ \A l : At(l)' <=> At(l)
         /\ flags' = [flags EXCEPT ![hw_index] = 1]
         /\ hw_index' = Slot(hw_index, 1)
<1> USE BufsAssumption DEF IInv
<1>1. /\ hw_busy /\ credits' = credits - 1 /\ UNCHANGED <<buf_index, pc>>
      /\ flags' = [flags EXCEPT ![hw_index] = 1]
      /\ hw_index' = Slot(hw_index, 1)
  BY DEF HwFlag
<1>2. credits > 0 /\ credits \in 0 .. DMA_CPU_BUFS
  BY <1>1 DEF RingAgrees, TypeOK
<1>3. \A l : At(l)' <=> At(l)
  BY <1>1 DEF At
<1>4. Filled < DMA_CPU_BUFS /\ Filled' = Filled + 1
  BY <1>1, <1>2, <1>3 DEF Filled
<1>5. Oldest' = Oldest
  BY <1>1, <1>3 DEF Oldest, Slot
<1> QED BY <1>1, <1>2, <1>3, <1>4, <1>5 DEF RingAgrees

(* Driver and hardware agree about the ring after every step. *)
LEMMA RingStep ==
  ASSUME IInv, Quietly, [Next]_vars
  PROVE  RingAgrees'
<1> USE BufsAssumption DEF IInv
<1>0. /\ flags \in [Slots -> {0, 1}] /\ credits \in 0 .. DMA_CPU_BUFS
      /\ Oldest \in Slots /\ Filled \in 0 .. DMA_CPU_BUFS
      /\ hw_index \in Slots /\ hw_index = Slot(Oldest, Filled)
      /\ hw_busy => credits > 0
  BY RingFacts DEF TypeOK, RingAgrees
<1>1. \A k \in 0 .. DMA_CPU_BUFS - 1 :
        flags[Slot(Oldest, k)] = 1 <=> k < Filled
  BY DEF RingAgrees
<1>2. ASSUME Oldest' = Oldest, Filled' = Filled, UNCHANGED <<flags, hw_index>>,
             hw_busy' => credits' > 0
      PROVE  RingAgrees'
  BY <1>0, <1>1, <1>2 DEF RingAgrees, Slot
<1>3. ASSUME NEW c \in {"poll", "genl"}, MarkEmpty(c)
      PROVE  RingAgrees'
  <2>1. /\ flags' = [flags EXCEPT ![Oldest] = 0] /\ Oldest' = Slot(Oldest, 1)
        /\ Filled > 0 /\ Filled' = Filled - 1
    BY <1>3, MarkEmptyStep
  <2>2. UNCHANGED <<credits, hw_index, hw_busy>>
    BY <1>3 DEF MarkEmpty, hwVars
  <2>3. hw_index = Slot(Oldest', Filled')
    BY <1>0, <2>1, SlotShift
  <2>4. ASSUME NEW k \in 0 .. DMA_CPU_BUFS - 1
        PROVE  flags'[Slot(Oldest', k)] = 1 <=> k < Filled'
    <3>1. Slot(Oldest', k) = Slot(Oldest, k + 1)
      BY <1>0, <2>1, SlotShift
    <3>2. CASE k = DMA_CPU_BUFS - 1
      BY <1>0, <2>1, <3>1, <3>2, SlotTurn
    <3>3. CASE k # DMA_CPU_BUFS - 1
      <4>1. k + 1 \in 0 .. DMA_CPU_BUFS - 1 /\ Slot(Oldest, k + 1) \in Slots
        BY <1>0, <3>3, SlotType
      <4>2. Slot(Oldest, k + 1) # Oldest
        BY <1>0, <4>1, SlotInjective, SlotTurn
      <4> QED BY <1>0, <1>1, <2>1, <3>1, <4>1, <4>2
    <3> QED BY <3>2, <3>3
  <2> QED BY <1>0, <2>1, <2>2, <2>3, <2>4 DEF RingAgrees
<1>4. ASSUME NEW c \in {"poll", "genl"}, RingDoorbell(c)
      PROVE  RingAgrees'
  <2>1. /\ credits' = credits + 1
        /\ UNCHANGED <<flags, hw_index, hw_busy>>
    BY <1>4 DEF RingDoorbell, ringVars
  <2> QED BY <1>0, <1>2, <1>4, <2>1, DoorbellStep
<1>5. ASSUME NEW c \in {"poll", "genl"}, AdvanceIndex(c) \/ WrapIndex(c)
      PROVE  RingAgrees'
  <2>1. UNCHANGED <<flags, credits, hw_index, hw_busy>>
    BY <1>5 DEF AdvanceIndex, WrapIndex, hwVars
  <2> QED BY <1>0, <1>2, <1>5, <2>1, AdvanceStep, WrapStep
<1>6. CASE HwFlag
  <2>1. /\ Filled < DMA_CPU_BUFS /\ Oldest' = Oldest /\ Filled' = Filled + 1
        /\ flags' = [flags EXCEPT ![hw_index] = 1]
        /\ hw_index' = Slot(hw_index, 1)
    BY <1>6, HwFlagStep
  <2>2. ~hw_busy'
    BY <1>6 DEF HwFlag
  <2>3. hw_index' = Slot(Oldest', Filled')
    BY <1>0, <2>1, SlotShift
  <2>4. ASSUME NEW k \in 0 .. DMA_CPU_BUFS - 1
        PROVE  flags'[Slot(Oldest, k)] = 1 <=> k < Filled + 1
    <3>1. Slot(Oldest, k) \in Slots
      BY <1>0, SlotType
    <3>2. Slot(Oldest, k) = hw_index <=> k = Filled
      BY <1>0, <2>1, SlotInjective
    <3> QED BY <1>0, <1>1, <2>1, <3>1, <3>2
  <2> QED BY <1>0, <2>1, <2>2, <2>3, <2>4 DEF RingAgrees
<1>7. CASE ~HwFlag /\ ~(\E c \in {"poll", "genl"} : GiveBack(c))
  <2>1. /\ Oldest' = Oldest /\ Filled' = Filled
        /\ UNCHANGED <<flags, credits, hw_index>>
    BY <1>7, OtherSteps
  <2>2. hw_busy' => credits' > 0
    <3>1. CASE HwWrite
      BY <2>1, <3>1 DEF HwWrite
    <3>2. CASE ~HwWrite
      BY <1>0, <1>7, <2>1, <3>2, Changes
    <3> QED BY <3>1, <3>2
  <2> QED BY <1>2, <2>1, <2>2
<1> QED BY <1>3, <1>4, <1>5, <1>6, <1>7 DEF GiveBack

-----------------------------------------------------------------------------
(* What the poll knows stays true after every step. *)
LEMMA IndexStep ==
  ASSUME IInv, Quietly, [Next]_vars
  PROVE  IndexHeld'
<1> USE BufsAssumption DEF IInv
<1>0. /\ pc \in [Contexts -> InRegion \cup {"idle", "schedule", "rearm", "add"}]
      /\ Filled \in 0 .. DMA_CPU_BUFS /\ n_rx \in 0 .. Budget
      /\ buf_index \in 0 .. DMA_CPU_BUFS
  BY RingFacts DEF TypeOK
<1>1. ASSUME NEW c \in {"poll", "genl"}, GiveBack(c)
      PROVE  IndexHeld'
  <2>1. /\ pc[c] \in {"clear", "doorbell", "advance", "wrap"}
        /\ pc' = [pc EXCEPT ![c] = pc'[c]]
        /\ pc'[c] \in {"doorbell", "advance", "wrap", "next"}
        /\ UNCHANGED <<n_rx, poll_index>>
    BY <1>0, <1>1 DEF GiveBack, MarkEmpty, RingDoorbell, AdvanceIndex,
                      WrapIndex, Goto, Contexts, pollVars
  <2>2. \A l \in InRegion : At(l)' <=> l = pc'[c]
    BY <2>1, AtStep DEF InRegion, TypeOK, PcType
  <2>3. At("wrap")' <=> buf_index' = DMA_CPU_BUFS
    <3>1. CASE MarkEmpty(c)
      <4>1. Oldest = buf_index /\ Oldest \in Slots /\ ~At("wrap")'
        BY <3>1, MarkEmptyStep, RingFacts DEF InRegion
      <4> QED BY <3>1, <4>1 DEF MarkEmpty, Slots
    <3>2. CASE RingDoorbell(c)
      <4>1. pc[c] = "doorbell" /\ UNCHANGED buf_index
        BY <3>2 DEF RingDoorbell, ringVars
      <4>2. ~At("wrap")
        BY <2>1, <4>1, AtStep DEF InRegion, TypeOK, PcType
      <4> QED BY <3>2, <4>1, <4>2, DoorbellStep DEF IndexHeld, InRegion
    <3>3. CASE AdvanceIndex(c)
      BY <3>3, AdvanceStep DEF AdvanceIndex, InRegion
    <3>4. CASE WrapIndex(c)
      BY <3>4, WrapStep DEF InRegion
    <3> QED BY <1>1, <3>1, <3>2, <3>3, <3>4 DEF GiveBack
  <2>4. ~At("take")' /\ ~At("clear")'
    BY <2>1, <2>2 DEF InRegion
  <2>5. pc'["poll"] \notin {"loop", "take", "clear", "end"}
    BY <1>0, <2>1 DEF Token, Quiet, Contexts, InRegion
  <2>6. pc'["poll"] \in InRegion \ {"loop", "end"} => n_rx' < Budget
    BY <1>0, <2>1 DEF Token, Quiet, Contexts, InRegion, IndexHeld
  <2> QED BY <2>3, <2>4, <2>5, <2>6 DEF IndexHeld
<1>2. CASE HwFlag
  <2>1. UNCHANGED <<pc, buf_index, poll_index, n_rx>>
    BY <1>2 DEF HwFlag, pollVars
  <2> QED BY <1>0, <1>2, <2>1, HwFlagStep DEF IndexHeld
<1>3. CASE ~HwFlag /\ ~(\E c \in {"poll", "genl"} : GiveBack(c))
  <2>1. /\ Filled' = Filled /\ UNCHANGED <<flags, buf_index>>
        /\ At("wrap")' <=> At("wrap")
    BY <1>3, OtherSteps
  <2>2. (At("take") \/ At("clear"))' => Filled' > 0
    <3>1. CASE PollLoop
      <4>1. /\ pc["poll"] = "loop" /\ poll_index = buf_index
            /\ pc'["poll"] = "take" => flags[poll_index] = 1
            /\ pc'["poll"] \in {"take", "end"} /\ pc'["genl"] = pc["genl"]
            /\ pc["genl"] = "idle"
        BY <1>0, <3>1 DEF PollLoop, Goto, Contexts, IndexHeld, Token, Quiet,
                          InRegion
      <4>2. Oldest = buf_index
        BY <4>1 DEF Oldest, At
      <4> QED BY <2>1, <4>1, <4>2, RingFacts DEF At
    <3>2. CASE GenlRxPut
      <4>1. /\ pc["genl"] = "check" /\ flags[buf_index] = 1
            /\ pc["poll"] = "idle"
        BY <3>2 DEF GenlRxPut, Token, Quiet
      <4>2. Oldest = buf_index
        BY <4>1 DEF Oldest, At
      <4> QED BY <2>1, <4>1, <4>2, RingFacts
    <3>3. CASE ~PollLoop /\ ~GenlRxPut
      <4>1. (At("take") \/ At("clear"))' => At("take") \/ At("clear")
        <5> USE DEF At, Goto, Contexts
        <5>1. CASE HwWrite \/ UNCHANGED vars
          BY <5>1 DEF HwWrite, vars
        <5>2. CASE TimerExpires \/ TimerCheck \/ TimerSchedules \/ TimerRearms
          BY <1>0, <5>2 DEF TimerExpires, TimerCheck, TimerSchedules,
                            TimerRearms
        <5>3. CASE PollStart \/ PollBadOpcode \/ PollNoMemory \/ PollDeliver
          BY <1>0, <5>3 DEF PollStart, PollBadOpcode, PollNoMemory, PollDeliver
        <5>4. CASE PollNext \/ PollComplete \/ PollRearms \/ PollMore
          BY <1>0, <5>4 DEF PollNext, PollComplete, PollRearms, PollMore
        <5>5. CASE GenlRxEnter \/ GenlRxNothing \/ GenlRxReply
          BY <1>0, <5>5 DEF GenlRxEnter, GenlRxNothing, GenlRxReply, MayIssue
        <5>6. CASE GenlEnableDel \/ GenlEnableAdd \/ genl_cmd_napi_disable
          BY <1>0, <5>6 DEF GenlEnableDel, GenlEnableAdd, genl_cmd_napi_disable,
                            MayIssue
        <5> QED
          BY <1>3, <3>3, <5>1, <5>2, <5>3, <5>4, <5>5, <5>6
          DEF Next, rx_poll_timer_cb, nf10_napi_struct_poll, genl_cmd_dma_rx
      <4> QED BY <2>1, <4>1 DEF IndexHeld
    <3> QED BY <3>1, <3>2, <3>3
  <2>3. /\ pc'["poll"] \in {"loop", "take", "clear", "end"} =>
             poll_index' = buf_index'
        /\ pc'["poll"] \in InRegion \ {"loop", "end"} => n_rx' < Budget
    <3> USE DEF IndexHeld, Goto, Contexts, InRegion
    <3>1. CASE PollStart \/ PollNext
      BY <1>0, <2>1, <3>1 DEF PollStart, PollNext
    <3>2. CASE PollLoop
      BY <1>0, <2>1, <3>2 DEF PollLoop, pollVars
    <3>3. CASE PollBadOpcode \/ PollNoMemory \/ PollDeliver
      BY <1>0, <2>1, <3>3 DEF PollBadOpcode, PollNoMemory, PollDeliver
    <3>4. CASE PollComplete \/ PollRearms \/ PollMore
      BY <1>0, <2>1, <3>4 DEF PollComplete, PollRearms, PollMore
    <3>5. CASE UNCHANGED <<pc, poll_index, n_rx>>
      BY <2>1, <3>5
    <3>6. CASE HwWrite \/ genl_cmd_napi_disable \/ UNCHANGED vars
      BY <3>5, <3>6 DEF HwWrite, genl_cmd_napi_disable, vars, pollVars
    <3>7. CASE TimerExpires \/ TimerCheck \/ TimerSchedules \/ TimerRearms
      BY <1>0, <2>1, <3>7 DEF TimerExpires, TimerCheck, TimerSchedules,
                              TimerRearms, pollVars
    <3>8. CASE GenlRxEnter \/ GenlRxNothing \/ GenlRxPut \/ GenlRxReply
      BY <1>0, <2>1, <3>8 DEF GenlRxEnter, GenlRxNothing, GenlRxPut,
                              GenlRxReply, pollVars
    <3>9. CASE GenlEnableDel \/ GenlEnableAdd
      BY <1>0, <2>1, <3>9 DEF GenlEnableDel, GenlEnableAdd, pollVars
    <3> QED
      BY <1>3, <3>1, <3>2, <3>3, <3>4, <3>6, <3>7, <3>8, <3>9
      DEF Next, rx_poll_timer_cb, nf10_napi_struct_poll, genl_cmd_dma_rx
  <2> QED BY <2>1, <2>2, <2>3 DEF IndexHeld
<1> QED BY <1>1, <1>2, <1>3

-----------------------------------------------------------------------------
(* Statistics stay within the modulus. *)
LEMMA StatType ==
  ASSUME NEW f \in [Ifaces -> 0 .. StatMod - 1], NEW x
  PROVE  [f EXCEPT ![x] = (@ + 1) % StatMod] \in [Ifaces -> 0 .. StatMod - 1]
<1>1. ASSUME NEW n \in 0 .. StatMod - 1
      PROVE  (n + 1) % StatMod \in 0 .. StatMod - 1
  BY <1>1, DataAssumption
<1> QED BY <1>1

(* Every variable keeps its type in every step. *)
LEMMA TypeStep ==
  ASSUME IInv, Quietly, [Next]_vars
  PROVE  TypeOK'
<1> USE BufsAssumption, BudgetAssumption DEF IInv
<1>1. flags' \in [Slots -> {0, 1}]
  <2>1. CASE HwFlag
    <3>1. flags' = [flags EXCEPT ![hw_index] = 1]
      BY <2>1 DEF HwFlag
    <3> QED BY <3>1 DEF TypeOK
  <2>2. ASSUME NEW c \in {"poll", "genl"}, MarkEmpty(c)
        PROVE  flags' \in [Slots -> {0, 1}]
    <3>1. flags' = [flags EXCEPT ![IndexOf(c)] = 0]
      BY <2>2 DEF MarkEmpty
    <3> QED BY <3>1 DEF TypeOK
  <2> QED BY <2>1, <2>2, Changes DEF TypeOK, GiveBackBy
<1>2. frames' \in [Slots -> Frames \cup {NoFrame}]
  <2>1. CASE HwWrite
    BY <2>1 DEF HwWrite, TypeOK
  <2> QED BY <2>1, Changes DEF TypeOK
<1>3. buf_index' \in 0 .. DMA_CPU_BUFS
  <2>1. ASSUME NEW c \in {"poll", "genl"}, AdvanceIndex(c) \/ WrapIndex(c)
        PROVE  buf_index' \in 0 .. DMA_CPU_BUFS
    BY <2>1, AdvanceStep DEF AdvanceIndex, WrapIndex, TypeOK
  <2> QED BY <2>1, Changes DEF TypeOK, GiveBackBy
<1>4. /\ timer' \in {"idle", "pending"} /\ disabled' \in BOOLEAN
      /\ sched' \in BOOLEAN
      /\ pc' \in [Contexts -> InRegion \cup {"idle", "schedule", "rearm", "add"}]
  <2> USE DEF TypeOK, Goto, napiVars, InRegion
  <2>1. CASE HwWrite \/ HwFlag \/ UNCHANGED vars
    BY <2>1 DEF HwWrite, HwFlag, vars
  <2>2. CASE TimerExpires \/ TimerCheck \/ TimerSchedules \/ TimerRearms
    BY <2>2 DEF TimerExpires, TimerCheck, TimerSchedules, TimerRearms, AddTimer
  <2>3. CASE PollStart \/ PollLoop \/ PollBadOpcode \/ PollNoMemory
             \/ PollDeliver
    BY <2>3 DEF PollStart, PollLoop, PollBadOpcode, PollNoMemory, PollDeliver
  <2>4. CASE PollNext \/ PollComplete \/ PollRearms \/ PollMore
    BY <2>4 DEF PollNext, PollComplete, PollRearms, PollMore, AddTimer
  <2>5. ASSUME NEW c \in {"poll", "genl"}, GiveBack(c)
        PROVE  /\ UNCHANGED napiVars
               /\ pc' \in [Contexts -> InRegion \cup
                             {"idle", "schedule", "rearm", "add"}]
    BY <2>5 DEF GiveBack, MarkEmpty, RingDoorbell, AdvanceIndex, WrapIndex
  <2>6. CASE GenlRxEnter \/ GenlRxNothing \/ GenlRxPut \/ GenlRxReply
    BY <2>6 DEF GenlRxEnter, GenlRxNothing, GenlRxPut, GenlRxReply
  <2>7. CASE GenlEnableDel \/ GenlEnableAdd \/ genl_cmd_napi_disable
    BY <2>7 DEF GenlEnableDel, GenlEnableAdd, genl_cmd_napi_disable, AddTimer
  <2> QED
    BY <2>1, <2>2, <2>3, <2>4, <2>5, <2>6, <2>7
    DEF Next, rx_poll_timer_cb, nf10_napi_struct_poll, genl_cmd_dma_rx
<1>5. /\ poll_index' \in Slots /\ n_rx' \in 0 .. Budget
  <2>1. CASE PollStart
    <3>1. ~At("wrap")
      BY <2>1 DEF PollStart, At, Token, Quiet
    <3> QED BY <2>1, <3>1, RingFacts DEF PollStart
  <2>2. CASE PollNext
    <3>1. ~At("wrap") /\ n_rx < Budget
      BY <2>2 DEF PollNext, At, Token, Quiet, InRegion, IndexHeld
    <3> QED BY <2>2, <3>1, RingFacts DEF PollNext, TypeOK
  <2> QED BY <2>1, <2>2, Changes DEF TypeOK
<1>6. /\ fate' \in {"none", "bad", "nomem", "deliver"}
      /\ skb' \in Frames \cup {NoFrame}
  <2>1. CASE PollBadOpcode \/ PollNoMemory \/ PollDeliver
    BY <2>1 DEF PollBadOpcode, PollNoMemory, PollDeliver, TypeOK
  <2>2. CASE PollNext
    BY <2>2 DEF PollNext
  <2> QED BY <2>1, <2>2, Changes DEF TypeOK
<1>7. work' \in 0 .. Budget
  <2>1. CASE PollRearms \/ PollMore
    BY <2>1 DEF PollRearms, PollMore, TypeOK
  <2> QED BY <2>1, Changes DEF TypeOK
<1>8. credits' \in 0 .. DMA_CPU_BUFS
  <2>1. CASE HwFlag
    <3>1. credits' = credits - 1 /\ credits > 0
      BY <2>1, HwFlagStep DEF HwFlag
    <3> QED BY <3>1 DEF TypeOK
  <2>2. ASSUME NEW c \in {"poll", "genl"}, RingDoorbell(c)
        PROVE  credits' \in 0 .. DMA_CPU_BUFS
    BY <2>2, DoorbellStep DEF RingDoorbell, TypeOK
  <2> QED BY <2>1, <2>2, Changes DEF TypeOK, GiveBackBy
<1>9. hw_index' \in Slots /\ hw_busy' \in BOOLEAN
  <2>1. hw_index \in Slots /\ hw_busy \in BOOLEAN
    BY DEF TypeOK
  <2>2. CASE HwFlag
    <3>1. hw_index' = Slot(hw_index, 1) /\ hw_busy' = FALSE
      BY <2>2 DEF HwFlag
    <3>2. hw_index' \in Slots
      BY <2>1, <3>1, SlotType
    <3> QED BY <3>1, <3>2
  <2>3. CASE HwWrite
    <3>1. hw_index' = hw_index /\ hw_busy' = TRUE
      BY <2>3 DEF HwWrite
    <3> QED BY <2>1, <3>1
  <2> QED BY <2>1, <2>2, <2>3, Changes
<1>10. /\ rx_packets' \in [Ifaces -> 0 .. StatMod - 1]
       /\ rx_dropped' \in [Ifaces -> 0 .. StatMod - 1]
       /\ arrived' \in [Ifaces -> 0 .. StatMod - 1]
  <2>1. CASE HwFlag
    <3> DEFINE dst == rx_get_dst_iface(frames[hw_index].opCode)
    <3>1. UNCHANGED <<rx_packets, rx_dropped>>
      BY <2>1 DEF HwFlag, statVars
    <3>2. \/ arrived' = arrived
          \/ arrived' = [arrived EXCEPT ![dst] = (@ + 1) % StatMod]
      BY <2>1 DEF HwFlag
    <3> HIDE DEF dst
    <3> QED BY <3>1, <3>2, StatType DEF TypeOK
  <2>2. CASE PollDeliver
    BY <2>2, StatType DEF PollDeliver, TypeOK, hwVars
  <2>3. CASE PollNext
    BY <2>3, StatType DEF PollNext, TypeOK, hwVars
  <2>4. ASSUME NEW c \in {"poll", "genl"}, MarkEmpty(c)
        PROVE  <1>10!1 /\ <1>10!2 /\ <1>10!3
    <3> DEFINE dst == rx_get_dst_iface(frames[IndexOf(c)].opCode)
    <3>1. UNCHANGED <<rx_packets, rx_dropped>>
      BY <2>4 DEF MarkEmpty, statVars
    <3>2. \/ arrived' = arrived
          \/ arrived' = [arrived EXCEPT ![dst] = (@ + StatMod - 1) % StatMod]
      BY <2>4 DEF MarkEmpty
    <3> HIDE DEF dst
    <3>3. ASSUME NEW n \in 0 .. StatMod - 1
          PROVE  (n + StatMod - 1) % StatMod \in 0 .. StatMod - 1
      BY DataAssumption
    <3> QED BY <3>1, <3>2, <3>3 DEF TypeOK
  <2> QED BY <2>1, <2>2, <2>3, <2>4, Changes DEF TypeOK, GiveBackBy
<1> QED
  BY <1>1, <1>2, <1>3, <1>4, <1>5, <1>6, <1>7, <1>8, <1>9, <1>10 DEF TypeOK

-----------------------------------------------------------------------------
(* The hardware writes only behind the full buffers. *)
LEMMA FullUntouched ==
  ASSUME IInv, [Next]_vars, NEW k \in 0 .. Filled - 1
  PROVE  frames'[Slot(Oldest, k)] = frames[Slot(Oldest, k)]
<1> USE BufsAssumption DEF IInv
<1>1. CASE HwWrite
  <2>1. /\ credits > 0 /\ credits \in 0 .. DMA_CPU_BUFS /\ hw_index \in Slots
        /\ hw_index = Slot(Oldest, Filled) /\ Oldest \in Slots
        /\ Filled \in 0 .. DMA_CPU_BUFS
    BY <1>1, RingFacts DEF HwWrite, TypeOK, RingAgrees
  <2>2. Filled < DMA_CPU_BUFS
    BY <2>1 DEF Filled
  <2>3. Slot(Oldest, k) # hw_index
    BY <2>1, <2>2, SlotInjective
  <2> QED BY <1>1, <2>3 DEF HwWrite, TypeOK
<1> QED BY <1>1, Changes


(* The packet in hand stays intact. *)
LEMMA InHandStep ==
  ASSUME IInv, Quietly, [Next]_vars, IndexHeld', Token'
  PROVE  InHandIntact'
<1> USE DEF IInv
<1>0. pc \in [Contexts -> InRegion \cup {"idle", "schedule", "rearm", "add"}]
  BY DEF TypeOK
<1>1. pc'["poll"] \in {"take", "clear"} => Filled' > 0 /\ poll_index' = Oldest'
  <2>1. ASSUME pc'["poll"] \in {"take", "clear"}
        PROVE  Oldest' = buf_index'
    <3>1. pc'["genl"] = "idle"
      BY <2>1 DEF Token, Quiet, InRegion
    <3> QED BY <2>1, <3>1 DEF Oldest, At
  <2> QED BY <2>1 DEF IndexHeld, At
<1>2. ASSUME pc'["poll"] = "clear"
      PROVE  skb' = frames'[poll_index']
  <2>1. CASE PollBadOpcode \/ PollNoMemory \/ PollDeliver
    BY <2>1 DEF PollBadOpcode, PollNoMemory, PollDeliver, ringVars
  <2>2. CASE ~(PollBadOpcode \/ PollNoMemory \/ PollDeliver)
    <3>1. pc["poll"] = "clear"
      <4> USE <1>0, <1>2, <2>2 DEF Goto, Contexts
      <4>1. CASE HwWrite \/ HwFlag \/ UNCHANGED vars
        BY <4>1 DEF HwWrite, HwFlag, vars
      <4>2. CASE TimerExpires \/ TimerCheck \/ TimerSchedules \/ TimerRearms
        BY <4>2 DEF TimerExpires, TimerCheck, TimerSchedules, TimerRearms
      <4>3. CASE PollStart \/ PollLoop \/ PollNext \/ PollComplete
                 \/ PollRearms \/ PollMore
        BY <4>3 DEF PollStart, PollLoop, PollNext, PollComplete, PollRearms,
                    PollMore
      <4>4. ASSUME NEW c \in {"poll", "genl"}, GiveBack(c)
            PROVE  pc["poll"] = "clear"
        BY <4>4 DEF GiveBack, MarkEmpty, RingDoorbell, AdvanceIndex, WrapIndex
      <4>5. CASE GenlRxEnter \/ GenlRxNothing \/ GenlRxPut \/ GenlRxReply
        BY <4>5 DEF GenlRxEnter, GenlRxNothing, GenlRxPut, GenlRxReply
      <4>6. CASE GenlEnableDel \/ GenlEnableAdd \/ genl_cmd_napi_disable
        BY <4>6 DEF GenlEnableDel, GenlEnableAdd, genl_cmd_napi_disable
      <4> QED
        BY <4>1, <4>2, <4>3, <4>4, <4>5, <4>6
        DEF Next, rx_poll_timer_cb, nf10_napi_struct_poll, genl_cmd_dma_rx
    <3>2. UNCHANGED <<skb, poll_index>>
      BY <2>2, <3>1, Changes DEF PollStart, PollNext
    <3>3. skb = frames[poll_index] /\ poll_index = Oldest /\ Filled > 0
      BY <3>1 DEF InHandIntact
    <3>4. frames'[Oldest] = frames[Oldest]
      <4>1. Oldest \in Slots /\ Filled \in 0 .. DMA_CPU_BUFS
        BY RingFacts
      <4> QED BY <3>3, <4>1, FullUntouched, SlotTurn, BufsAssumption
    <3> QED BY <3>2, <3>3, <3>4
  <2> QED BY <2>1, <2>2
<1> QED BY <1>1, <1>2 DEF InHandIntact

(* What the hardware has begun is a frame. *)
LEMMA HwHeldStep ==
  ASSUME IInv, [Next]_vars
  PROVE  HwHeld'
<1>1. CASE HwWrite
  <2>1. PICK f \in Frames : frames' = [frames EXCEPT ![hw_index] = f]
    BY <1>1 DEF HwWrite
  <2>2. hw_index' = hw_index
    BY <1>1 DEF HwWrite
  <2> QED BY <2>1, <2>2 DEF HwHeld, IInv, TypeOK
<1>2. CASE HwFlag
  BY <1>2 DEF HwFlag, HwHeld
<1> QED BY <1>1, <1>2, Changes DEF HwHeld, IInv

(* The ring that probe() lays out satisfies the invariant. *)
LEMMA InitIInv == Init => IInv
<1> SUFFICES ASSUME Init PROVE IInv
  OBVIOUS
<1> USE BufsAssumption, BudgetAssumption, DataAssumption
<1>1. TypeOK
  <2>1. /\ flags \in [Slots -> {0, 1}]
        /\ frames \in [Slots -> Frames \cup {NoFrame}]
        /\ buf_index \in 0 .. DMA_CPU_BUFS
    BY DEF Init
  <2>2. /\ timer \in {"idle", "pending"} /\ disabled \in BOOLEAN
        /\ sched \in BOOLEAN /\ hw_busy \in BOOLEAN
    BY Zenon DEF Init
  <2>3. pc \in [Contexts -> InRegion \cup {"idle", "schedule", "rearm", "add"}]
    BY DEF Init
  <2>4. /\ poll_index \in Slots /\ n_rx \in 0 .. Budget
        /\ fate \in {"none", "bad", "nomem", "deliver"}
        /\ skb \in Frames \cup {NoFrame} /\ work \in 0 .. Budget
    BY DEF Init, Slots
  <2>5. credits \in 0 .. DMA_CPU_BUFS /\ hw_index \in Slots
    BY DEF Init, Slots
  <2>6. /\ rx_packets \in [Ifaces -> 0 .. StatMod - 1]
        /\ rx_dropped \in [Ifaces -> 0 .. StatMod - 1]
        /\ arrived \in [Ifaces -> 0 .. StatMod - 1]
    BY DEF Init
  <2> QED BY <2>1, <2>2, <2>3, <2>4, <2>5, <2>6 DEF TypeOK
<1>2. Token
  BY DEF Init, Token, Quiet, Contexts, InRegion
<1>3. \A l \in {"take", "clear", "doorbell", "advance", "wrap"} : ~At(l)
  BY DEF Init, At, Contexts
<1>4. Oldest = 0 /\ Filled = 0
  <2>1. buf_index = 0 /\ credits = DMA_CPU_BUFS
    BY DEF Init
  <2>2. ~At("doorbell") /\ ~At("advance") /\ ~At("wrap")
    BY <1>3
  <2>3. Oldest = 0
    BY <2>1, <2>2 DEF Oldest
  <2>4. Filled = DMA_CPU_BUFS - DMA_CPU_BUFS - 0
    BY <2>1, <2>2 DEF Filled
  <2> QED BY <2>3, <2>4
<1>5. RingAgrees
  <2>1. \A k \in 0 .. DMA_CPU_BUFS - 1 : flags[Slot(0, k)] = 0
    BY SlotType DEF Init, Slots
  <2> QED BY <1>4, <2>1, SlotTurn DEF Init, RingAgrees, Slots
<1>6. IndexHeld
  BY <1>3 DEF Init, IndexHeld, Contexts, InRegion
<1>7. InHandIntact /\ HwHeld
  BY DEF Init, InHandIntact, HwHeld, Contexts
<1> QED BY <1>1, <1>2, <1>5, <1>6, <1>7 DEF IInv

-----------------------------------------------------------------------------
(* The inductive invariant of the receive path: types, token, indices,     *)
(* agreement about the ring, and the packets in the driver's and in the    *)
(* hardware's hands.                                                       *)
THEOREM IInvHolds == ASSUME Quietly PROVE Spec => []IInv
<1>1. IInv /\ [Next]_vars => IInv'
  <2> SUFFICES ASSUME IInv, [Next]_vars PROVE IInv'
    OBVIOUS
  <2>1. Token'
    BY TokenStep DEF IInv, TypeOK, PcType, NapiType
  <2>2. TypeOK' /\ IndexHeld' /\ RingAgrees'
    BY TypeStep, IndexStep, RingStep
  <2>3. InHandIntact' /\ HwHeld'
    BY <2>1, <2>2, InHandStep, HwHeldStep
  <2> QED BY <2>1, <2>2, <2>3 DEF IInv
<1> QED BY <1>1, InitIInv, PTL DEF Spec

(* No variable of the receive path leaves its type; in particular a poll   *)
(* never exceeds its budget and the hardware never has more credits than   *)
(* there are buffers.                                                      *)
THEOREM TypeCorrect == ASSUME Quietly PROVE Spec => []TypeOK
<1>1. IInv => TypeOK
  BY DEF IInv
<1> QED BY <1>1, IInvHolds, PTL

(* The poll and the DMA_RX command never meet in the receive ring. *)
THEOREM Exclusion == ASSUME Quietly PROVE Spec => []RxExclusion
<1>1. IInv => RxExclusion
  BY DEF IInv, Token, Quiet, InRegion, RxExclusion
<1> QED BY <1>1, IInvHolds, PTL

(* add_timer() never meets a pending timer. *)
THEOREM TimerSafety == ASSUME Quietly PROVE Spec => []AddTimerSafe
<1>1. IInv => AddTimerSafe
  BY DEF IInv, TypeOK, Token, Quiet, AddTimerSafe
<1> QED BY <1>1, IInvHolds, PTL

(* The polling has one driver, and keeps it as long as it is not stopped   *)
(* by command.                                                             *)
THEOREM SingleDriver == ASSUME Quietly PROVE Spec => []OneDriver
<1>1. IInv => OneDriver
  <2> SUFFICES ASSUME IInv PROVE OneDriver
    OBVIOUS
  <2> USE DEF IInv, TypeOK, Token, Quiet, Driving, Drivers, InRegion
  <2>1. \A x, y \in Drivers : Driving(x) /\ Driving(y) => x = y
    <3>1. \A y \in Drivers : Driving("pending") /\ Driving(y) => y = "pending"
      OBVIOUS
    <3>2. \A y \in Drivers : Driving("timer") /\ Driving(y) => y = "timer"
      OBVIOUS
    <3>3. \A y \in Drivers : Driving("poll") /\ Driving(y) => y = "poll"
      OBVIOUS
    <3>4. \A y \in Drivers : Driving("genl") /\ Driving(y) => y = "genl"
      OBVIOUS
    <3> HIDE DEF IInv, Driving
    <3> QED BY <3>1, <3>2, <3>3, <3>4
  <2>2. ~disabled => \E x \in Drivers : Driving(x)
    OBVIOUS
  <2> QED BY <2>1, <2>2 DEF OneDriver
<1> QED BY <1>1, IInvHolds, PTL

(* Flags, driver index, hardware index and credits of the receive ring     *)
(* always agree.                                                           *)
THEOREM RingAgreement == ASSUME Quietly PROVE Spec => []RingAgrees
<1>1. IInv => RingAgrees
  BY DEF IInv
<1> QED BY <1>1, IInvHolds, PTL

(* The packet that the poll is copying is never overwritten. *)
THEOREM PacketIntegrity == ASSUME Quietly PROVE Spec => []InHandIntact
<1>1. IInv => InHandIntact
  BY DEF IInv
<1> QED BY <1>1, IInvHolds, PTL

(* RingSound: the receive ring keeps its types, its flags, indices and     *)
(* credits agree, and the packet in the driver's hands is not overwritten. *)
THEOREM RingSoundness == ASSUME Quietly PROVE Spec => []RingSound
<1>1. IInv => RingSound
  BY DEF IInv, RingSound
<1> QED BY <1>1, IInvHolds, PTL

(* PollingSafe: timer callback, poll and NAPI_ENABLE never drive the       *)
(* polling twice, add_timer() never meets a pending timer, and poll and    *)
(* DMA_RX never meet in the ring.                                          *)
THEOREM PollingSafety == ASSUME Quietly PROVE Spec => []PollingSafe
<1>1. OneDriver /\ AddTimerSafe /\ RxExclusion => PollingSafe
  BY DEF PollingSafe
<1> QED BY <1>1, SingleDriver, TimerSafety, Exclusion, PTL

(* A poll that returns its whole budget is still scheduled. *)
THEOREM NapiContractKept == ASSUME Quietly PROVE Spec => NapiContract
<1>1. IInv /\ [Next]_vars =>
        [pc["poll"] # "idle" /\ pc'["poll"] = "idle" /\ work' = Budget
           => sched']_vars
  <2> SUFFICES ASSUME IInv, [Next]_vars, pc["poll"] # "idle",
                      pc'["poll"] = "idle", work' = Budget
               PROVE  sched'
    OBVIOUS
  <2> USE DEF IInv, TypeOK, Contexts, Goto, napiVars
  <2>1. CASE HwWrite \/ HwFlag \/ UNCHANGED vars
    BY <2>1 DEF HwWrite, HwFlag, vars
  <2>2. CASE TimerExpires \/ TimerCheck \/ TimerSchedules \/ TimerRearms
    BY <2>2 DEF TimerExpires, TimerCheck, TimerSchedules, TimerRearms
  <2>3. CASE PollStart \/ PollLoop \/ PollBadOpcode \/ PollNoMemory
             \/ PollDeliver \/ PollNext \/ PollComplete
    BY <2>3 DEF PollStart, PollLoop, PollBadOpcode, PollNoMemory, PollDeliver,
                PollNext, PollComplete
  <2>4. CASE PollRearms
    BY <2>4, BudgetAssumption DEF PollRearms
  <2>5. CASE PollMore
    BY <2>5 DEF PollMore, Token, InRegion
  <2>6. ASSUME NEW c \in {"poll", "genl"}, GiveBack(c)
        PROVE  sched'
    BY <2>6 DEF GiveBack, MarkEmpty, RingDoorbell, AdvanceIndex, WrapIndex
  <2>7. CASE GenlRxEnter \/ GenlRxNothing \/ GenlRxPut \/ GenlRxReply
    BY <2>7 DEF GenlRxEnter, GenlRxNothing, GenlRxPut, GenlRxReply
  <2>8. CASE GenlEnableDel \/ GenlEnableAdd \/ genl_cmd_napi_disable
    BY <2>8 DEF GenlEnableDel, GenlEnableAdd, genl_cmd_napi_disable
  <2> QED
    BY <2>1, <2>2, <2>3, <2>4, <2>5, <2>6, <2>7, <2>8
    DEF Next, rx_poll_timer_cb, nf10_napi_struct_poll, genl_cmd_dma_rx
<1> QED BY <1>1, IInvHolds, PTL DEF Spec, NapiContract

-----------------------------------------------------------------------------
(* The frames in the ring form a sequence as long as the ring is full. *)
LEMMA QueueType ==
  ASSUME IInv
  PROVE  /\ Queue \in Seq(Frames \cup {NoFrame})
         /\ Len(Queue) = Filled
<1>1. Filled \in 0 .. DMA_CPU_BUFS /\ Oldest \in Slots
  BY RingFacts
<1>2. ASSUME NEW k \in 1 .. Filled
      PROVE  frames[Slot(Oldest, k - 1)] \in Frames \cup {NoFrame}
  <2>1. Slot(Oldest, k - 1) \in Slots
    BY <1>1, SlotType, BufsAssumption
  <2> QED BY <2>1 DEF IInv, TypeOK
<1> HIDE DEF Filled, Oldest
<1> QED BY <1>1, <1>2 DEF Queue

(* Steps that neither fill nor empty a buffer leave the queue as it is. *)
LEMMA QueueKept ==
  ASSUME IInv, [Next]_vars, Oldest' = Oldest, Filled' = Filled
  PROVE  Queue' = Queue
<1>1. \A k \in 0 .. Filled - 1 :
        frames'[Slot(Oldest, k)] = frames[Slot(Oldest, k)]
  BY FullUntouched
<1>2. Filled \in 0 .. DMA_CPU_BUFS
  BY RingFacts
<1>3. \A k \in 1 .. Filled :
        frames'[Slot(Oldest', k - 1)] = frames[Slot(Oldest, k - 1)]
  BY <1>1, <1>2
<1>4. Queue' = [k \in 1 .. Filled' |-> frames'[Slot(Oldest', k - 1)]]
  BY DEF Queue, Slot
<1> QED BY <1>3, <1>4 DEF Queue

(* Every step of the receive path is a step of the abstract FIFO, or one   *)
(* that leaves it alone.                                                   *)
LEMMA FifoStep ==
  ASSUME Quietly, IInv, IInv', [Next]_vars
  PROVE  [Fifo!Next]_Queue
<1> USE BufsAssumption
<1> DEFINE S == Frames \cup {NoFrame}
<1>0. /\ Filled \in 0 .. DMA_CPU_BUFS /\ Oldest \in Slots
      /\ Queue \in Seq(S) /\ Len(Queue) = Filled
  BY QueueType, RingFacts
<1> HIDE DEF S
<1>q. Queue' = [k \in 1 .. Filled' |-> frames'[Slot(Oldest', k - 1)]]
  BY DEF Queue, Slot
<1>1. CASE HwFlag
  <2> DEFINE f == frames[hw_index]
  <2>1. /\ Filled < DMA_CPU_BUFS /\ hw_index = Slot(Oldest, Filled)
        /\ Oldest' = Oldest /\ Filled' = Filled + 1
    BY <1>1, HwFlagStep
  <2>2. f \in Frames /\ f \in S /\ UNCHANGED frames
    BY <1>1 DEF HwFlag, IInv, HwHeld, S
  <2> HIDE DEF f
  <2>3. /\ Append(Queue, f) \in Seq(S) /\ Len(Append(Queue, f)) = Filled + 1
        /\ \A k \in 1 .. Filled : Append(Queue, f)[k] = Queue[k]
        /\ Append(Queue, f)[Filled + 1] = f
    BY <1>0, <2>2, AppendProperties
  <2>4. \A k \in 1 .. Filled + 1 : Queue'[k] = Append(Queue, f)[k]
    <3>1. \A k \in 1 .. Filled + 1 : Queue'[k] = frames[Slot(Oldest, k - 1)]
      BY <1>q, <2>1, <2>2
    <3>2. \A k \in 1 .. Filled : Queue[k] = frames[Slot(Oldest, k - 1)]
      BY DEF Queue
    <3>3. frames[Slot(Oldest, (Filled + 1) - 1)] = f
      BY <1>0, <2>1 DEF f
    <3>4. ASSUME NEW k \in 1 .. Filled
          PROVE  Queue'[k] = Append(Queue, f)[k]
      <4>1. k \in 1 .. Filled + 1
        BY <1>0
      <4> QED BY Zenon, <2>3, <3>1, <3>2, <4>1
    <3>5. Queue'[Filled + 1] = Append(Queue, f)[Filled + 1]
      BY <1>0, <2>3, <3>1, <3>3
    <3> QED BY <1>0, <3>4, <3>5
  <2>5. Queue' = Append(Queue, f)
    <3>1. \A k \in 1 .. Filled + 1 : Append(Queue, f)[k] \in S
      BY <2>3, ElementOfSeq
    <3>2. Queue' \in [1 .. Filled + 1 -> S]
      BY <1>q, <2>1, <2>4, <3>1
    <3>3. Queue' \in Seq(S) /\ Len(Queue') = Filled + 1
      BY <1>0, <3>2
    <3> QED BY <2>3, <2>4, <3>3, SeqEqual
  <2> QED BY <1>0, <2>1, <2>2, <2>5 DEF Fifo!Put, Fifo!Next
<1>2. ASSUME NEW c \in {"poll", "genl"}, MarkEmpty(c)
      PROVE  Fifo!Get
  <2>1. /\ Oldest' = Slot(Oldest, 1) /\ Filled > 0 /\ Filled' = Filled - 1
        /\ UNCHANGED frames
    BY <1>2, MarkEmptyStep DEF MarkEmpty
  <2>2. \A k \in 1 .. Filled - 1 : Slot(Oldest', k - 1) = Slot(Oldest, k)
    BY <1>0, <2>1, SlotShift
  <2>3. Queue' = [k \in 1 .. Filled - 1 |-> frames[Slot(Oldest, k)]]
    BY <1>q, <2>1, <2>2
  <2>4. Queue' = Tail(Queue)
    <3> HIDE DEF Filled, Oldest
    <3> QED BY <1>0, <2>1, <2>3 DEF Queue
  <2>5. Queue # << >>
    BY <1>0, <2>1
  <2> QED BY <2>4, <2>5 DEF Fifo!Get
<1>3. ASSUME NEW c \in {"poll", "genl"}, GiveBack(c), ~MarkEmpty(c)
      PROVE  Queue' = Queue
  BY <1>3, QueueKept, DoorbellStep, AdvanceStep, WrapStep DEF GiveBack
<1>4. CASE ~HwFlag /\ ~(\E c \in {"poll", "genl"} : GiveBack(c))
  BY <1>4, QueueKept, OtherSteps
<1> QED BY <1>1, <1>2, <1>3, <1>4 DEF Fifo!Next

(* The receive ring implements the bounded FIFO: no frame is lost,         *)
(* duplicated, reordered or overwritten between the hardware's flag and    *)
(* the driver's.                                                           *)
THEOREM Refinement == ASSUME Quietly PROVE Spec => RxIsFifo
<1>1. Init => Fifo!Init
  <2> SUFFICES ASSUME Init PROVE Queue = << >>
    BY DEF Fifo!Init
  <2>1. credits = DMA_CPU_BUFS /\ ~At("doorbell")
    BY DEF Init, At, Contexts
  <2>2. Filled = DMA_CPU_BUFS - DMA_CPU_BUFS - 0
    BY <2>1 DEF Filled
  <2>3. Filled = 0
    BY <2>2, BufsAssumption
  <2> QED BY <2>3 DEF Queue
<1>2. IInv /\ IInv' /\ [Next]_vars => [Fifo!Next]_Queue
  BY FifoStep
<1> QED BY <1>1, <1>2, IInvHolds, PTL DEF Spec, RxIsFifo, Fifo!Spec

-----------------------------------------------------------------------------
(* The interface a frame or a packet in hand is meant for, if it is one.   *)
Dst(f) == rx_get_dst_iface(f.opCode)

(* What the poll has found out about the packet in its hand.               *)
FateHeld ==
  /\ fate # "none" <=>
       pc["poll"] \in {"clear", "doorbell", "advance", "wrap", "next"}
  /\ fate \in {"deliver", "nomem"} => Dst(skb) \in Ifaces
  /\ fate = "bad" => Dst(skb) \notin Ifaces

(* An opcode names one of the four interfaces or none.                     *)
LEMMA DstType ==
  ASSUME NEW opcode
  PROVE  /\ rx_get_dst_iface(opcode) < 0 <=>
              rx_get_dst_iface(opcode) \notin Ifaces
         /\ rx_get_dst_iface(opcode) >= 0 <=>
              rx_get_dst_iface(opcode) \in Ifaces
BY DEF rx_get_dst_iface, Ifaces

(* Which steps move the poll between having and not having a packet.       *)
LEMMA FateStep ==
  ASSUME IInv, FateHeld, [Next]_vars
  PROVE  FateHeld'
<1>1. /\ pc \in [Contexts -> InRegion \cup {"idle", "schedule", "rearm", "add"}]
      /\ "poll" \in Contexts
  BY DEF IInv, TypeOK, Contexts
<1> USE DEF Goto
<1>2. CASE PollBadOpcode \/ PollNoMemory \/ PollDeliver
  <2>1. /\ pc'["poll"] = "clear" /\ skb' = frames[poll_index]
        /\ \/ fate' = "bad" /\ dst_iface < 0
           \/ fate' \in {"nomem", "deliver"} /\ dst_iface >= 0
    BY <1>1, <1>2 DEF PollBadOpcode, PollNoMemory, PollDeliver
  <2>2. Dst(skb') = dst_iface
    BY <2>1 DEF Dst, dst_iface
  <2>3. /\ dst_iface < 0 <=> dst_iface \notin Ifaces
        /\ dst_iface >= 0 <=> dst_iface \in Ifaces
    BY DstType DEF dst_iface
  <2> QED BY <2>1, <2>2, <2>3 DEF FateHeld, Dst
<1>3. CASE PollNext
  <2>1. pc'["poll"] = "loop" /\ fate' = "none"
    BY <1>1, <1>3 DEF PollNext
  <2> QED BY <2>1 DEF FateHeld
<1>4. CASE ~(PollBadOpcode \/ PollNoMemory \/ PollDeliver \/ PollNext)
  <2>1. UNCHANGED <<fate, skb>>
    BY <1>4, Changes
  <2> DEFINE Held == {"clear", "doorbell", "advance", "wrap", "next"}
  <2>2. pc'["poll"] \in Held <=> pc["poll"] \in Held
    <3>1. CASE HwWrite \/ HwFlag \/ UNCHANGED vars
      BY <3>1 DEF HwWrite, HwFlag, vars
    <3>2. CASE TimerExpires \/ TimerCheck \/ TimerSchedules \/ TimerRearms
      BY <1>1, <3>2 DEF TimerExpires, TimerCheck, TimerSchedules, TimerRearms
    <3>3. CASE PollStart \/ PollLoop \/ PollComplete \/ PollRearms \/ PollMore
      BY <1>1, <3>3 DEF PollStart, PollLoop, PollComplete, PollRearms, PollMore
    <3>4. ASSUME NEW c \in {"poll", "genl"}, GiveBack(c)
          PROVE  pc'["poll"] \in Held <=> pc["poll"] \in Held
      BY <1>1, <3>4
      DEF GiveBack, MarkEmpty, RingDoorbell, AdvanceIndex, WrapIndex
    <3>5. CASE GenlRxEnter \/ GenlRxNothing \/ GenlRxPut \/ GenlRxReply
      BY <1>1, <3>5
      DEF GenlRxEnter, GenlRxNothing, GenlRxPut, GenlRxReply, MayIssue
    <3>6. CASE GenlEnableDel \/ GenlEnableAdd \/ genl_cmd_napi_disable
      BY <1>1, <3>6
      DEF GenlEnableDel, GenlEnableAdd, genl_cmd_napi_disable, MayIssue
    <3> QED
      BY <1>4, <3>1, <3>2, <3>3, <3>4, <3>5, <3>6
      DEF Next, rx_poll_timer_cb, nf10_napi_struct_poll, genl_cmd_dma_rx
  <2> QED BY <2>1, <2>2 DEF FateHeld, Dst
<1> QED BY <1>2, <1>3, <1>4

-----------------------------------------------------------------------------
(* The frames in the ring that are meant for interface d.                  *)
Waits(d) == {k \in 1 .. Filled : Dst(frames[Slot(Oldest, k - 1)]) = d}

(* A packet counted while still in the ring, and one out of it not counted.*)
Early(d) == IF /\ fate # "none" /\ Dst(skb) = d
               /\ fate = "deliver" /\ pc["poll"] = "clear" THEN 1 ELSE 0
Late(d) == IF /\ fate # "none" /\ Dst(skb) = d
              /\ fate = "nomem" /\ pc["poll"] # "clear" THEN 1 ELSE 0

Balanced(d) ==
  (arrived[d] + Early(d)) % StatMod
    = (rx_packets[d] + rx_dropped[d] + Cardinality(Waits(d)) + Late(d))
        % StatMod

(* StatsAccount says that each interface's account is balanced.            *)
LEMMA AccountIsBalance ==
  /\ StatsAccount <=> \A d \in Ifaces : Balanced(d)
  /\ StatsAccount' <=> \A d \in Ifaces : Balanced(d)'
<1>1. \A d : {k \in 1 .. Filled : rx_get_dst_iface(Queue[k].opCode) = d}
               = Waits(d)
  BY DEF Queue, Waits, Dst
<1>2. \A d : {k \in 1 .. Filled' : rx_get_dst_iface(Queue'[k].opCode) = d}
               = Waits(d)'
  BY DEF Queue, Waits, Dst
<1> QED BY Zenon, <1>1, <1>2 DEF StatsAccount, Balanced, Early, Late, Dst

(* The counters and the places are what they seem.                         *)
LEMMA AccountTypes ==
  ASSUME IInv, NEW d \in Ifaces
  PROVE  /\ StatMod \in Nat \ {0}
         /\ arrived[d] \in 0 .. StatMod - 1
         /\ rx_packets[d] \in 0 .. StatMod - 1
         /\ rx_dropped[d] \in 0 .. StatMod - 1
         /\ Filled \in Nat /\ Filled \in 0 .. DMA_CPU_BUFS
         /\ Oldest \in Slots
         /\ Waits(d) \in SUBSET (1 .. Filled)
         /\ Cardinality(Waits(d)) \in Nat
         /\ Early(d) \in {0, 1} /\ Late(d) \in {0, 1}
<1>1. /\ StatMod \in Nat \ {0}
      /\ arrived[d] \in 0 .. StatMod - 1
      /\ rx_packets[d] \in 0 .. StatMod - 1
      /\ rx_dropped[d] \in 0 .. StatMod - 1
  BY DataAssumption DEF IInv, TypeOK
<1>2. Filled \in Nat /\ Filled \in 0 .. DMA_CPU_BUFS /\ Oldest \in Slots
  BY RingFacts, BufsAssumption
<1>3. Waits(d) \in SUBSET (1 .. Filled)
  BY DEF Waits
<1>4. Cardinality(Waits(d)) \in Nat
  BY <1>2, <1>3, Positions
<1> QED BY <1>1, <1>2, <1>3, <1>4 DEF Early, Late

(* A queue that is left alone keeps its counts.                            *)
LEMMA WaitsKept ==
  ASSUME IInv, [Next]_vars, Oldest' = Oldest, Filled' = Filled
  PROVE  \A d : Waits(d)' = Waits(d)
<1>1. ASSUME NEW k \in 1 .. Filled
      PROVE  frames'[Slot(Oldest, k - 1)] = frames[Slot(Oldest, k - 1)]
  <2>1. k - 1 \in 0 .. Filled - 1
    BY RingFacts
  <2> QED BY <2>1, FullUntouched
<1>2. \A d : Waits(d)'
               = {k \in 1 .. Filled' : Dst(frames'[Slot(Oldest', k - 1)]) = d}
  BY DEF Waits, Dst, Slot
<1> QED BY <1>1, <1>2 DEF Waits

(* The hardware's flag adds a frame to the queue and to what has arrived.  *)
LEMMA ArrivalBalance ==
  ASSUME IInv, HwFlag, NEW d \in Ifaces, Balanced(d)
  PROVE  Balanced(d)'
<1> DEFINE dst == Dst(frames[hw_index])
<1>1. /\ UNCHANGED <<frames, pc, fate, skb, rx_packets, rx_dropped>>
      /\ arrived' = IF dst < 0 THEN arrived
                    ELSE [arrived EXCEPT ![dst] = (@ + 1) % StatMod]
  BY DEF HwFlag, pollVars, statVars, Dst
<1>2. /\ hw_index = Slot(Oldest, Filled) /\ Oldest' = Oldest
      /\ Filled' = Filled + 1
  BY HwFlagStep
<1>3. /\ StatMod \in Nat \ {0} /\ arrived[d] \in 0 .. StatMod - 1
      /\ rx_packets[d] \in 0 .. StatMod - 1
      /\ rx_dropped[d] \in 0 .. StatMod - 1 /\ Filled \in Nat
      /\ Waits(d) \in SUBSET (1 .. Filled) /\ Cardinality(Waits(d)) \in Nat
      /\ Early(d) \in {0, 1} /\ Late(d) \in {0, 1}
      /\ arrived \in [Ifaces -> 0 .. StatMod - 1]
  BY AccountTypes DEF IInv, TypeOK
<1>4. dst < 0 <=> dst \notin Ifaces
  BY DstType DEF Dst
<1>5. Waits(d)' = {k \in 1 .. Filled + 1 :
                     Dst(frames[Slot(Oldest, k - 1)]) = d}
  BY <1>1, <1>2 DEF Waits, Dst, Slot
<1>6. Early(d)' = Early(d) /\ Late(d)' = Late(d)
  BY <1>1 DEF Early, Late, Dst
<1> HIDE DEF dst
<1>7. CASE dst = d
  <2>1. Waits(d)' = Waits(d) \cup {Filled + 1}
    <3>1. Dst(frames[Slot(Oldest, (Filled + 1) - 1)]) = d
      BY <1>2, <1>3, <1>7 DEF dst
    <3> QED BY <1>3, <1>5, <3>1 DEF Waits
  <2>2. Cardinality(Waits(d)') = Cardinality(Waits(d)) + 1
    BY <1>3, <2>1, Appended
  <2> DEFINE n == arrived[d]
             c == Cardinality(Waits(d))
             p == rx_packets[d]
             q == rx_dropped[d]
             e == Early(d)
             l == Late(d)
  <2>3. arrived'[d] = (n + 1) % StatMod
    BY <1>1, <1>3, <1>4, <1>7
  <2>4. (n + e) % StatMod = (p + q + c + l) % StatMod
    BY DEF Balanced
  <2>5. n \in 0 .. StatMod - 1 /\ c \in Nat /\ p \in Nat /\ q \in Nat
        /\ e \in {0, 1} /\ l \in {0, 1} /\ StatMod \in Nat \ {0}
    BY <1>3
  <2>6. Balanced(d)' <=>
          (((n + 1) % StatMod) + e) % StatMod
            = (p + q + (c + 1) + l) % StatMod
    BY Zenon, <1>1, <1>6, <2>2, <2>3 DEF Balanced
  <2> HIDE DEF n, c, p, q, e, l
  <2>7. /\ e \in Int /\ n + e \in Int /\ p + q + c + l \in Int /\ 1 \in Int
        /\ n + 1 + e = (n + e) + 1
        /\ p + q + (c + 1) + l = (p + q + c + l) + 1
    BY <2>5
  <2>8. (((n + 1) % StatMod) + e) % StatMod = (n + 1 + e) % StatMod
    BY Zenon, <2>5, <2>7, Counted
  <2>9. ((n + e) + 1) % StatMod = ((p + q + c + l) + 1) % StatMod
    BY Zenon, <2>4, <2>5, <2>7, SameCount
  <2> QED BY Zenon, <2>6, <2>7, <2>8, <2>9
<1>8. CASE dst # d
  <2>1. Waits(d)' = Waits(d)
    <3>1. Dst(frames[Slot(Oldest, (Filled + 1) - 1)]) # d
      BY <1>2, <1>3, <1>8 DEF dst
    <3> QED BY <1>3, <1>5, <3>1 DEF Waits
  <2>2. arrived'[d] = arrived[d]
    BY <1>1, <1>3, <1>4, <1>8
  <2> QED BY Zenon, <1>1, <1>6, <2>1, <2>2 DEF Balanced
<1> QED BY <1>7, <1>8

(* Taking the oldest frame out of the queue.                               *)
LEMMA TakenOut ==
  ASSUME IInv, NEW c \in {"poll", "genl"}, MarkEmpty(c), NEW d \in Ifaces
  PROVE  /\ Dst(frames[Oldest]) = d =>
              Cardinality(Waits(d)') = Cardinality(Waits(d)) - 1
         /\ Dst(frames[Oldest]) # d =>
              Cardinality(Waits(d)') = Cardinality(Waits(d))
<1>1. /\ Oldest' = Slot(Oldest, 1) /\ Filled > 0 /\ Filled' = Filled - 1
      /\ UNCHANGED frames
  BY MarkEmptyStep DEF MarkEmpty
<1>2. /\ Filled \in Nat /\ Filled \in 0 .. DMA_CPU_BUFS /\ Oldest \in Slots
      /\ Waits(d) \in SUBSET (1 .. Filled)
  BY AccountTypes
<1>3. Waits(d)' = {k \in 1 .. Filled - 1 :
                     Dst(frames[Slot(Slot(Oldest, 1), k - 1)]) = d}
  <2>1. Waits(d)' = {k \in 1 .. Filled' :
                       Dst(frames'[Slot(Oldest', k - 1)]) = d}
    BY DEF Waits, Dst, Slot
  <2> QED BY <1>1, <2>1
<1>4. Waits(d)' = {i \in 1 .. Filled - 1 : i + 1 \in Waits(d)}
  <2>1. ASSUME NEW k \in 1 .. Filled - 1
        PROVE  /\ Slot(Slot(Oldest, 1), k - 1) = Slot(Oldest, (k + 1) - 1)
               /\ k + 1 \in 1 .. Filled
    <3>1. /\ k - 1 \in 0 .. DMA_CPU_BUFS - 1 /\ (k - 1) + 1 = k
          /\ (k + 1) - 1 = k /\ k + 1 \in 1 .. Filled
      BY <1>2, BufsAssumption
    <3> QED BY <1>2, <3>1, SlotShift
  <2> QED BY <1>3, <2>1 DEF Waits
<1>5. 1 \in Waits(d) <=> Dst(frames[Oldest]) = d
  <2>1. 1 \in 1 .. Filled /\ Slot(Oldest, 1 - 1) = Oldest
    BY <1>1, <1>2, SlotTurn
  <2> QED BY <2>1 DEF Waits
<1> QED BY <1>2, <1>4, <1>5, HeadGone

(* The poll gives a buffer back: a packet counted early is now in balance, *)
(* one that could not be copied is still to be counted.                    *)
LEMMA PollGivesBack ==
  ASSUME IInv, FateHeld, MarkEmpty("poll"), NEW d \in Ifaces, Balanced(d)
  PROVE  Balanced(d)'
<1>1. /\ pc["poll"] = "clear" /\ pc'["poll"] = "doorbell"
      /\ UNCHANGED <<arrived, fate, skb, rx_packets, rx_dropped>>
  BY DEF MarkEmpty, Goto, pollVars, statVars, IInv, TypeOK, Contexts
<1>2. skb = frames[Oldest]
  BY <1>1 DEF IInv, InHandIntact
<1>3. /\ StatMod \in Nat \ {0} /\ arrived[d] \in 0 .. StatMod - 1
      /\ rx_packets[d] \in 0 .. StatMod - 1
      /\ rx_dropped[d] \in 0 .. StatMod - 1
      /\ Cardinality(Waits(d)) \in Nat
  BY AccountTypes
<1>4. Late(d) = 0 /\ Early(d)' = 0
  BY <1>1 DEF Late, Early
<1>5. CASE Dst(skb) # d
  <2>1. Cardinality(Waits(d)') = Cardinality(Waits(d))
    BY <1>2, <1>5, TakenOut
  <2>2. Early(d) = 0 /\ Late(d)' = 0
    BY <1>1, <1>5 DEF Early, Late, Dst
  <2> QED BY Zenon, <1>1, <1>4, <2>1, <2>2 DEF Balanced
<1>6. CASE Dst(skb) = d
  <2> DEFINE n == arrived[d]
             c == Cardinality(Waits(d))
             p == rx_packets[d]
             q == rx_dropped[d]
  <2>1. Cardinality(Waits(d)') = c - 1
    BY <1>2, <1>6, TakenOut
  <2>2. fate \in {"deliver", "nomem"}
    BY <1>1, <1>6 DEF FateHeld, IInv, TypeOK
  <2>3. n \in Nat /\ c \in Nat /\ p \in Nat /\ q \in Nat
        /\ StatMod \in Nat \ {0}
    BY <1>3
  <2>4. CASE fate = "deliver"
    <3>1. Early(d) = 1 /\ Late(d)' = 0
      BY <1>1, <1>6, <2>4 DEF Early, Late, Dst
    <3>2. (n + 1) % StatMod = (p + q + c + 0) % StatMod
      BY Zenon, <1>4, <3>1 DEF Balanced
    <3>3. Balanced(d)' <=> (n + 0) % StatMod = (p + q + (c - 1) + 0) % StatMod
      BY Zenon, <1>1, <1>4, <2>1, <3>1 DEF Balanced
    <3> HIDE DEF n, c, p, q
    <3>4. /\ n + 1 \in Int /\ p + q + c + 0 \in Int /\ -1 \in Int
          /\ (n + 1) + (-1) = n + 0
          /\ (p + q + c + 0) + (-1) = p + q + (c - 1) + 0
      BY <2>3
    <3>5. ((n + 1) + (-1)) % StatMod = ((p + q + c + 0) + (-1)) % StatMod
      BY Zenon, <2>3, <3>2, <3>4, SameCount
    <3> QED BY Zenon, <3>3, <3>4, <3>5
  <2>5. CASE fate = "nomem"
    <3>1. Early(d) = 0 /\ Late(d)' = 1
      BY <1>1, <1>6, <2>5 DEF Early, Late, Dst
    <3>2. (n + 0) % StatMod = (p + q + c + 0) % StatMod
      BY Zenon, <1>4, <3>1 DEF Balanced
    <3>3. Balanced(d)' <=> (n + 0) % StatMod = (p + q + (c - 1) + 1) % StatMod
      BY Zenon, <1>1, <1>4, <2>1, <3>1 DEF Balanced
    <3> HIDE DEF n, c, p, q
    <3>4. p + q + c + 0 = p + q + (c - 1) + 1
      BY <2>3
    <3> QED BY Zenon, <3>2, <3>3, <3>4
  <2> QED BY <2>2, <2>4, <2>5
<1> QED BY <1>5, <1>6

(* DMA_RX takes a frame away, while the poll has none in hand.             *)
LEMMA CommandTakes ==
  ASSUME IInv, FateHeld, MarkEmpty("genl"), NEW d \in Ifaces, Balanced(d)
  PROVE  Balanced(d)'
<1> DEFINE dst == Dst(frames[Oldest])
<1>1. pc["genl"] = "clear" /\ UNCHANGED <<fate, skb, rx_packets, rx_dropped>>
  BY DEF MarkEmpty, pollVars, statVars
<1>2. fate = "none" /\ fate' = "none"
  BY <1>1 DEF FateHeld, IInv, Token, Quiet
<1>3. arrived' = IF dst < 0 THEN arrived
                 ELSE [arrived EXCEPT ![dst] = (@ + StatMod - 1) % StatMod]
  BY MarkEmptyStep DEF MarkEmpty, IndexOf, Dst
<1>4. /\ StatMod \in Nat \ {0} /\ arrived[d] \in 0 .. StatMod - 1
      /\ rx_packets[d] \in 0 .. StatMod - 1
      /\ rx_dropped[d] \in 0 .. StatMod - 1
      /\ Cardinality(Waits(d)) \in Nat
      /\ arrived \in [Ifaces -> 0 .. StatMod - 1]
  BY AccountTypes DEF IInv, TypeOK
<1>5. dst < 0 <=> dst \notin Ifaces
  BY DstType DEF Dst
<1>6. /\ Early(d) = 0 /\ Late(d) = 0 /\ Early(d)' = 0 /\ Late(d)' = 0
  BY <1>2 DEF Early, Late
<1>7. /\ dst = d => Cardinality(Waits(d)') = Cardinality(Waits(d)) - 1
      /\ dst # d => Cardinality(Waits(d)') = Cardinality(Waits(d))
  BY TakenOut
<1> HIDE DEF dst
<1>8. CASE dst # d
  <2>1. arrived'[d] = arrived[d]
    BY <1>3, <1>4, <1>5, <1>8
  <2> QED BY Zenon, <1>1, <1>6, <1>7, <1>8, <2>1 DEF Balanced
<1>9. CASE dst = d
  <2> DEFINE n == arrived[d]
             c == Cardinality(Waits(d))
             p == rx_packets[d]
             q == rx_dropped[d]
  <2>1. arrived'[d] = (n + StatMod - 1) % StatMod
    BY <1>3, <1>4, <1>5, <1>9
  <2>2. (n + 0) % StatMod = (p + q + c + 0) % StatMod
    BY Zenon, <1>6 DEF Balanced
  <2>3. Balanced(d)' <=>
          (((n + StatMod - 1) % StatMod) + 0) % StatMod
            = (p + q + (c - 1) + 0) % StatMod
    BY Zenon, <1>1, <1>6, <1>7, <1>9, <2>1 DEF Balanced
  <2>4. n \in 0 .. StatMod - 1 /\ c \in Nat /\ p \in Nat /\ q \in Nat
        /\ StatMod \in Nat \ {0}
    BY <1>4
  <2> HIDE DEF n, c, p, q
  <2>5. /\ n + 0 \in Int /\ p + q + c + 0 \in Int /\ -1 \in Int /\ 0 \in Int
        /\ (n + 0) + (-1) = n - 1 + 0
        /\ (p + q + c + 0) + (-1) = p + q + (c - 1) + 0
    BY <2>4
  <2>6. (((n + StatMod - 1) % StatMod) + 0) % StatMod = (n - 1 + 0) % StatMod
    BY Zenon, <2>4, <2>5, Uncounted
  <2>7. ((n + 0) + (-1)) % StatMod = ((p + q + c + 0) + (-1)) % StatMod
    BY Zenon, <2>2, <2>4, <2>5, SameCount
  <2> QED BY Zenon, <2>3, <2>5, <2>6, <2>7
<1> QED BY <1>8, <1>9

(* The poll looks at a packet; one that it copies is counted at once.      *)
LEMMA PollTakes ==
  ASSUME IInv, FateHeld, Quietly, [Next]_vars,
         PollBadOpcode \/ PollNoMemory \/ PollDeliver,
         NEW d \in Ifaces, Balanced(d)
  PROVE  Balanced(d)'
<1>1. /\ pc["poll"] = "take" /\ pc'["poll"] = "clear"
      /\ skb' = frames[poll_index]
      /\ UNCHANGED <<arrived, rx_dropped, credits, buf_index>>
      /\ pc' = [pc EXCEPT !["poll"] = "clear"]
  BY DEF PollBadOpcode, PollNoMemory, PollDeliver, Goto, hwVars, statVars,
         ringVars, IInv, TypeOK, Contexts
<1>2. Waits(d)' = Waits(d)
  <2>1. \A l \in InRegion : (At(l) <=> l = "take") /\ (At(l)' <=> l = "clear")
    BY <1>1, AtStep DEF IInv, TypeOK, PcType, InRegion
  <2>2. Oldest' = Oldest /\ Filled' = Filled
    BY <1>1, <2>1 DEF Oldest, Filled, InRegion, Slot
  <2> QED BY <2>2, WaitsKept
<1>3. /\ StatMod \in Nat \ {0} /\ arrived[d] \in 0 .. StatMod - 1
      /\ rx_packets[d] \in 0 .. StatMod - 1
      /\ rx_dropped[d] \in 0 .. StatMod - 1
      /\ Cardinality(Waits(d)) \in Nat
      /\ rx_packets \in [Ifaces -> 0 .. StatMod - 1]
  BY AccountTypes DEF IInv, TypeOK
<1>4. Early(d) = 0 /\ Late(d) = 0 /\ Late(d)' = 0
  <2>1. fate = "none"
    BY <1>1 DEF FateHeld
  <2> QED BY <1>1, <2>1 DEF Early, Late
<1>5. CASE PollDeliver /\ Dst(skb') = d
  <2> DEFINE n == arrived[d]
             c == Cardinality(Waits(d))
             p == rx_packets[d]
             q == rx_dropped[d]
  <2>1. Early(d)' = 1
    BY <1>1, <1>5 DEF Early, PollDeliver, Dst
  <2>2. rx_packets'[d] = (p + 1) % StatMod
    BY <1>1, <1>3, <1>5 DEF PollDeliver, dst_iface, Dst
  <2>3. (n + 0) % StatMod = (p + q + c + 0) % StatMod
    BY Zenon, <1>4 DEF Balanced
  <2>4. Balanced(d)' <=>
          (n + 1) % StatMod = (((p + 1) % StatMod) + q + c + 0) % StatMod
    BY Zenon, <1>1, <1>2, <1>4, <2>1, <2>2 DEF Balanced
  <2>5. n \in Nat /\ c \in Nat /\ p \in 0 .. StatMod - 1 /\ q \in Nat
        /\ StatMod \in Nat \ {0}
    BY <1>3
  <2> DEFINE r == (p + 1) % StatMod
  <2>6. r \in Int
    BY <2>5, Counted
  <2> HIDE DEF n, c, p, q, r
  <2>7. /\ n + 0 \in Int /\ p + q + c + 0 \in Int /\ 1 \in Int
        /\ q + c \in Int
        /\ (n + 0) + 1 = n + 1
        /\ (p + q + c + 0) + 1 = p + 1 + (q + c)
        /\ r + q + c + 0 = r + (q + c)
    BY <2>5, <2>6
  <2>8. (((p + 1) % StatMod) + (q + c)) % StatMod
          = (p + 1 + (q + c)) % StatMod
    BY Zenon, <2>5, <2>7, Counted
  <2>9. ((n + 0) + 1) % StatMod = ((p + q + c + 0) + 1) % StatMod
    BY Zenon, <2>3, <2>5, <2>7, SameCount
  <2> QED BY Zenon, <2>4, <2>7, <2>8, <2>9 DEF r
<1>6. CASE ~(PollDeliver /\ Dst(skb') = d)
  <2>1. rx_packets'[d] = rx_packets[d]
    <3>1. CASE PollDeliver
      BY <1>1, <1>3, <1>6, <3>1 DEF PollDeliver, dst_iface, Dst
    <3>2. CASE ~PollDeliver
      BY <3>2, Changes
    <3> QED BY <3>1, <3>2
  <2>2. Early(d)' = 0
    <3>1. PollDeliver \/ fate' # "deliver"
      BY DEF PollBadOpcode, PollNoMemory
    <3> QED BY <1>6, <3>1 DEF Early, Dst
  <2> QED BY Zenon, <1>1, <1>2, <1>4, <2>1, <2>2 DEF Balanced
<1> QED BY <1>5, <1>6

(* The rest of the loop body counts a packet that could not be copied.     *)
LEMMA PollCounts ==
  ASSUME IInv, FateHeld, Quietly, [Next]_vars, PollNext,
         NEW d \in Ifaces, Balanced(d)
  PROVE  Balanced(d)'
<1>1. /\ pc["poll"] = "next" /\ fate' = "none"
      /\ UNCHANGED <<arrived, rx_packets, credits, buf_index>>
      /\ pc' = [pc EXCEPT !["poll"] = "loop"]
      /\ rx_dropped' =
           IF fate = "nomem"
           THEN [rx_dropped EXCEPT ![Dst(skb)] = (@ + 1) % StatMod]
           ELSE rx_dropped
  BY DEF PollNext, Goto, hwVars, ringVars, Dst
<1>2. Waits(d)' = Waits(d)
  <2>1. \A l \in InRegion : (At(l) <=> l = "next") /\ (At(l)' <=> l = "loop")
    BY <1>1, AtStep DEF IInv, TypeOK, PcType, InRegion
  <2>2. Oldest' = Oldest /\ Filled' = Filled
    BY <1>1, <2>1 DEF Oldest, Filled, InRegion, Slot
  <2> QED BY <2>2, WaitsKept
<1>3. /\ StatMod \in Nat \ {0} /\ arrived[d] \in 0 .. StatMod - 1
      /\ rx_packets[d] \in 0 .. StatMod - 1
      /\ rx_dropped[d] \in 0 .. StatMod - 1
      /\ Cardinality(Waits(d)) \in Nat
      /\ rx_dropped \in [Ifaces -> 0 .. StatMod - 1]
  BY AccountTypes DEF IInv, TypeOK
<1>4. Early(d) = 0 /\ Early(d)' = 0 /\ Late(d)' = 0
  BY <1>1 DEF Early, Late
<1>5. CASE fate = "nomem" /\ Dst(skb) = d
  <2> DEFINE n == arrived[d]
             c == Cardinality(Waits(d))
             p == rx_packets[d]
             q == rx_dropped[d]
  <2>1. Late(d) = 1
    BY <1>1, <1>5 DEF Late
  <2>2. rx_dropped'[d] = (q + 1) % StatMod
    BY <1>1, <1>3, <1>5
  <2>3. (n + 0) % StatMod = (p + q + c + 1) % StatMod
    BY Zenon, <1>4, <2>1 DEF Balanced
  <2>4. Balanced(d)' <=>
          (n + 0) % StatMod = (p + ((q + 1) % StatMod) + c + 0) % StatMod
    BY Zenon, <1>1, <1>2, <1>4, <2>2 DEF Balanced
  <2>5. n \in Nat /\ c \in Nat /\ q \in 0 .. StatMod - 1 /\ p \in Nat
        /\ StatMod \in Nat \ {0}
    BY <1>3
  <2> DEFINE r == (q + 1) % StatMod
  <2>6. r \in Int
    BY <2>5, Counted
  <2> HIDE DEF n, c, p, q, r
  <2>7. /\ p + c \in Int
        /\ p + q + c + 1 = q + 1 + (p + c)
        /\ p + r + c + 0 = r + (p + c)
    BY <2>5, <2>6
  <2>8. (((q + 1) % StatMod) + (p + c)) % StatMod
          = (q + 1 + (p + c)) % StatMod
    BY Zenon, <2>5, <2>7, Counted
  <2> QED BY Zenon, <2>3, <2>4, <2>7, <2>8 DEF r
<1>6. CASE ~(fate = "nomem" /\ Dst(skb) = d)
  <2>1. rx_dropped'[d] = rx_dropped[d] /\ Late(d) = 0
    BY <1>1, <1>3, <1>6 DEF Late
  <2> QED BY Zenon, <1>1, <1>2, <1>4, <2>1 DEF Balanced
<1> QED BY <1>5, <1>6

(* All other steps leave the account alone.                                *)
LEMMA AccountKept ==
  ASSUME IInv, FateHeld, FateHeld', Quietly, [Next]_vars, ~HwFlag,
         ~MarkEmpty("poll"), ~MarkEmpty("genl"), ~PollBadOpcode,
         ~PollNoMemory, ~PollDeliver, ~PollNext,
         NEW d \in Ifaces, Balanced(d)
  PROVE  Balanced(d)'
<1>1. UNCHANGED <<arrived, fate, skb, rx_packets, rx_dropped>>
  BY Changes DEF GiveBackBy
<1>2. Oldest' = Oldest /\ Filled' = Filled
  <2>1. ASSUME NEW c \in {"poll", "genl"}, GiveBack(c)
        PROVE  Oldest' = Oldest /\ Filled' = Filled
    BY <2>1, DoorbellStep, AdvanceStep, WrapStep DEF GiveBack
  <2> QED BY <2>1, OtherSteps
<1>3. Waits(d)' = Waits(d)
  BY <1>2, WaitsKept
<1>4. fate # "none" => (pc'["poll"] = "clear" <=> pc["poll"] = "clear")
  <2>1. pc \in [Contexts -> InRegion \cup {"idle", "schedule", "rearm", "add"}]
    BY DEF IInv, TypeOK
  <2> SUFFICES ASSUME fate # "none"
               PROVE  pc'["poll"] = "clear" <=> pc["poll"] = "clear"
    OBVIOUS
  <2>2. pc["poll"] \in {"clear", "doorbell", "advance", "wrap", "next"}
    BY DEF FateHeld
  <2> USE DEF Goto, Contexts
  <2>3. CASE HwWrite \/ UNCHANGED vars
    BY <2>3 DEF HwWrite, vars
  <2>4. CASE TimerExpires \/ TimerCheck \/ TimerSchedules \/ TimerRearms
    BY <2>1, <2>4 DEF TimerExpires, TimerCheck, TimerSchedules, TimerRearms
  <2>5. CASE PollStart \/ PollLoop \/ PollComplete \/ PollRearms \/ PollMore
    BY <2>2, <2>5 DEF PollStart, PollLoop, PollComplete, PollRearms, PollMore
  <2>6. ASSUME NEW c \in {"poll", "genl"}, GiveBack(c)
        PROVE  pc'["poll"] = "clear" <=> pc["poll"] = "clear"
    BY <2>1, <2>6 DEF GiveBack, RingDoorbell, AdvanceIndex, WrapIndex
  <2>7. CASE GenlRxEnter \/ GenlRxNothing \/ GenlRxPut \/ GenlRxReply
    BY <2>1, <2>7
    DEF GenlRxEnter, GenlRxNothing, GenlRxPut, GenlRxReply, MayIssue
  <2>8. CASE GenlEnableDel \/ GenlEnableAdd \/ genl_cmd_napi_disable
    BY <2>1, <2>8
    DEF GenlEnableDel, GenlEnableAdd, genl_cmd_napi_disable, MayIssue
  <2> QED
    BY <2>3, <2>4, <2>5, <2>6, <2>7, <2>8
    DEF Next, rx_poll_timer_cb, nf10_napi_struct_poll, genl_cmd_dma_rx
<1>5. Early(d)' = Early(d) /\ Late(d)' = Late(d)
  BY <1>1, <1>4 DEF Early, Late, Dst
<1> QED BY Zenon, <1>1, <1>3, <1>5 DEF Balanced

(* Every frame received for a network device is counted exactly once as    *)
(* received or dropped, is still in the ring or in the poll's hands, or    *)
(* was taken by DMA_RX, whatever the width of the counters, when DMA_RX    *)
(* and NAPI_ENABLE come while the polling is at rest.                      *)
THEOREM Accounting == ASSUME Quietly PROVE Spec => []StatsAccount
<1>1. Init => FateHeld /\ StatsAccount
  <2> SUFFICES ASSUME Init PROVE FateHeld /\ \A d \in Ifaces : Balanced(d)
    BY AccountIsBalance
  <2>1. fate = "none" /\ pc["poll"] = "idle" /\ pc["genl"] = "idle"
        /\ credits = DMA_CPU_BUFS
    BY DEF Init, Contexts
  <2>2. Filled = 0
    BY <2>1, BufsAssumption DEF Filled, At
  <2>3. ASSUME NEW d \in Ifaces PROVE Balanced(d)
    <3>1. /\ arrived[d] = 0 /\ rx_packets[d] = 0 /\ rx_dropped[d] = 0
          /\ Early(d) = 0 /\ Late(d) = 0
      BY <2>1 DEF Init, Early, Late
    <3>2. Waits(d) = {}
      BY <2>2 DEF Waits
    <3>3. Cardinality(Waits(d)) = 0
      BY <3>2, FS_EmptySet
    <3> QED BY <3>1, <3>3 DEF Balanced
  <2> QED BY <2>1, <2>3 DEF FateHeld
<1>2. IInv /\ FateHeld /\ StatsAccount /\ [Next]_vars
        => FateHeld' /\ StatsAccount'
  <2> SUFFICES ASSUME IInv, FateHeld, StatsAccount, [Next]_vars
               PROVE  FateHeld' /\ StatsAccount'
    OBVIOUS
  <2>1. FateHeld'
    BY FateStep
  <2>2. ASSUME NEW d \in Ifaces PROVE Balanced(d)'
    <3>1. Balanced(d)
      BY AccountIsBalance
    <3>2. CASE HwFlag
      BY <3>1, <3>2, ArrivalBalance
    <3>3. CASE MarkEmpty("poll")
      BY <3>1, <3>3, PollGivesBack
    <3>4. CASE MarkEmpty("genl")
      BY <3>1, <3>4, CommandTakes
    <3>5. CASE PollBadOpcode \/ PollNoMemory \/ PollDeliver
      BY <3>1, <3>5, PollTakes
    <3>6. CASE PollNext
      BY <3>1, <3>6, PollCounts
    <3> QED BY <2>1, <3>1, <3>2, <3>3, <3>4, <3>5, <3>6, AccountKept
  <2> QED BY <2>1, <2>2, AccountIsBalance
<1> QED BY <1>1, <1>2, IInvHolds, PTL DEF Spec
=============================================================================
