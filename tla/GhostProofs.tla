----------------------------- MODULE GhostProofs ----------------------------
(***************************************************************************)
(* Proofs about Ghost, for any ring size, any set of interface pairs, any  *)
(* budget and any traffic: the shared ring is sound and is a FIFO of       *)
(* frames, polling has one driver, the ring outlives its users, and each   *)
(* packet is counted once by its sender's partner.                         *)
(***************************************************************************)
EXTENDS Ghost, SequenceTheorems, FiniteSetTheorems, QueueCounting, TLAPS

-----------------------------------------------------------------------------
(* The inductive invariant.                                                *)

(* Types: sched, the only Boolean variable, and the rest.                  *)
Flag == sched \in BOOLEAN

Held  == GoodFrames \cup {NoFrame}
Stats == [Netdevs -> 0 .. StatMod - 1]
Types ==
  /\ phase \in {"init", "failed", "running", "napi", "del_timer",
                "genl", "unregister", "disable", "free", "unloaded"}
  /\ up \subseteq Netdevs
  /\ dma_cpu_bufs \in 0 .. DMA_CPU_BUFS
  /\ flags \in [Slots -> {0, 1}]
  /\ frames \in [Slots -> Held]
  /\ tx_index \in Slots /\ rx_index \in Slots
  /\ lock \in Netdevs \cup {Nobody}
  /\ pc \in [Contexts -> {"idle", "lock", "flag", "advance", "check",
               "schedule", "rearm", "oops", "loop", "take", "clear", "next",
               "end"}]
  /\ \A i \in Netdevs : pc[i] \in {"idle", "lock", "flag", "advance"}
  /\ pc[Timer] \in {"idle", "check", "schedule", "rearm", "oops"}
  /\ pc[Poll] \in {"idle", "loop", "take", "clear", "next", "end", "rearm"}
  /\ tx_skb \in [Netdevs -> Held]
  /\ timer \in {"idle", "pending", "stopped"}
  /\ n_rx \in 0 .. Budget
  /\ skb \in [frame : Held, fate : {"none", "bad", "nomem", "deliver"}]
  /\ tx_packets \in Stats /\ rx_packets \in Stats /\ rx_dropped \in Stats

Loading == {"init", "failed"}
Closing == {"disable", "free", "unloaded"}

(* What module init and exit have done by each phase. *)
Life ==
  /\ mem = IF phase \in Loading THEN "none"
           ELSE IF phase = "unloaded" THEN "freed" ELSE "ok"
  /\ phase \notin Closing \cup {"unregister"} => up = Netdevs
  /\ phase \in Closing => up = {}
  /\ phase \notin Loading => /\ dma_cpu_bufs >= MIN_DMA_CPU_BUFS
                             /\ tx_index < dma_cpu_bufs
                             /\ rx_index < dma_cpu_bufs
  /\ phase \in Loading => /\ tx_index = 0 /\ rx_index = 0
                          /\ \A i \in Slots : flags[i] = 0

InPoll == {"loop", "take", "clear", "next", "end"}

(* A sender has its interface; a poll is scheduled, which it is only until *)
(* napi_disable() has returned.                                            *)
Users ==
  /\ \A i \in Netdevs : pc[i] # "idle" => phase \notin Loading /\ i \in up
  /\ pc[Poll] \in InPoll => sched
  /\ pc[Poll] = "rearm" => ~sched
  /\ sched => phase \in {"running", "napi"}

(* There is one driver, and none while the module is loading. *)
Driver ==
  /\ OneDriver
  /\ phase \in Loading => \A x \in Drivers : ~Driving(x)

(* The sender that holds the lock fills an empty buffer with its frame.    *)
Sending ==
  /\ \A i \in Netdevs : pc[i] \in {"flag", "advance"} => lock = i
  /\ \A i \in Netdevs : pc[i] = "flag" => /\ flags[tx_index] = 0
                                          /\ frames[tx_index] = tx_skb[i]
  /\ \A i \in Netdevs : pc[i] \in {"lock", "flag"} => tx_skb[i] \in GoodFrames

(* The poll empties a full buffer, and stays within its budget.            *)
Receiving ==
  /\ pc[Poll] \in {"take", "clear"} => flags[rx_index] = 1
  /\ pc[Poll] \in {"take", "clear", "next"} => n_rx < Budget

IInv == /\ Flag /\ Types
        /\ Life /\ Users /\ Driver
        /\ Sending /\ Receiving
        /\ RingAgrees

-----------------------------------------------------------------------------
(* Numbers, frames and contexts. *)

(* The timer callback and the poll are not interfaces. *)
LEMMA ContextFacts ==
  /\ Timer \notin Netdevs /\ Poll \notin Netdevs /\ Timer # Poll
  /\ Timer \in Contexts /\ Poll \in Contexts /\ Netdevs \subseteq Contexts
  /\ Nobody \notin Netdevs
BY GhostAssumption DEF Timer, Poll, Contexts, Nobody

(* A frame as nf10_ghost_xmit makes it. *)
LEMMA FrameMade ==
  ASSUME NEW i \in Netdevs, NEW p \in {"ip", "other"}
  PROVE  [opCode |-> rx_set_dst_iface(Partner(i)), proto |-> p,
          flipped |-> p = "ip"] \in GoodFrames
<1>1. Partner(i) \in Netdevs
  BY GhostAssumption
<1> DEFINE x == rx_set_dst_iface(Partner(i))
<1>2. x \in {rx_set_dst_iface(j) : j \in Netdevs}
  BY <1>1
<1> HIDE DEF x
<1>3. [opCode |-> x, proto |-> p, flipped |-> p = "ip"] \in GoodFrames
  BY <1>2, Zenon DEF GoodFrames
<1> QED BY <1>3 DEF x

(* Counting a packet keeps the type of the statistics. *)
LEMMA CountType ==
  ASSUME NEW s \in Stats, NEW i PROVE Count(s, i) \in Stats
<1>1. \A n \in 0 .. StatMod - 1 : (n + 1) % StatMod \in 0 .. StatMod - 1
  BY GhostAssumption
<1> QED BY <1>1 DEF Count, Stats

(* Ring arithmetic: walking the ring stays in it. *)
LEMMA SlotType ==
  ASSUME NEW n \in Nat, n > 0, dma_cpu_bufs = n,
         NEW i \in 0 .. n - 1, NEW k \in 0 .. n
  PROVE  Slot(i, k) \in 0 .. n - 1
BY DEF Slot

(* Ring arithmetic: fewer than a whole turn reaches distinct buffers. *)
LEMMA SlotInjective ==
  ASSUME NEW n \in Nat, n > 0, dma_cpu_bufs = n, NEW i \in 0 .. n - 1,
         NEW j \in 0 .. n - 1, NEW k \in 0 .. n - 1, Slot(i, j) = Slot(i, k)
  PROVE  j = k
BY DEF Slot

(* Ring arithmetic: k steps from the next buffer are k + 1 steps. *)
LEMMA SlotShift ==
  ASSUME NEW n \in Nat, n > 0, dma_cpu_bufs = n,
         NEW i \in 0 .. n - 1, NEW k \in 0 .. n - 1
  PROVE  /\ Slot(Slot(i, 1), k) = Slot(i, k + 1)
         /\ Slot(Slot(i, k), 1) = Slot(i, k + 1)
BY DEF Slot

(* Ring arithmetic: no step, one step and a whole turn. *)
LEMMA SlotTurn ==
  ASSUME NEW n \in Nat, n > 0, dma_cpu_bufs = n, NEW i \in 0 .. n - 1
  PROVE  Slot(i, 0) = i /\ Slot(i, n) = i /\ Advance(i) = Slot(i, 1)
BY DEF Slot, Advance

(* The number of full buffers, and how a flag changes it. *)
LEMMA FilledType == Filled \in Nat
<1>1. IsFiniteSet(Slots)
  BY GhostAssumption, FS_Interval DEF Slots
<1>2. {i \in Slots : flags[i] = 1} \in SUBSET Slots
  OBVIOUS
<1> QED BY <1>1, <1>2, FS_Subset, FS_CardinalityType DEF Filled

(* Setting a flag that was clear adds one buffer. *)
LEMMA FilledUp ==
  ASSUME flags \in [Slots -> {0, 1}], NEW j \in Slots, flags[j] = 0,
         flags' = [flags EXCEPT ![j] = 1]
  PROVE  Filled' = Filled + 1
<1> DEFINE S == {i \in Slots : flags[i] = 1}
<1>1. IsFiniteSet(Slots)
  BY GhostAssumption, FS_Interval DEF Slots
<1>2. IsFiniteSet(S)
  BY <1>1, FS_Subset
<1>3. {i \in Slots : flags'[i] = 1} = S \cup {j} /\ j \notin S
  OBVIOUS
<1> QED BY <1>2, <1>3, FS_AddElement DEF Filled

(* Clearing a flag that was set takes one away. *)
LEMMA FilledDown ==
  ASSUME flags \in [Slots -> {0, 1}], NEW j \in Slots, flags[j] = 1,
         flags' = [flags EXCEPT ![j] = 0]
  PROVE  Filled' = Filled - 1
<1> DEFINE S == {i \in Slots : flags[i] = 1}
<1>1. IsFiniteSet(Slots)
  BY GhostAssumption, FS_Interval DEF Slots
<1>2. IsFiniteSet(S)
  BY <1>1, FS_Subset
<1>3. {i \in Slots : flags'[i] = 1} = S \ {j} /\ j \in S
  OBVIOUS
<1> QED BY <1>2, <1>3, FS_RemoveElement DEF Filled

(* No flag is set: no buffer is full. *)
LEMMA FilledNone ==
  ASSUME \A i \in Slots : flags[i] = 0 PROVE Filled = 0
<1>1. {i \in Slots : flags[i] = 1} = {}
  OBVIOUS
<1> QED BY <1>1, FS_EmptySet DEF Filled

-----------------------------------------------------------------------------
(* Each part of the invariant holds initially and is kept. *)

(* The initial state satisfies the invariant. *)
LEMMA InitIInv == Init => IInv
<1> SUFFICES ASSUME Init PROVE IInv
  OBVIOUS
<1> USE DEF Init
<1>0. 0 \in Slots /\ DMA_CPU_BUFS \in Nat /\ 0 \in 0 .. StatMod - 1
      /\ 0 \in 0 .. Budget /\ NoFrame \in Held
  BY GhostAssumption DEF Slots, Held
<1>a. NoSkb \in [frame : Held, fate : {"none", "bad", "nomem", "deliver"}]
  BY <1>0 DEF NoSkb
<1>1. Types
  BY <1>0, <1>a, ContextFacts DEF Types, Stats
<1>2. Flag
  BY Zenon DEF Flag
<1>3. Life
  BY DEF Life, Loading, Closing
<1>4. Users
  BY ContextFacts DEF Users, InPoll
<1>5. Driver
  BY ContextFacts DEF Driver, OneDriver, Driving, Drivers, Loading
<1>6. Sending /\ Receiving
  BY ContextFacts DEF Sending, Receiving
<1>7. RingAgrees
  BY DEF RingAgrees
<1> QED BY <1>1, <1>2, <1>3, <1>4, <1>5, <1>6, <1>7 DEF IInv

(* sched stays Boolean. *)
LEMMA FlagStep == IInv /\ [Next]_vars => Flag'
<1> SUFFICES ASSUME IInv, [Next]_vars PROVE Flag'
  OBVIOUS
<1>0. Flag
  BY DEF IInv
<1>1. \/ UNCHANGED sched \/ TimerSchedules \/ PollComplete \/ PollMore
  BY Zenon DEF Next, enable_ghosting, GhostTryLess, GhostNoMemory,
     GhostEnabled, ExitNapi, nf10_eth_driver_exit, ExitNapiWait,
     ExitDelTimer, ExitGenl, ExitUnregister, GhostDelTimer, GhostFree,
     XmitEnter, nf10_ghost_xmit, XmitFull, XmitCopy, XmitFlag, XmitFinish,
     TimerExpires, rx_poll_timer_cb, TimerCheck, TimerRearms, PollStart,
     nf10_napi_struct_poll, PollLoop, PollTake, PollClear, PollNext,
     PollRearms, NapiCommand, genl_cmd_napi_enable, genl_cmd_napi_disable,
     vars, rxVars
<1>2. CASE UNCHANGED sched
  BY Zenon, <1>0, <1>2 DEF Flag
<1>3. CASE TimerSchedules
  BY Zenon, <1>3 DEF Flag, TimerSchedules
<1>4. CASE PollComplete
  BY Zenon, <1>4 DEF Flag, PollComplete
<1>5. CASE PollMore
  BY Zenon, <1>5 DEF Flag, PollMore
<1> QED BY <1>1, <1>2, <1>3, <1>4, <1>5

(* Module init and exit in step with the phase. *)
LEMMA LifeStep == IInv /\ [Next]_vars => Life'
<1> SUFFICES ASSUME IInv, [Next]_vars PROVE Life'
  OBVIOUS
<1>0. Types /\ Life /\ Users
  BY DEF IInv
<1> DEFINE n == dma_cpu_bufs
<1>a. /\ n \in Nat /\ MIN_DMA_CPU_BUFS \in Nat \ {0}
      /\ tx_index \in Nat /\ rx_index \in Nat
  BY <1>0, GhostAssumption DEF Types, Slots
<1>1. CASE GhostTryLess
  BY <1>0, <1>1 DEF GhostTryLess, Life, lifeVars, Loading
<1>2. CASE GhostNoMemory
  BY <1>0, <1>2 DEF GhostNoMemory, Life, ringVars, Loading, Closing
<1>3. CASE GhostEnabled
  BY <1>0, <1>a, <1>3 DEF GhostEnabled, Life, ringVars, Loading, Closing
<1>4. CASE ExitNapi \/ ExitNapiWait \/ ExitDelTimer \/ ExitGenl
  BY <1>0, <1>4 DEF ExitNapi, ExitNapiWait, ExitDelTimer, ExitGenl, Life,
     ringVars, Loading, Closing
<1>5. CASE ExitUnregister
  BY <1>0, <1>5 DEF ExitUnregister, Life, ringVars, Loading, Closing
<1>6. CASE GhostDelTimer \/ GhostFree
  BY <1>0, <1>6 DEF GhostDelTimer, GhostFree, Life, ringVars, Loading, Closing
<1>7. ASSUME NEW i \in Netdevs, XmitEnter(i) \/ XmitFull(i) \/ XmitCopy(i)
      PROVE Life'
  BY <1>0, <1>7 DEF XmitEnter, XmitFull, XmitCopy, Life, lifeVars, ringVars
<1>8. ASSUME NEW i \in Netdevs, XmitFlag(i) \/ XmitFinish(i) PROVE Life'
  <2>1. phase \notin Loading
    BY <1>0, <1>8 DEF XmitFlag, XmitFinish, Users
  <2>2. Advance(tx_index) < n
    BY <1>0, <1>a, <2>1 DEF Advance, Life
  <2> QED BY <1>0, <1>8, <2>1, <2>2
          DEF XmitFlag, XmitFinish, Life, lifeVars
<1>9. CASE PollClear \/ PollNext
  <2>1. phase \notin Loading
    BY <1>0, <1>9 DEF PollClear, PollNext, Users, InPoll, Loading
  <2>2. Advance(rx_index) < n
    BY <1>0, <1>a, <2>1 DEF Advance, Life
  <2> QED BY <1>0, <1>9, <2>1, <2>2
          DEF PollClear, PollNext, Life, lifeVars
<1>10. CASE TimerExpires \/ rx_poll_timer_cb \/ NapiCommand
  BY <1>0, <1>10 DEF TimerExpires, rx_poll_timer_cb, TimerCheck,
     TimerSchedules, TimerRearms, NapiCommand, genl_cmd_napi_enable,
     genl_cmd_napi_disable, Life, lifeVars, ringVars
<1>11. CASE PollStart \/ PollLoop \/ PollTake \/ PollComplete \/ PollRearms
            \/ PollMore
  BY <1>0, <1>11 DEF PollStart, PollLoop, PollTake, PollComplete,
     PollRearms, PollMore, Life, lifeVars, ringVars
<1>12. CASE UNCHANGED vars
  BY <1>0, <1>12 DEF vars, Life, lifeVars, ringVars
<1> QED BY <1>1, <1>2, <1>3, <1>4, <1>5, <1>6, <1>7, <1>8, <1>9, <1>10,
           <1>11, <1>12 DEF Next, enable_ghosting, nf10_eth_driver_exit,
           nf10_ghost_xmit, nf10_napi_struct_poll

(* Types are kept. *)
LEMMA TypesStep == IInv /\ [Next]_vars => Types'
<1> SUFFICES ASSUME IInv, [Next]_vars PROVE Types'
  OBVIOUS
<1>0. Types /\ Life /\ Users /\ Sending /\ Receiving
  BY DEF IInv
<1>c. NoFrame \in Held /\ 0 \in 0 .. Budget /\ Budget \in Nat
      /\ GoodFrames \subseteq Held
  BY GhostAssumption DEF Held
<1>1. CASE enable_ghosting
  <2>1. dma_cpu_bufs \div 2 \in 0 .. DMA_CPU_BUFS
    BY <1>0, GhostAssumption DEF Types
  <2> QED BY <1>0, <1>1, <2>1 DEF enable_ghosting, GhostTryLess,
     GhostNoMemory, GhostEnabled, Types, lifeVars, ringVars, txVars, rxVars,
     rxStats
<1>2. CASE ExitNapi \/ ExitNapiWait \/ ExitDelTimer \/ ExitGenl
           \/ GhostDelTimer \/ GhostFree
  BY <1>0, <1>2 DEF ExitNapi, ExitNapiWait, ExitDelTimer, ExitGenl,
     GhostDelTimer, GhostFree, Types, ringVars, txVars, rxVars, rxStats
<1>3. CASE ExitUnregister
  BY <1>0, <1>3 DEF ExitUnregister, Types, ringVars, txVars, rxVars, rxStats
<1>4. ASSUME NEW i \in Netdevs, XmitEnter(i) PROVE Types'
  <2>1. PICK p \in Protos[i] :
          tx_skb' = [tx_skb EXCEPT ![i] =
                       [opCode |-> rx_set_dst_iface(Partner(i)),
                        proto |-> p, flipped |-> p = "ip"]]
    BY <1>4 DEF XmitEnter
  <2>2. p \in {"ip", "other"}
    BY GhostAssumption
  <2> DEFINE f == [opCode |-> rx_set_dst_iface(Partner(i)),
                   proto |-> p, flipped |-> p = "ip"]
  <2>3. f \in Held
    BY <2>2, FrameMade, Zenon DEF Held
  <2> HIDE DEF f
  <2>4. tx_skb' \in [Netdevs -> Held]
    BY <1>0, <2>1, <2>3 DEF Types, f
  <2> QED BY <1>0, <1>4, <2>4, ContextFacts DEF XmitEnter, Goto, Types,
             lifeVars, ringVars, rxVars, rxStats
<1>5. ASSUME NEW i \in Netdevs, XmitFull(i) \/ XmitCopy(i) PROVE Types'
  BY <1>0, <1>c, <1>5, ContextFacts DEF XmitFull, XmitCopy, Goto, Types,
     lifeVars, ringVars, rxVars, rxStats
<1>6. ASSUME NEW i \in Netdevs, XmitFlag(i) PROVE Types'
  BY <1>0, <1>6, ContextFacts DEF XmitFlag, Goto, Types, lifeVars, txVars,
     rxVars, rxStats
<1>7. ASSUME NEW i \in Netdevs, XmitFinish(i) PROVE Types'
  <2>1. phase \notin Loading
    BY <1>0, <1>7 DEF XmitFinish, Users
  <2>2. Advance(tx_index) \in Slots
    BY <1>0, <2>1, GhostAssumption DEF Advance, Life, Types, Slots
  <2>3. Count(tx_packets, i) \in Stats
    BY <1>0, CountType DEF Types
  <2> QED BY <1>0, <1>c, <1>7, <2>2, <2>3, ContextFacts DEF XmitFinish, Goto,
             Types, lifeVars, rxVars, rxStats
<1>8. CASE TimerExpires \/ rx_poll_timer_cb
  BY <1>0, <1>8, ContextFacts DEF TimerExpires, rx_poll_timer_cb, TimerCheck,
     TimerSchedules, TimerRearms, Goto, Types, lifeVars, ringVars, txVars,
     rxVars, rxStats
<1>9. CASE PollStart \/ PollLoop \/ PollComplete \/ PollRearms \/ PollMore
  BY <1>0, <1>c, <1>9, ContextFacts DEF PollStart, PollLoop, PollComplete,
     PollRearms, PollMore, Goto, Types, lifeVars, ringVars, txVars, rxVars,
     rxStats
<1>10. CASE PollTake
  <2>1. PICK fate \in {"bad", "nomem", "deliver"} :
          /\ skb' = [frame |-> frames[rx_index], fate |-> fate]
          /\ \/ rx_packets' = rx_packets
             \/ rx_packets' =
                  Count(rx_packets, rx_get_dst_iface(frames[rx_index].opCode))
    BY <1>10 DEF PollTake
  <2>2. rx_packets' \in Stats
    BY <1>0, <2>1, CountType DEF Types
  <2>3. skb' \in [frame : Held, fate : {"none", "bad", "nomem", "deliver"}]
    BY <1>0, <2>1 DEF Types
  <2> QED BY <1>0, <1>10, <2>2, <2>3, ContextFacts DEF PollTake, Goto, Types,
             lifeVars, ringVars, txVars
<1>11. CASE PollClear
  BY <1>0, <1>c, <1>11, ContextFacts DEF PollClear, Goto, Types, lifeVars,
     txVars, rxVars, rxStats
<1>12. CASE PollNext
  <2>1. phase \notin Loading /\ n_rx < Budget
    BY <1>0, <1>12 DEF PollNext, Users, InPoll, Loading, Receiving
  <2>2. Advance(rx_index) \in Slots
    BY <1>0, <2>1, GhostAssumption DEF Advance, Life, Types, Slots
  <2>3. rx_dropped' \in Stats
    BY <1>0, <1>12, CountType DEF Types, PollNext
  <2>4. n_rx' \in 0 .. Budget
    BY <1>0, <1>c, <1>12, <2>1 DEF Types, PollNext
  <2>5. skb' \in [frame : Held, fate : {"none", "bad", "nomem", "deliver"}]
    BY <1>c, <1>12 DEF PollNext, NoSkb
  <2> QED BY <1>0, <1>12, <2>2, <2>3, <2>4, <2>5, ContextFacts
          DEF PollNext, Goto, Types, lifeVars, txVars
<1>13. CASE NapiCommand
  BY <1>0, <1>13 DEF NapiCommand, genl_cmd_napi_enable,
     genl_cmd_napi_disable, Types, lifeVars, ringVars, txVars, rxStats
<1>14. CASE UNCHANGED vars
  BY <1>0, <1>14 DEF vars, Types, lifeVars, ringVars, txVars, rxVars, rxStats
<1> QED BY <1>1, <1>2, <1>3, <1>4, <1>5, <1>6, <1>7, <1>8, <1>9, <1>10,
           <1>11, <1>12, <1>13, <1>14 DEF Next, nf10_eth_driver_exit,
           nf10_ghost_xmit, nf10_napi_struct_poll

(* Who uses the ring. *)
LEMMA UsersStep == IInv /\ [Next]_vars => Users'
<1> SUFFICES ASSUME IInv, [Next]_vars PROVE Users'
  OBVIOUS
<1>0. Types /\ Life /\ Users /\ Driver
  BY DEF IInv
<1>d. pc[Timer] # "idle" => ~sched /\ pc[Poll] = "idle"
  BY <1>0, Zenon DEF Driver, OneDriver, Drivers, Driving
<1>1. CASE enable_ghosting
  BY <1>0, <1>1 DEF enable_ghosting, GhostTryLess, GhostNoMemory,
     GhostEnabled, Users, Driver, Driving, Drivers, Loading, lifeVars, rxVars
<1>2. CASE ExitNapi \/ ExitNapiWait
  BY <1>0, <1>2 DEF ExitNapi, ExitNapiWait, Users, Loading, rxVars
<1>3. CASE ExitDelTimer \/ ExitGenl \/ GhostDelTimer \/ GhostFree
  BY <1>0, <1>3 DEF ExitDelTimer, ExitGenl, GhostDelTimer, GhostFree, Users,
     Life, Loading, rxVars
<1>4. CASE ExitUnregister
  BY <1>0, <1>4 DEF ExitUnregister, Users, Life, Loading, rxVars
<1>5. ASSUME NEW i \in Netdevs, XmitEnter(i) \/ nf10_ghost_xmit(i)
      PROVE Users'
  BY <1>0, <1>5, ContextFacts DEF XmitEnter, nf10_ghost_xmit, XmitFull,
     XmitCopy, XmitFlag, XmitFinish, Goto, Users, Types, Loading, lifeVars,
     rxVars
<1>6. CASE TimerExpires \/ TimerCheck \/ TimerRearms
  BY <1>0, <1>6, ContextFacts DEF TimerExpires, TimerCheck, TimerRearms, Goto,
     Users, Types, lifeVars, rxVars
<1>7. CASE TimerSchedules
  <2>1. pc[Poll] = "idle" /\ ~sched
    BY <1>d, <1>7 DEF TimerSchedules
  <2>2. sched' => phase' \in {"running", "napi"}
    BY <1>7, <2>1 DEF TimerSchedules, lifeVars
  <2>3. pc'[Poll] = "idle" /\ \A i \in Netdevs : pc'[i] = pc[i]
    BY <1>0, <1>7, <2>1, ContextFacts DEF TimerSchedules, Goto, Types
  <2> QED BY <1>0, <1>7, <2>2, <2>3 DEF Users, InPoll, TimerSchedules,
             lifeVars
<1>8. CASE PollStart \/ PollLoop \/ PollTake \/ PollClear \/ PollNext
  BY <1>0, <1>8, ContextFacts DEF PollStart, PollLoop, PollTake, PollClear,
     PollNext, Goto, Users, InPoll, Types, lifeVars, rxVars
<1>9. CASE PollComplete \/ PollRearms
  BY <1>0, <1>9, ContextFacts DEF PollComplete, PollRearms, Goto,
     Users, InPoll, Types, lifeVars, rxVars
<1>10. CASE PollMore
  <2>1. sched
    BY <1>0, <1>10 DEF PollMore, Users, InPoll
  <2>2. phase' \in {"running", "napi"} /\ UNCHANGED lifeVars
    BY <1>0, <1>10, <2>1 DEF PollMore, Users, lifeVars
  <2>3. pc'[Poll] = "idle" /\ \A i \in Netdevs : pc'[i] = pc[i]
    BY <1>0, <1>10, ContextFacts DEF PollMore, Goto, Types
  <2> QED BY <1>0, <2>2, <2>3 DEF Users, InPoll, lifeVars
<1>11. CASE NapiCommand
  BY <1>0, <1>11 DEF NapiCommand, genl_cmd_napi_enable,
     genl_cmd_napi_disable, Users, lifeVars
<1>12. CASE UNCHANGED vars
  BY <1>0, <1>12 DEF vars, Users, lifeVars, rxVars
<1> QED BY <1>1, <1>2, <1>3, <1>4, <1>5, <1>6, <1>7, <1>8, <1>9, <1>10,
           <1>11, <1>12 DEF Next, nf10_eth_driver_exit, rx_poll_timer_cb,
           nf10_napi_struct_poll

(* The token passes from the timer to its callback, to the poll and back.  *)
LEMMA DriverStep == IInv /\ [Next]_vars => Driver'
<1> SUFFICES ASSUME IInv, [Next]_vars PROVE Driver'
  OBVIOUS
<1> DEFINE P == timer = "pending"
           T == pc[Timer] # "idle"
           Q == sched \/ pc[Poll] # "idle"
           Token == /\ ~(P /\ T) /\ ~(P /\ Q) /\ ~(T /\ Q)
                    /\ phase = "running" /\ timer # "stopped" => P \/ T \/ Q
                    /\ phase \in Loading => ~P /\ ~T /\ ~Q
<1>0. Types /\ Life /\ Users
  BY DEF IInv
<1>e. Driver <=> Token
  BY Zenon DEF Driver, OneDriver, Drivers, Driving
<1>f. Driver' <=> Token'
  BY Zenon DEF Driver, OneDriver, Drivers, Driving
<1>g. Token
  BY <1>e DEF IInv
<1> USE DEF Loading
<1>1. CASE enable_ghosting
  <2>1. Token'
    BY <1>g, <1>1 DEF enable_ghosting, GhostTryLess, GhostNoMemory,
       GhostEnabled, lifeVars, rxVars
  <2> QED BY <1>f, <2>1
<1>2. CASE ExitNapi \/ nf10_eth_driver_exit
  <2>1. Token'
    BY <1>g, <1>2 DEF ExitNapi, nf10_eth_driver_exit, ExitNapiWait,
       ExitDelTimer, ExitGenl, ExitUnregister, GhostDelTimer, GhostFree,
       rxVars
  <2> QED BY <1>f, <2>1
<1>3. ASSUME NEW i \in Netdevs, XmitEnter(i) \/ nf10_ghost_xmit(i)
      PROVE Driver'
  <2>1. /\ pc'[Timer] = pc[Timer] /\ pc'[Poll] = pc[Poll]
        /\ UNCHANGED <<phase, timer, sched>>
    BY <1>0, <1>3, ContextFacts DEF XmitEnter, nf10_ghost_xmit, XmitFull,
       XmitCopy, XmitFlag, XmitFinish, Goto, Types, lifeVars, rxVars
  <2>2. Token'
    BY <1>g, <2>1
  <2> QED BY <1>f, <2>2
<1>4. CASE TimerExpires \/ rx_poll_timer_cb
  <2>1. /\ pc'[Poll] = pc[Poll] /\ UNCHANGED phase
        /\ \/ P /\ ~P' /\ T' /\ UNCHANGED sched
           \/ T /\ UNCHANGED timer /\ T' /\ UNCHANGED sched
           \/ T /\ UNCHANGED timer /\ ~T' /\ (phase = "running" => sched')
           \/ T /\ P' /\ ~T' /\ UNCHANGED sched
    <3>1. CASE TimerExpires \/ TimerCheck \/ TimerRearms
      BY <1>0, <3>1, ContextFacts DEF TimerExpires, TimerCheck, TimerRearms,
         Goto, Types, lifeVars, rxVars
    <3>2. CASE TimerSchedules
      <4>1. phase = "running" => sched'
        BY Zenon, <3>2 DEF TimerSchedules
      <4>2. T /\ ~T' /\ UNCHANGED <<timer, phase>> /\ pc'[Poll] = pc[Poll]
        BY <1>0, <3>2, ContextFacts DEF TimerSchedules, Goto, Types, lifeVars
      <4> QED BY <4>1, <4>2
    <3> QED BY <1>4, <3>1, <3>2 DEF rx_poll_timer_cb
  <2>2. Token'
    BY <1>g, <2>1
  <2> QED BY <1>f, <2>2
<1>5. CASE PollStart \/ nf10_napi_struct_poll
  <2>1. /\ Q /\ pc'[Timer] = pc[Timer] /\ UNCHANGED phase
        /\ \/ UNCHANGED timer /\ pc'[Poll] # "idle"
           \/ P' /\ pc'[Poll] = "idle" /\ ~sched'
           \/ UNCHANGED timer /\ (phase = "running" => sched')
    <3>1. CASE PollStart
      BY <1>0, <3>1, ContextFacts DEF PollStart, Goto, Types, lifeVars, rxVars
    <3>2. CASE PollLoop \/ PollTake \/ PollClear \/ PollNext \/ PollComplete
      BY <1>0, <3>2, ContextFacts DEF PollLoop, PollTake, PollClear, PollNext,
         PollComplete, Goto, Types, lifeVars, rxVars
    <3>3. CASE PollRearms
      <4>1. ~sched
        BY <1>0, <3>3 DEF Users, PollRearms
      <4> QED BY <1>0, <3>3, <4>1, ContextFacts DEF PollRearms, Goto, Types,
                 lifeVars
    <3>4. CASE PollMore
      <4>1. phase = "running" => sched'
        BY <3>4 DEF PollMore
      <4> QED BY <1>0, <3>4, <4>1, ContextFacts DEF PollMore, Goto, Types,
                 lifeVars
    <3> QED BY <1>5, <3>1, <3>2, <3>3, <3>4 DEF nf10_napi_struct_poll
  <2>2. Token'
    BY <1>g, <2>1
  <2> QED BY <1>f, <2>2
<1>6. CASE NapiCommand
  <2>1. /\ UNCHANGED <<phase, pc, sched>> /\ phase \notin Loading
        /\ \/ ~P /\ ~T /\ ~Q /\ P'
           \/ P /\ timer' = "stopped"
           \/ ~P /\ timer' = timer
    BY Zenon, <1>6 DEF NapiCommand, genl_cmd_napi_enable,
       genl_cmd_napi_disable, Listening, Drivers, Driving, lifeVars
  <2>2. Token'
    BY <1>g, <2>1
  <2> QED BY <1>f, <2>2
<1>7. CASE UNCHANGED vars
  <2>1. Token'
    BY <1>g, <1>7 DEF vars, lifeVars, rxVars
  <2> QED BY <1>f, <2>1
<1> QED BY <1>1, <1>2, <1>3, <1>4, <1>5, <1>6, <1>7 DEF Next

(* The sender that fills a buffer is alone, the poll keeps away from it.   *)
LEMMA SendingStep == IInv /\ [Next]_vars => Sending'
<1> SUFFICES ASSUME IInv, [Next]_vars PROVE Sending'
  OBVIOUS
<1>0. Types /\ Life /\ Users /\ Sending /\ Receiving
  BY DEF IInv
<1>1. CASE enable_ghosting \/ ExitNapi \/ nf10_eth_driver_exit
           \/ NapiCommand \/ UNCHANGED vars
  <2>1. UNCHANGED <<pc, lock, tx_skb, flags, frames, tx_index>>
    BY <1>1 DEF enable_ghosting, GhostTryLess, GhostNoMemory, GhostEnabled,
       ExitNapi, nf10_eth_driver_exit, ExitNapiWait, ExitDelTimer, ExitGenl,
       ExitUnregister, GhostDelTimer, GhostFree, NapiCommand,
       genl_cmd_napi_enable, genl_cmd_napi_disable, vars, ringVars, txVars
  <2> QED BY <1>0, <2>1 DEF Sending
<1>2. CASE TimerExpires \/ rx_poll_timer_cb \/ PollStart \/ PollLoop
           \/ PollTake \/ PollNext \/ PollComplete \/ PollRearms \/ PollMore
  <2>1. /\ \A i \in Netdevs : pc'[i] = pc[i]
        /\ UNCHANGED <<lock, tx_skb, flags, frames, tx_index>>
    BY <1>0, <1>2, ContextFacts DEF TimerExpires, rx_poll_timer_cb,
       TimerCheck, TimerSchedules, TimerRearms, PollStart, PollLoop,
       PollTake, PollNext, PollComplete, PollRearms, PollMore, Goto, Types,
       ringVars, txVars
  <2> QED BY <1>0, <2>1 DEF Sending
<1>3. CASE PollClear
  <2>1. /\ \A i \in Netdevs : pc'[i] = pc[i]
        /\ UNCHANGED <<lock, tx_skb, tx_index>>
        /\ flags' = [flags EXCEPT ![rx_index] = 0]
        /\ frames' = [frames EXCEPT ![rx_index] = NoFrame]
        /\ flags[rx_index] = 1
    BY <1>0, <1>3, ContextFacts DEF PollClear, Goto, Types, txVars, Receiving
  <2>2. \A i \in Netdevs : pc[i] = "flag" => tx_index # rx_index
    BY <1>0, <2>1 DEF Sending
  <2> QED BY <1>0, <2>1, <2>2 DEF Sending, Types
<1>4. ASSUME NEW i \in Netdevs, XmitEnter(i) PROVE Sending'
  <2>1. PICK p \in Protos[i] :
          tx_skb' = [tx_skb EXCEPT ![i] =
                       [opCode |-> rx_set_dst_iface(Partner(i)),
                        proto |-> p, flipped |-> p = "ip"]]
    BY <1>4 DEF XmitEnter
  <2>2. p \in {"ip", "other"}
    BY GhostAssumption
  <2> DEFINE f == [opCode |-> rx_set_dst_iface(Partner(i)),
                   proto |-> p, flipped |-> p = "ip"]
  <2>3. f \in GoodFrames
    BY <2>2, FrameMade, Zenon
  <2> HIDE DEF f
  <2>4. tx_skb' = [tx_skb EXCEPT ![i] = f]
    BY <2>1 DEF f
  <2> QED BY <1>0, <1>4, <2>3, <2>4, ContextFacts DEF XmitEnter, Goto, Types,
             ringVars, Sending
<1>5. ASSUME NEW i \in Netdevs, XmitFull(i) PROVE Sending'
  BY <1>0, <1>5, ContextFacts DEF XmitFull, Goto, Types, ringVars, Sending
<1>6. ASSUME NEW i \in Netdevs, XmitCopy(i) PROVE Sending'
  <2>1. \A j \in Netdevs : pc[j] \notin {"flag", "advance"}
    BY <1>0, <1>6, ContextFacts DEF XmitCopy, Sending
  <2>2. flags[tx_index] = 0 /\ tx_skb[i] \in GoodFrames
    BY <1>0, <1>6 DEF XmitCopy, Types, Sending
  <2> QED BY <1>0, <1>6, <2>1, <2>2, ContextFacts DEF XmitCopy, Goto, Types,
             Sending
<1>7. ASSUME NEW i \in Netdevs, XmitFlag(i) \/ XmitFinish(i) PROVE Sending'
  <2>1. \A j \in Netdevs : j # i => pc[j] \notin {"flag", "advance"}
    BY <1>0, <1>7 DEF XmitFlag, XmitFinish, Sending
  <2> QED BY <1>0, <1>7, <2>1, ContextFacts DEF XmitFlag, XmitFinish, Goto,
             Types, txVars, Sending
<1> QED BY <1>1, <1>2, <1>3, <1>4, <1>5, <1>6, <1>7 DEF Next,
           nf10_ghost_xmit, nf10_napi_struct_poll

(* A full buffer stays full until the poll clears it. *)
LEMMA ReceivingStep == IInv /\ [Next]_vars => Receiving'
<1> SUFFICES ASSUME IInv, [Next]_vars PROVE Receiving'
  OBVIOUS
<1>0. Types /\ Receiving
  BY DEF IInv
<1>1. CASE enable_ghosting \/ ExitNapi \/ nf10_eth_driver_exit
           \/ NapiCommand \/ UNCHANGED vars
  <2>1. UNCHANGED <<pc, flags, rx_index, n_rx>>
    BY <1>1 DEF enable_ghosting, GhostTryLess, GhostNoMemory, GhostEnabled,
       ExitNapi, nf10_eth_driver_exit, ExitNapiWait, ExitDelTimer, ExitGenl,
       ExitUnregister, GhostDelTimer, GhostFree, NapiCommand,
       genl_cmd_napi_enable, genl_cmd_napi_disable, vars, ringVars, rxVars
  <2> QED BY <1>0, <2>1 DEF Receiving
<1>2. ASSUME NEW i \in Netdevs, XmitEnter(i) \/ nf10_ghost_xmit(i)
      PROVE Receiving'
  BY <1>0, <1>2, ContextFacts DEF XmitEnter, nf10_ghost_xmit, XmitFull,
     XmitCopy, XmitFlag, XmitFinish, Goto, Types, ringVars, rxVars, Receiving
<1>3. CASE TimerExpires \/ rx_poll_timer_cb
  BY <1>0, <1>3, ContextFacts DEF TimerExpires, rx_poll_timer_cb, TimerCheck,
     TimerSchedules, TimerRearms, Goto, Types, ringVars, rxVars, Receiving
<1>4. CASE PollStart \/ nf10_napi_struct_poll
  BY <1>0, <1>4, ContextFacts DEF PollStart, nf10_napi_struct_poll, PollLoop,
     PollTake, PollClear, PollNext, PollComplete, PollRearms, PollMore, Goto,
     Types, ringVars, rxVars, Receiving
<1> QED BY <1>1, <1>2, <1>3, <1>4 DEF Next

-----------------------------------------------------------------------------
(* The ring. *)

(* A step that leaves the flags and both ends alone leaves the ring alone. *)
RingStill ==
  /\ UNCHANGED <<dma_cpu_bufs, flags, rx_index, tx_index>>
  /\ pc'[Poll] = "next" <=> pc[Poll] = "next"
  /\ (\E i \in Netdevs : pc'[i] = "advance")
       <=> (\E i \in Netdevs : pc[i] = "advance")

(* Then the oldest, the newest and the number of frames stay.              *)
LEMMA StillEnds ==
  ASSUME RingStill
  PROVE  /\ Oldest' = Oldest /\ Newest' = Newest /\ Filled' = Filled
         /\ \A i, k : Slot(i, k)' = Slot(i, k)
<1>1. \A i, k : Slot(i, k)' = Slot(i, k)
  BY DEF RingStill, Slot
<1>2. Filled' = Filled
  BY DEF RingStill, Filled
<1>3. Oldest' = Oldest
  BY DEF RingStill, Oldest, Slot
<1>4. Newest' = Newest
  BY DEF RingStill, Newest, Slot
<1> QED BY <1>1, <1>2, <1>3, <1>4

(* Most steps are of this kind. *)
LEMMA StillSteps ==
  ASSUME IInv, [Next]_vars, phase # "init"
  PROVE  \/ RingStill
         \/ \E i \in Netdevs : XmitFlag(i) \/ XmitFinish(i)
         \/ PollClear \/ PollNext
<1>0. Types
  BY DEF IInv
<1>1. CASE ExitNapi \/ nf10_eth_driver_exit \/ NapiCommand \/ UNCHANGED vars
  BY <1>1 DEF ExitNapi, nf10_eth_driver_exit, ExitNapiWait, ExitDelTimer,
     ExitGenl, ExitUnregister, GhostDelTimer, GhostFree, NapiCommand,
     genl_cmd_napi_enable, genl_cmd_napi_disable, vars, ringVars, RingStill
<1>2. ASSUME NEW i \in Netdevs, XmitEnter(i) \/ XmitFull(i) \/ XmitCopy(i)
      PROVE  RingStill
  BY <1>0, <1>2, ContextFacts DEF XmitEnter, XmitFull, XmitCopy, Goto, Types,
     ringVars, RingStill
<1>3. CASE TimerExpires \/ rx_poll_timer_cb
  BY <1>0, <1>3, ContextFacts DEF TimerExpires, rx_poll_timer_cb, TimerCheck,
     TimerSchedules, TimerRearms, Goto, Types, ringVars, RingStill
<1>4. CASE PollStart \/ PollLoop \/ PollTake \/ PollComplete \/ PollRearms
           \/ PollMore
  BY <1>0, <1>4, ContextFacts DEF PollStart, PollLoop, PollTake,
     PollComplete, PollRearms, PollMore, Goto, Types, ringVars, RingStill
<1>5. ~enable_ghosting
  BY DEF enable_ghosting, GhostTryLess, GhostNoMemory, GhostEnabled
<1> QED BY <1>1, <1>2, <1>3, <1>4, <1>5 DEF Next, nf10_ghost_xmit,
           nf10_napi_struct_poll

(* The ring while it exists. *)
LEMMA RingFacts ==
  ASSUME IInv, mem = "ok"
  PROVE  /\ dma_cpu_bufs \in Nat /\ dma_cpu_bufs > 0
         /\ dma_cpu_bufs <= DMA_CPU_BUFS
         /\ tx_index \in 0 .. dma_cpu_bufs - 1
         /\ rx_index \in 0 .. dma_cpu_bufs - 1
         /\ Oldest \in 0 .. dma_cpu_bufs - 1
         /\ Filled \in 0 .. dma_cpu_bufs
         /\ 0 .. dma_cpu_bufs - 1 \subseteq Slots
<1>0. Types /\ Life /\ RingAgrees
  BY DEF IInv
<1>1. phase \notin Loading
  BY <1>0 DEF Life
<1>2. /\ dma_cpu_bufs \in Nat /\ dma_cpu_bufs > 0
      /\ dma_cpu_bufs <= DMA_CPU_BUFS
      /\ tx_index \in 0 .. dma_cpu_bufs - 1
      /\ rx_index \in 0 .. dma_cpu_bufs - 1
      /\ 0 .. dma_cpu_bufs - 1 \subseteq Slots
  BY <1>0, <1>1, GhostAssumption DEF Life, Types, Slots
<1>3. Oldest \in 0 .. dma_cpu_bufs - 1
  <2>1. 1 \in 0 .. dma_cpu_bufs
    BY <1>2
  <2>2. Slot(rx_index, 1) \in 0 .. dma_cpu_bufs - 1
    BY <1>2, <2>1, SlotType
  <2> QED BY <1>2, <2>2 DEF Oldest
<1>4. Filled \in 0 .. dma_cpu_bufs
  BY <1>0, <1>2, FilledType DEF RingAgrees
<1> QED BY <1>2, <1>3, <1>4

(* A sender marks its buffer as full: the ring gains a frame at its end.   *)
LEMMA FlagSet ==
  ASSUME IInv, NEW i \in Netdevs, XmitFlag(i)
  PROVE  /\ mem = "ok" /\ Newest = tx_index /\ Newest = Slot(Oldest, Filled)
         /\ Newest' = Slot(tx_index, 1) /\ Oldest' = Oldest
         /\ Filled < dma_cpu_bufs /\ Filled' = Filled + 1
<1>0. Types /\ Life /\ Users /\ Sending /\ RingAgrees
  BY DEF IInv
<1>1. mem = "ok"
  BY <1>0 DEF Users, Life, XmitFlag, Closing
<1>2. lock = i /\ flags[tx_index] = 0
  BY <1>0 DEF Sending, XmitFlag
<1>3. Newest = tx_index
  BY <1>0, <1>2 DEF Newest, Sending, XmitFlag
<1>4. Newest' = Slot(tx_index, 1)
  BY <1>0, ContextFacts DEF Newest, XmitFlag, Goto, Types, Slot
<1>5. Oldest' = Oldest
  BY <1>0, ContextFacts DEF Oldest, XmitFlag, Goto, Types, Slot
<1>6. Newest = Slot(Oldest, Filled)
  BY <1>0, <1>1 DEF RingAgrees
<1>7. Filled < dma_cpu_bufs
  <2>1. SUFFICES ASSUME Filled = dma_cpu_bufs PROVE FALSE
    BY <1>1, RingFacts
  <2>2. Slot(Oldest, 0) = Oldest /\ Slot(Oldest, Filled) = Oldest
    BY <1>1, <2>1, RingFacts, SlotTurn
  <2>3. 0 \in 0 .. dma_cpu_bufs - 1 /\ 0 < Filled
    BY <1>1, <2>1, RingFacts
  <2>4. flags[Slot(Oldest, 0)] = 1
    BY <1>0, <1>1, <2>3 DEF RingAgrees
  <2> QED BY <1>2, <1>3, <1>6, <2>2, <2>4
<1>8. Filled' = Filled + 1
  BY <1>0, <1>2, FilledUp DEF Types, XmitFlag
<1> QED BY <1>1, <1>3, <1>4, <1>5, <1>6, <1>7, <1>8

(* The poll marks its buffer as empty: the ring loses its oldest frame.    *)
LEMMA FlagCleared ==
  ASSUME IInv, PollClear
  PROVE  /\ mem = "ok" /\ Oldest = rx_index /\ Oldest' = Slot(rx_index, 1)
         /\ Newest' = Newest /\ Filled > 0 /\ Filled' = Filled - 1
<1>0. Types /\ Life /\ Users /\ Receiving /\ RingAgrees
  BY DEF IInv
<1>1. mem = "ok"
  BY <1>0 DEF Users, Life, PollClear, InPoll, Loading
<1>2. flags[rx_index] = 1
  BY <1>0 DEF Receiving, PollClear
<1>3. Oldest = rx_index
  BY DEF Oldest, PollClear
<1>4. Oldest' = Slot(rx_index, 1)
  BY <1>0, ContextFacts DEF Oldest, PollClear, Goto, Types, Slot
<1>5. Newest' = Newest
  BY <1>0, ContextFacts DEF Newest, PollClear, Goto, Types, Slot
<1>6. Filled > 0
  <2>1. Slot(Oldest, 0) = Oldest /\ 0 \in 0 .. dma_cpu_bufs - 1
    BY <1>1, RingFacts, SlotTurn
  <2> QED BY <1>0, <1>1, <1>2, <1>3, <2>1 DEF RingAgrees
<1>7. Filled' = Filled - 1
  BY <1>0, <1>2, FilledDown DEF Types, PollClear
<1> QED BY <1>1, <1>3, <1>4, <1>5, <1>6, <1>7

(* The two sides keep agreeing on what is full. *)
LEMMA RingStep == IInv /\ [Next]_vars => RingAgrees'
<1> SUFFICES ASSUME IInv, [Next]_vars, mem' = "ok" PROVE RingAgrees'
  BY DEF RingAgrees
<1>0. Types /\ Life /\ Users /\ Sending /\ Receiving /\ RingAgrees
  BY DEF IInv
<1>1. CASE phase = "init"
  <2>1. GhostEnabled
    <3>1. mem = "none" /\ \A i \in Netdevs : pc[i] = "idle"
      BY <1>0, <1>1 DEF Life, Users, Loading
    <3>2. pc[Poll] \notin InPoll
      BY <1>0, <1>1 DEF Users
    <3> QED BY <1>1, <3>1, <3>2 DEF Next, enable_ghosting, GhostTryLess,
       GhostNoMemory, ExitNapi, nf10_eth_driver_exit, ExitNapiWait,
       ExitDelTimer, ExitGenl, ExitUnregister, GhostDelTimer, GhostFree,
       XmitEnter, nf10_ghost_xmit, XmitFull, XmitCopy, XmitFlag, XmitFinish,
       TimerExpires, rx_poll_timer_cb, TimerCheck, TimerSchedules,
       TimerRearms, PollStart, nf10_napi_struct_poll, PollLoop, PollTake,
       PollClear, PollNext, PollComplete, PollRearms, PollMore,
       NapiCommand, genl_cmd_napi_enable, genl_cmd_napi_disable, vars,
       lifeVars
  <2>2. /\ \A i \in Slots : flags[i] = 0
        /\ tx_index = 0 /\ rx_index = 0
        /\ \A i \in Netdevs : pc[i] = "idle"
        /\ pc[Poll] # "next"
    BY <1>0, <1>1 DEF Life, Users, Loading, InPoll
  <2>3. /\ UNCHANGED <<flags, tx_index, rx_index, dma_cpu_bufs, pc>>
        /\ dma_cpu_bufs \in Nat /\ dma_cpu_bufs > 0
        /\ dma_cpu_bufs <= DMA_CPU_BUFS
    BY <1>0, <2>1, GhostAssumption DEF GhostEnabled, ringVars, Types
  <2>4. Filled' = 0
    <3>1. Filled = 0
      BY <2>2, FilledNone
    <3> QED BY <2>3, <3>1 DEF Filled
  <2>5. Oldest' = 0 /\ Newest' = 0
    BY <2>2, <2>3 DEF Oldest, Newest
  <2>6. Slot(0, 0)' = 0
    BY <2>3 DEF Slot
  <2>7. ASSUME NEW k \in 0 .. dma_cpu_bufs - 1
        PROVE  flags'[Slot(0, k)'] = 0
    <3>1. k \in Slots /\ k \in Int /\ 0 <= k /\ k < dma_cpu_bufs
      BY <2>3, GhostAssumption DEF Slots
    <3>2. (0 + k) % dma_cpu_bufs = k
      BY <2>3, <3>1
    <3>3. Slot(0, k)' = k
      BY <2>3, <3>2 DEF Slot
    <3> QED BY <2>2, <2>3, <3>1, <3>3
  <2>8. (\A k \in 0 .. dma_cpu_bufs - 1 :
           flags[Slot(Oldest, k)] = 1 <=> k < Filled)'
    <3>1. ASSUME NEW k \in 0 .. dma_cpu_bufs - 1
          PROVE  flags'[Slot(Oldest, k)'] = 0 /\ ~(k < 0)
      BY <2>3, <2>5, <2>7 DEF Slot
    <3> QED BY <2>3, <2>4, <3>1
  <2> QED BY <2>3, <2>4, <2>5, <2>6, <2>8 DEF RingAgrees, Slot
<1>2. CASE phase # "init" /\ RingStill
  <2>1. mem = "ok"
    BY <1>0, <1>2 DEF Next, enable_ghosting, GhostTryLess,
       GhostNoMemory, GhostEnabled, ExitNapi, nf10_eth_driver_exit,
       ExitNapiWait, ExitDelTimer, ExitGenl, ExitUnregister, GhostDelTimer,
       GhostFree, XmitEnter, nf10_ghost_xmit, XmitFull, XmitCopy, XmitFlag,
       XmitFinish,
       TimerExpires, rx_poll_timer_cb, TimerCheck, TimerSchedules,
       TimerRearms, PollStart, nf10_napi_struct_poll, PollLoop, PollTake,
       PollClear, PollNext, PollComplete, PollRearms, PollMore,
       NapiCommand, genl_cmd_napi_enable, genl_cmd_napi_disable, vars,
       lifeVars
  <2>2. RingAgrees
    BY <1>0
  <2> QED BY <1>2, <2>1, <2>2, StillEnds DEF RingAgrees, RingStill
<1>3. ASSUME NEW i \in Netdevs, XmitFlag(i) PROVE RingAgrees'
  <2>1. /\ dma_cpu_bufs' = dma_cpu_bufs
        /\ flags' = [flags EXCEPT ![tx_index] = 1]
        /\ \A j, k : Slot(j, k)' = Slot(j, k)
    BY <1>3 DEF XmitFlag, Slot
  <2>2. /\ mem = "ok" /\ Newest = tx_index /\ Newest = Slot(Oldest, Filled)
        /\ Newest' = Slot(tx_index, 1) /\ Oldest' = Oldest
        /\ Filled < dma_cpu_bufs /\ Filled' = Filled + 1
    BY <1>3, FlagSet
  <2> DEFINE n == dma_cpu_bufs
  <2>3. n \in Nat /\ n > 0 /\ Oldest \in 0 .. n - 1 /\ Filled \in 0 .. n - 1
        /\ 0 .. n - 1 \subseteq Slots
    BY <2>2, RingFacts
  <2>4. Newest' = Slot(Oldest, Filled')
    <3>1. Slot(Slot(Oldest, Filled), 1) = Slot(Oldest, Filled + 1)
      BY <2>3, SlotShift
    <3> QED BY Zenon, <2>2, <3>1
  <2>5. ASSUME NEW k \in 0 .. n - 1
        PROVE  flags'[Slot(Oldest, k)] = 1 <=> k < Filled'
    <3>1. Slot(Oldest, k) \in Slots
      BY <2>3, SlotType
    <3>2. CASE k = Filled
      BY <1>0, <2>1, <2>2, <2>3, <3>1, <3>2 DEF Types
    <3>3. CASE k # Filled
      <4>1. Slot(Oldest, k) # tx_index
        BY <2>2, <2>3, <3>3, SlotInjective
      <4>2. flags'[Slot(Oldest, k)] = flags[Slot(Oldest, k)]
        BY <1>0, <2>1, <3>1, <4>1 DEF Types
      <4>3. flags[Slot(Oldest, k)] = 1 <=> k < Filled
        BY <1>0, <2>2 DEF RingAgrees
      <4> QED BY <2>2, <2>3, <3>3, <4>2, <4>3
    <3> QED BY <3>2, <3>3
  <2>6. Filled' <= n
    BY <2>2, <2>3
  <2> QED BY <2>1, <2>2, <2>4, <2>5, <2>6 DEF RingAgrees
<1>4. ASSUME NEW i \in Netdevs, XmitFinish(i) PROVE RingAgrees'
  <2>0. mem = "ok"
    BY <1>0, <1>4 DEF Users, Life, XmitFinish, Closing
  <2>1. /\ UNCHANGED <<dma_cpu_bufs, flags, rx_index>>
        /\ tx_index' = Slot(tx_index, 1)
        /\ \A j, k : Slot(j, k)' = Slot(j, k)
    BY <1>4, <2>0, RingFacts, SlotTurn DEF XmitFinish, Slot
  <2>2. Newest = Slot(tx_index, 1)
    BY <1>4 DEF Newest, XmitFinish
  <2>3. \A j \in Netdevs : pc'[j] # "advance"
    BY <1>0, <1>4, ContextFacts DEF Sending, XmitFinish, Goto, Types
  <2>4. Newest' = Newest
    BY <2>1, <2>2, <2>3 DEF Newest
  <2>5. Oldest' = Oldest
    BY <1>0, <1>4, <2>1, ContextFacts DEF Oldest, XmitFinish, Goto, Types
  <2>6. Filled' = Filled
    BY <2>1 DEF Filled
  <2> QED BY <1>0, <2>0, <2>1, <2>4, <2>5, <2>6 DEF RingAgrees
<1>5. CASE PollClear
  <2>1. /\ dma_cpu_bufs' = dma_cpu_bufs
        /\ flags' = [flags EXCEPT ![rx_index] = 0]
        /\ \A j, k : Slot(j, k)' = Slot(j, k)
    BY <1>5 DEF PollClear, Slot
  <2>2. /\ mem = "ok" /\ Oldest = rx_index /\ Oldest' = Slot(rx_index, 1)
        /\ Newest' = Newest /\ Filled > 0 /\ Filled' = Filled - 1
    BY <1>5, FlagCleared
  <2> DEFINE n == dma_cpu_bufs
  <2>3. n \in Nat /\ n > 0 /\ Oldest \in 0 .. n - 1 /\ Filled \in 1 .. n
        /\ 0 .. n - 1 \subseteq Slots
    BY <2>2, RingFacts
  <2>4. Newest' = Slot(Oldest', Filled')
    <3>1. Newest = Slot(Oldest, Filled)
      BY <1>0, <2>2 DEF RingAgrees
    <3>2. Filled' \in 0 .. n - 1 /\ Filled' + 1 = Filled
      BY <2>2, <2>3
    <3>3. Slot(Slot(Oldest, 1), Filled') = Slot(Oldest, Filled' + 1)
      BY <2>3, <3>2, SlotShift
    <3> QED BY <2>2, <3>1, <3>2, <3>3
  <2>5. ASSUME NEW k \in 0 .. n - 1
        PROVE  flags'[Slot(Oldest', k)] = 1 <=> k < Filled'
    <3>1. Slot(Oldest', k) = Slot(Oldest, k + 1)
      BY <2>2, <2>3, SlotShift
    <3>2. CASE k = n - 1
      <4>1. Slot(Oldest', k) = rx_index
        BY <2>2, <2>3, <3>1, <3>2, SlotTurn
      <4>2. flags'[rx_index] = 0
        BY <1>0, <2>1 DEF Types
      <4> QED BY <2>2, <2>3, <3>2, <4>1, <4>2
    <3>3. CASE k # n - 1
      <4>1. k + 1 \in 0 .. n - 1 /\ 0 \in 0 .. n - 1 /\ k + 1 # 0
        BY <2>3, <3>3
      <4>2. Slot(Oldest, k + 1) # rx_index
        BY <2>2, <2>3, <4>1, SlotInjective, SlotTurn
      <4>3. Slot(Oldest, k + 1) \in Slots
        BY <2>3, <4>1, SlotType
      <4>4. flags'[Slot(Oldest', k)] = flags[Slot(Oldest, k + 1)]
        BY <1>0, <2>1, <3>1, <4>2, <4>3 DEF Types
      <4>5. flags[Slot(Oldest, k + 1)] = 1 <=> k + 1 < Filled
        BY <1>0, <2>2, <4>1 DEF RingAgrees
      <4> QED BY <2>2, <2>3, <4>4, <4>5
    <3> QED BY <3>2, <3>3
  <2>6. Filled' <= n
    BY <2>2, <2>3
  <2> QED BY <2>1, <2>2, <2>4, <2>5, <2>6 DEF RingAgrees
<1>6. CASE PollNext
  <2>0. mem = "ok"
    BY <1>0, <1>6 DEF Users, Life, PollNext, InPoll, Loading
  <2>1. /\ UNCHANGED <<dma_cpu_bufs, flags, tx_index>>
        /\ rx_index' = Slot(rx_index, 1)
        /\ \A j, k : Slot(j, k)' = Slot(j, k)
    BY <1>6, <2>0, RingFacts, SlotTurn DEF PollNext, Slot
  <2>2. Oldest' = Oldest
    BY <1>0, <1>6, <2>1, ContextFacts DEF Oldest, PollNext, Goto, Types
  <2>3. Newest' = Newest
    BY <1>0, <1>6, <2>1, ContextFacts DEF Newest, PollNext, Goto, Types
  <2>4. Filled' = Filled
    BY <2>1 DEF Filled
  <2> QED BY <1>0, <2>0, <2>1, <2>2, <2>3, <2>4 DEF RingAgrees
<1> QED BY <1>1, <1>2, <1>3, <1>4, <1>5, <1>6, StillSteps

-----------------------------------------------------------------------------
(* The invariant holds in every behaviour. *)
THEOREM IInvHolds == Spec => []IInv
<1>1. IInv /\ [Next]_vars => IInv'
  BY FlagStep, TypesStep, LifeStep, UsersStep, DriverStep, SendingStep,
     ReceivingStep, RingStep DEF IInv
<1> QED BY <1>1, InitIInv, PTL DEF Spec

(* A good frame is a frame. *)
LEMMA GoodIsFrame == GoodFrames \subseteq Frames
<1>1. \A i \in Netdevs : rx_set_dst_iface(i) \in 0 .. 255
  BY GhostAssumption DEF rx_set_dst_iface, OPCODE_CPU
<1>2. {rx_set_dst_iface(i) : i \in Netdevs} \subseteq 0 .. 255
  BY <1>1
<1> DEFINE S == {rx_set_dst_iface(i) : i \in Netdevs}
<1> HIDE DEF S
<1>3. ASSUME S \subseteq 0 .. 255
      PROVE  {f \in [opCode : S, proto : {"ip", "other"}, flipped : BOOLEAN]
                : f.flipped = (f.proto = "ip")} \subseteq Frames
  BY <1>3, Zenon DEF Frames
<1> QED BY <1>2, <1>3 DEF GoodFrames, S

(* The ring that the two streams share is sound, although the poll takes   *)
(* no lock.                                                                *)
THEOREM SharedRingIsSound == Spec => []RingSound
<1>1. ASSUME IInv PROVE RingSound
  <2>0. Types /\ Flag /\ Life /\ RingAgrees
    BY <1>1 DEF IInv
  <2>1. Held \subseteq Frames \cup {NoFrame}
    BY GoodIsFrame DEF Held
  <2>2. /\ \A i \in Slots : frames[i] \in Frames \cup {NoFrame}
        /\ \A i \in Netdevs : tx_skb[i] \in Frames \cup {NoFrame}
        /\ skb.frame \in Frames \cup {NoFrame}
        /\ skb.fate \in {"none", "bad", "nomem", "deliver"}
    BY <2>0, <2>1 DEF Types
  <2>3. /\ mem \in {"none", "ok", "freed"}
        /\ mem = "ok" => /\ dma_cpu_bufs >= MIN_DMA_CPU_BUFS
                         /\ tx_index < dma_cpu_bufs
                         /\ rx_index < dma_cpu_bufs
    BY <2>0 DEF Life
  <2>4. /\ phase \in {"init", "failed", "running", "napi", "del_timer",
                      "genl", "unregister", "disable", "free", "unloaded"}
        /\ up \subseteq Netdevs
        /\ dma_cpu_bufs \in 0 .. DMA_CPU_BUFS
        /\ flags \in [Slots -> {0, 1}]
        /\ tx_index \in Slots /\ rx_index \in Slots
        /\ lock \in Netdevs \cup {Nobody}
        /\ \A i \in Netdevs : pc[i] \in {"idle", "lock", "flag", "advance"}
        /\ pc[Timer] \in {"idle", "check", "schedule", "rearm", "oops"}
        /\ pc[Poll] \in {"idle", "loop", "take", "clear", "next", "end",
                         "rearm"}
        /\ timer \in {"idle", "pending", "stopped"}
        /\ n_rx \in 0 .. Budget
        /\ \A s \in {tx_packets, rx_packets, rx_dropped} :
             s \in [Netdevs -> 0 .. StatMod - 1]
    BY <2>0 DEF Types, Stats
  <2>5. TypeOK
    BY Zenon, <2>0, <2>2, <2>3, <2>4 DEF TypeOK, Flag
  <2> QED BY <2>0, <2>5 DEF RingSound
<1> QED BY <1>1, IInvHolds, PTL

(* The ring is freed when no sender and no poll is using it, and no        *)
(* interface is freed under the poll.                                      *)
THEOREM RingOutlives == Spec => []RingOutlivesUsers
<1>1. ASSUME IInv PROVE RingOutlivesUsers
  <2>1. ASSUME NEW i \in Netdevs, pc[i] # "idle" PROVE mem = "ok" /\ i \in up
    BY <1>1, <2>1 DEF IInv, Users, Life, Loading, Closing
  <2>2. ASSUME pc[Poll] \in InPoll PROVE mem = "ok" /\ up = Netdevs
    BY <1>1, <2>2 DEF IInv, Users, Life, Loading, Closing
  <2> QED BY <2>1, <2>2 DEF RingOutlivesUsers, InPoll
<1> QED BY <1>1, IInvHolds, PTL

(* Polling has one driver at a time, and has one while the module runs.    *)
THEOREM SingleDriver == Spec => []OneDriver
<1>1. IInv => OneDriver
  BY DEF IInv, Driver
<1> QED BY <1>1, IInvHolds, PTL

-----------------------------------------------------------------------------
(* The refinement of PacketFifo. *)

(* The queue is a sequence of what buffers can hold. *)
LEMMA QueueType ==
  ASSUME IInv, mem = "ok"
  PROVE  Queue \in Seq(Held) /\ Len(Queue) = Filled
<1>1. Filled \in Nat
  BY FilledType
<1>2. ASSUME NEW k \in 1 .. Filled PROVE frames[Slot(Oldest, k - 1)] \in Held
  <2>1. k - 1 \in 0 .. dma_cpu_bufs
    BY <1>1, RingFacts
  <2>2. Slot(Oldest, k - 1) \in Slots
    BY <2>1, RingFacts, SlotType
  <2> QED BY <2>2 DEF IInv, Types
<1> QED BY <1>1, <1>2 DEF Queue

(* The buffers of the queue, and a buffer that is not in it. *)
LEMMA FullBuffers ==
  ASSUME IInv, mem = "ok", NEW k \in 1 .. Filled
  PROVE  /\ Slot(Oldest, k - 1) \in Slots
         /\ flags[Slot(Oldest, k - 1)] = 1
<1>1. k - 1 \in 0 .. dma_cpu_bufs - 1 /\ k - 1 < Filled
  BY RingFacts
<1>2. flags[Slot(Oldest, k - 1)] = 1
  BY <1>1 DEF IInv, RingAgrees
<1>3. Slot(Oldest, k - 1) \in Slots
  BY <1>1, RingFacts, SlotType
<1> QED BY <1>2, <1>3

(* Frames of full buffers stay: only the sender that holds the lock writes *)
(* to a buffer, an empty one.                                              *)
LEMMA QueueKept ==
  ASSUME IInv, RingStill, mem = "ok",
         \/ UNCHANGED frames
         \/ \E i \in Netdevs : XmitCopy(i)
  PROVE  Queue' = Queue
<1>1. Oldest' = Oldest /\ Filled' = Filled
      /\ \A i, k : Slot(i, k)' = Slot(i, k)
  BY StillEnds
<1>2. ASSUME NEW k \in 1 .. Filled
      PROVE  frames'[Slot(Oldest, k - 1)] = frames[Slot(Oldest, k - 1)]
  <2>1. CASE UNCHANGED frames
    BY <2>1
  <2>2. ASSUME NEW i \in Netdevs, XmitCopy(i)
        PROVE  frames'[Slot(Oldest, k - 1)] = frames[Slot(Oldest, k - 1)]
    <3>1. Slot(Oldest, k - 1) # tx_index /\ Slot(Oldest, k - 1) \in Slots
      BY <2>2, FullBuffers DEF XmitCopy
    <3>2. frames' = [frames EXCEPT ![tx_index] = tx_skb[i]]
      BY <2>2 DEF XmitCopy
    <3> QED BY <3>1, <3>2 DEF IInv, Types
  <2> QED BY <2>1, <2>2
<1> QED BY <1>1, <1>2 DEF Queue

(* Who changes the flags and the buffers. *)
LEMMA WhoWrites ==
  ASSUME [Next]_vars
  PROVE  /\ \/ UNCHANGED flags \/ PollClear
            \/ \E i \in Netdevs : XmitFlag(i)
         /\ \/ UNCHANGED frames \/ PollClear
            \/ \E i \in Netdevs : XmitCopy(i)
BY DEF Next, enable_ghosting, GhostTryLess, GhostNoMemory, GhostEnabled,
   ExitNapi, nf10_eth_driver_exit, ExitNapiWait, ExitDelTimer, ExitGenl,
   ExitUnregister, GhostDelTimer, GhostFree, XmitEnter, nf10_ghost_xmit,
   XmitFull, XmitFinish, TimerExpires, rx_poll_timer_cb, TimerCheck,
   TimerSchedules, TimerRearms, PollStart, nf10_napi_struct_poll, PollLoop,
   PollTake, PollNext, PollComplete, PollRearms, PollMore, NapiCommand,
   genl_cmd_napi_enable, genl_cmd_napi_disable, vars, ringVars, XmitFlag,
   XmitCopy

(* A sender and a poll at work have the ring. *)
LEMMA WorkersHaveRing ==
  ASSUME IInv,
         \/ \E i \in Netdevs : pc[i] # "idle"
         \/ pc[Poll] \in InPoll
  PROVE  mem = "ok"
BY DEF IInv, Users, Life, Loading, Closing

(* Without a ring nothing enters or leaves. *)
LEMMA NoRingNoStep ==
  ASSUME IInv, [Next]_vars, mem # "ok" PROVE Queue' = Queue
<1>0. Types /\ Life
  BY DEF IInv
<1>1. /\ ~PollClear /\ ~PollNext
      /\ \A i \in Netdevs : ~XmitFlag(i) /\ ~XmitFinish(i) /\ ~XmitCopy(i)
  BY WorkersHaveRing DEF PollClear, PollNext, InPoll, XmitFlag, XmitFinish,
     XmitCopy
<1>2. UNCHANGED <<flags, frames>>
  BY <1>1, WhoWrites
<1>3. Filled' = Filled
  BY <1>2 DEF Filled
<1>4. CASE phase \in Loading
  <2>1. Filled = 0
    BY <1>0, <1>4, FilledNone DEF Life
  <2> QED BY <1>3, <2>1 DEF Queue
<1>5. CASE phase \notin Loading
  <2>1. RingStill
    BY <1>1, <1>5, StillSteps DEF Loading
  <2> QED BY <1>2, <2>1, StillEnds DEF Queue
<1> QED BY <1>4, <1>5

(* The sender hands over the frame it has in hand. *)
LEMMA FlagPuts ==
  ASSUME IInv, NEW i \in Netdevs, XmitFlag(i)
  PROVE  Queue' = Append(Queue, tx_skb[i]) /\ tx_skb[i] \in GoodFrames
<1>1. /\ mem = "ok" /\ Newest = tx_index /\ Newest = Slot(Oldest, Filled)
      /\ Oldest' = Oldest /\ Filled < dma_cpu_bufs /\ Filled' = Filled + 1
  BY FlagSet
<1>2. /\ UNCHANGED frames /\ frames[tx_index] = tx_skb[i]
      /\ tx_skb[i] \in GoodFrames
      /\ \A j, k : Slot(j, k)' = Slot(j, k)
  BY DEF IInv, Sending, XmitFlag, Slot
<1> DEFINE F == Filled
           Q == Queue
           R == Append(Q, tx_skb[i])
<1>3. Q \in Seq(Held) /\ Len(Q) = F /\ F \in Nat
  BY <1>1, QueueType, FilledType
<1>4. \A k \in 1 .. F : Q[k] = frames[Slot(Oldest, k - 1)]
  BY DEF Queue
<1>5. Queue' = [k \in 1 .. F + 1 |-> frames[Slot(Oldest, k - 1)]]
  BY <1>1, <1>2 DEF Queue
<1>6. frames[Slot(Oldest, (F + 1) - 1)] = tx_skb[i]
  <2>1. (F + 1) - 1 = F
    BY <1>3
  <2> QED BY <1>1, <1>2, <2>1
<1> HIDE DEF Q, F
<1>7. tx_skb[i] \in Held
  BY <1>2 DEF Held
<1>8. R \in Seq(Held) /\ Len(R) = F + 1 /\ R[F + 1] = tx_skb[i]
      /\ \A k \in 1 .. F : R[k] = Q[k]
  BY <1>3, <1>7, AppendProperties
<1> HIDE DEF R
<1>9. ASSUME NEW k \in 1 .. F + 1
      PROVE  R[k] = frames[Slot(Oldest, k - 1)]
  <2>1. CASE k = F + 1
    BY <1>6, <1>8, <2>1
  <2>2. CASE k # F + 1
    <3>1. k \in 1 .. F
      BY <1>3, <2>2
    <3> QED BY <1>4, <1>8, <3>1
  <2> QED BY <2>1, <2>2
<1>10. R = [k \in 1 .. F + 1 |-> R[k]]
  BY <1>3, <1>8
<1>11. R = [k \in 1 .. F + 1 |-> frames[Slot(Oldest, k - 1)]]
  BY <1>9, <1>10
<1> QED BY <1>2, <1>5, <1>11 DEF R, Q

(* The poll takes the oldest frame out. *)
LEMMA ClearGets ==
  ASSUME IInv, PollClear
  PROVE  Queue # << >> /\ Queue' = Tail(Queue)
<1>1. /\ mem = "ok" /\ Oldest = rx_index /\ Oldest' = Slot(rx_index, 1)
      /\ Filled > 0 /\ Filled' = Filled - 1
  BY FlagCleared
<1> DEFINE F == Filled
           n == dma_cpu_bufs
           Q == Queue
           R == Tail(Q)
<1>2. Q \in Seq(Held) /\ Len(Q) = F /\ F \in 1 .. n /\ n \in Nat
      /\ Oldest \in 0 .. n - 1 /\ n > 0
  BY <1>1, QueueType, RingFacts
<1>3. \A j, k : Slot(j, k)' = Slot(j, k)
  BY DEF PollClear, Slot
<1>4. \A k \in 1 .. F : Q[k] = frames[Slot(Oldest, k - 1)]
  BY DEF Queue
<1>5. Queue' = [k \in 1 .. F - 1 |-> frames'[Slot(Slot(Oldest, 1), k - 1)]]
  BY <1>1, <1>3 DEF Queue
<1>6. ASSUME NEW k \in 1 .. F - 1
      PROVE  frames'[Slot(Slot(Oldest, 1), k - 1)] = frames[Slot(Oldest, k)]
  <2>1. k - 1 \in 0 .. n - 1 /\ (k - 1) + 1 = k /\ k \in 0 .. n - 1
        /\ 0 \in 0 .. n - 1 /\ k # 0
    BY <1>2
  <2>2. Slot(Slot(Oldest, 1), k - 1) = Slot(Oldest, k)
    BY <1>2, <2>1, SlotShift
  <2>3. Slot(Oldest, k) # Oldest
    BY <1>2, <2>1, SlotInjective, SlotTurn
  <2>4. Slot(Oldest, k) \in Slots
    <3>1. k \in 0 .. n /\ 0 .. n - 1 \subseteq Slots
      BY <1>1, <1>2, <2>1, RingFacts
    <3>2. Slot(Oldest, k) \in 0 .. n - 1
      BY <1>2, <3>1, SlotType
    <3> QED BY <3>1, <3>2
  <2>5. frames' = [frames EXCEPT ![rx_index] = NoFrame]
    BY DEF PollClear
  <2> QED BY <1>1, <2>2, <2>3, <2>4, <2>5 DEF IInv, Types
<1> HIDE DEF Q, F
<1>7. Q # << >>
  BY <1>2, EmptySeq
<1>8. R \in Seq(Held) /\ Len(R) = F - 1
      /\ \A k \in 1 .. F - 1 : R[k] = Q[k + 1]
  BY <1>2, <1>7, HeadTailProperties
<1> HIDE DEF R
<1>9. ASSUME NEW k \in 1 .. F - 1
      PROVE  R[k] = frames'[Slot(Slot(Oldest, 1), k - 1)]
  <2>1. k + 1 \in 1 .. F /\ (k + 1) - 1 = k
    BY <1>2
  <2>2. R[k] = Q[k + 1] /\ Q[k + 1] = frames[Slot(Oldest, (k + 1) - 1)]
    BY <1>4, <1>8, <2>1
  <2> QED BY <1>6, <2>1, <2>2
<1>10. R = [k \in 1 .. F - 1 |-> R[k]]
  BY <1>2, <1>8
<1>11. R = [k \in 1 .. F - 1 |-> frames'[Slot(Slot(Oldest, 1), k - 1)]]
  BY <1>9, <1>10
<1> QED BY <1>5, <1>7, <1>11 DEF R, Q

(* Only the sender's flag and the poll's change the queue. *)
LEMMA QueueSteps ==
  ASSUME IInv, [Next]_vars
  PROVE  Queue' = Queue \/ PollClear \/ \E i \in Netdevs : XmitFlag(i)
<1>0. Types /\ Life /\ Users
  BY DEF IInv
<1>1. CASE mem # "ok"
  BY <1>1, NoRingNoStep
<1>2. CASE mem = "ok" /\ RingStill
  <2>1. ~PollClear
    BY <1>0, <1>2, ContextFacts DEF PollClear, RingStill, Goto, Types
  <2> QED BY <1>2, <2>1, WhoWrites, QueueKept
<1>5. ASSUME NEW i \in Netdevs, XmitFinish(i) PROVE Queue' = Queue
  <2>1. /\ UNCHANGED <<dma_cpu_bufs, flags, frames, rx_index>>
        /\ pc'[Poll] = pc[Poll]
    BY <1>0, <1>5, ContextFacts DEF XmitFinish, Goto, Types
  <2>2. Oldest' = Oldest /\ \A j, k : Slot(j, k)' = Slot(j, k)
    BY <2>1 DEF Oldest, Slot
  <2>3. Filled' = Filled
    BY <2>1 DEF Filled
  <2> QED BY <2>1, <2>2, <2>3 DEF Queue
<1>6. CASE mem = "ok" /\ PollNext
  <2>1. /\ UNCHANGED <<dma_cpu_bufs, flags, frames>>
        /\ rx_index' = Slot(rx_index, 1)
        /\ \A j, k : Slot(j, k)' = Slot(j, k)
    BY <1>6, RingFacts, SlotTurn DEF PollNext, Slot
  <2>2. Oldest' = Oldest
    BY <1>0, <1>6, <2>1, ContextFacts DEF Oldest, PollNext, Goto, Types
  <2>3. Filled' = Filled
    BY <2>1 DEF Filled
  <2> QED BY <2>1, <2>2, <2>3 DEF Queue
<1>7. phase = "init" => mem # "ok"
  BY <1>0 DEF Life, Loading
<1> QED BY <1>1, <1>2, <1>5, <1>6, <1>7, StillSteps

(* Every step is a step of the FIFO, or leaves it alone. *)
LEMMA FifoStep == IInv /\ [Next]_vars => [Fifo!Next]_Queue
<1> SUFFICES ASSUME IInv, [Next]_vars
             PROVE  Queue' = Queue \/ Fifo!Put \/ Fifo!Get
  BY DEF Fifo!Next
<1>3. ASSUME NEW i \in Netdevs, XmitFlag(i) PROVE Fifo!Put
  <2>1. Queue' = Append(Queue, tx_skb[i]) /\ tx_skb[i] \in GoodFrames
    BY <1>3, FlagPuts
  <2>2. mem = "ok" /\ Filled < dma_cpu_bufs
    BY <1>3, FlagSet
  <2>3. Len(Queue) = Filled /\ Filled \in Nat /\ dma_cpu_bufs \in Nat
        /\ dma_cpu_bufs <= DMA_CPU_BUFS /\ DMA_CPU_BUFS \in Nat
    BY <2>2, QueueType, RingFacts, FilledType, GhostAssumption
  <2>4. Len(Queue) < DMA_CPU_BUFS
    BY <2>2, <2>3
  <2> QED BY <2>1, <2>4 DEF Fifo!Put
<1>4. CASE PollClear
  BY <1>4, ClearGets DEF Fifo!Get
<1> QED BY <1>3, <1>4, QueueSteps

(* The ring is a FIFO of well-formed frames: none is lost, duplicated,     *)
(* reordered or overwritten, whatever its size.                            *)
THEOREM Refinement == Spec => RingIsFifo
<1>1. Init => Fifo!Init
  <2> SUFFICES ASSUME Init PROVE Queue = << >>
    BY DEF Fifo!Init
  <2>1. Filled = 0
    BY FilledNone DEF Init
  <2> QED BY <2>1 DEF Queue
<1> QED BY <1>1, IInvHolds, FifoStep, PTL DEF Spec, RingIsFifo, Fifo!Spec

-----------------------------------------------------------------------------
(* The account of each pair of interfaces. *)

(* The opcode that names an interface is read back as that interface.      *)
LEMMA DstOfCpu ==
  ASSUME NEW j \in 0 .. 3
  PROVE  rx_get_dst_iface(OPCODE_CPU(j)) = j
<1> DEFINE named == {i \in 0 .. 3 :
                       (OPCODE_CPU(j) \div OPCODE_CPU(i)) % 2 = 1}
<1>1. named = {j}
  <2>1. CASE j = 0
    BY <2>1 DEF OPCODE_CPU
  <2>2. CASE j = 1
    BY <2>2 DEF OPCODE_CPU
  <2>3. CASE j = 2
    BY <2>3 DEF OPCODE_CPU
  <2>4. CASE j = 3
    BY <2>4 DEF OPCODE_CPU
  <2> QED BY <2>1, <2>2, <2>3, <2>4
<1> HIDE DEF named
<1>2. (CHOOSE i \in named : \A k \in named : i <= k) = j
  BY <1>1
<1>3. rx_get_dst_iface(OPCODE_CPU(j))
        = IF named = {} THEN -1
          ELSE CHOOSE i \in named : \A k \in named : i <= k
  BY DEF rx_get_dst_iface, named
<1> QED BY <1>1, <1>2, <1>3

(* i ^ 1 is the other interface of the pair, and no two share a partner.   *)
LEMMA PartnerFacts ==
  ASSUME NEW i \in Netdevs
  PROVE  /\ Partner(i) \in Netdevs /\ Partner(i) \in 0 .. 3
         /\ (CHOOSE j \in Netdevs : j # i /\ j \div 2 = i \div 2) = Partner(i)
         /\ \A j \in Netdevs : Partner(j) = Partner(i) => j = i
<1>1. /\ Partner(i) \in Netdevs /\ Netdevs \subseteq 0 .. 3
  BY GhostAssumption
<1>2. \A j \in 0 .. 3 : j # i /\ j \div 2 = i \div 2 <=> j = Partner(i)
  BY <1>1 DEF Partner
<1>3. \A j \in 0 .. 3 : Partner(j) = Partner(i) => j = i
  BY <1>1 DEF Partner
<1>4. (CHOOSE j \in Netdevs : j # i /\ j \div 2 = i \div 2) = Partner(i)
  BY <1>1, <1>2
<1> QED BY <1>1, <1>3, <1>4

(* A sender's frame is for its partner; the poll knows what it has taken.  *)
Addressed ==
  \A i \in Netdevs : pc[i] \in {"lock", "flag"} => IsFor(tx_skb[i], Partner(i))
Taken == pc[Poll] = "clear" =>
           /\ skb.frame = frames[rx_index]
           /\ skb.fate \in {"bad", "nomem", "deliver"}
           /\ skb.fate = "bad" => \A d \in Netdevs : ~IsFor(skb.frame, d)

(* Frames keep their address until they are in the ring.                   *)
LEMMA AddressedStep ==
  ASSUME IInv, Addressed, [Next]_vars PROVE Addressed'
<1>0. Types
  BY DEF IInv
<1> USE ContextFacts DEF Goto
<1>1. ASSUME NEW i \in Netdevs, XmitEnter(i) PROVE Addressed'
  <2>1. /\ pc' = [pc EXCEPT ![i] = "lock"]
        /\ tx_skb'[i].opCode = rx_set_dst_iface(Partner(i))
        /\ \A j \in Netdevs : j # i => tx_skb'[j] = tx_skb[j]
    BY <1>0, <1>1 DEF XmitEnter, Types
  <2>2. rx_get_dst_iface(tx_skb'[i].opCode) = Partner(i)
    BY <2>1, PartnerFacts, DstOfCpu DEF rx_set_dst_iface
  <2>3. \A j \in Netdevs : j # i => pc'[j] = pc[j]
    BY <1>0, <2>1 DEF Types
  <2> QED BY <2>1, <2>2, <2>3 DEF Addressed, IsFor
<1>2. ASSUME NEW i \in Netdevs, XmitFull(i) \/ XmitFinish(i) PROVE Addressed'
  <2>1. /\ pc' = [pc EXCEPT ![i] = "idle"]
        /\ \A j \in Netdevs : j # i => tx_skb'[j] = tx_skb[j]
    BY <1>0, <1>2 DEF XmitFull, XmitFinish, Types
  <2>2. pc'[i] = "idle" /\ \A j \in Netdevs : j # i => pc'[j] = pc[j]
    BY <1>0, <2>1 DEF Types
  <2> QED BY <2>1, <2>2 DEF Addressed, IsFor
<1>3. ASSUME NEW i \in Netdevs, XmitCopy(i) \/ XmitFlag(i) PROVE Addressed'
  <2>1. /\ tx_skb' = tx_skb
        /\ \A j \in Netdevs : pc'[j] \in {"lock", "flag"} =>
                                pc[j] \in {"lock", "flag"}
    BY <1>0, <1>3 DEF XmitCopy, XmitFlag, txVars, Types
  <2> QED BY <2>1 DEF Addressed, IsFor
<1>4. CASE /\ tx_skb' = tx_skb
           /\ \A j \in Netdevs : pc'[j] = pc[j]
  BY <1>4 DEF Addressed, IsFor
<1>5. CASE enable_ghosting \/ ExitNapi \/ nf10_eth_driver_exit
           \/ NapiCommand \/ UNCHANGED vars
  BY <1>4, <1>5 DEF enable_ghosting, GhostTryLess, GhostNoMemory,
     GhostEnabled, ExitNapi, nf10_eth_driver_exit, ExitNapiWait,
     ExitDelTimer, ExitGenl, ExitUnregister, GhostDelTimer, GhostFree,
       NapiCommand, genl_cmd_napi_enable, genl_cmd_napi_disable, vars, txVars
<1>6. CASE TimerExpires \/ rx_poll_timer_cb
  BY <1>0, <1>4, <1>6 DEF TimerExpires, rx_poll_timer_cb, TimerCheck,
     TimerSchedules, TimerRearms, txVars, Types
<1>7. CASE PollStart \/ nf10_napi_struct_poll
  BY <1>0, <1>4, <1>7 DEF PollStart, nf10_napi_struct_poll, PollLoop,
     PollTake, PollClear, PollNext, PollComplete, PollRearms, PollMore,
     txVars, Types
<1> QED BY <1>1, <1>2, <1>3, <1>5, <1>6, <1>7 DEF Next, nf10_ghost_xmit

(* Nobody overwrites the buffer the poll has looked at.                    *)
LEMMA TakenStep ==
  ASSUME IInv, Taken, [Next]_vars PROVE Taken'
<1>0. Types /\ Sending /\ Receiving
  BY DEF IInv
<1> USE ContextFacts DEF Goto
<1>1. CASE PollTake
  <2> DEFINE dst == rx_get_dst_iface(frames[rx_index].opCode)
  <2>1. PICK fate \in IF dst < 0 THEN {"bad"} ELSE {"nomem", "deliver"} :
          skb' = [frame |-> frames[rx_index], fate |-> fate]
    BY <1>1 DEF PollTake
  <2>2. UNCHANGED <<frames, rx_index>>
    BY <1>1 DEF PollTake, ringVars
  <2>3. dst < 0 => \A d \in Netdevs : dst # d
    BY GhostAssumption
  <2>4. skb'.frame = frames[rx_index] /\ skb'.fate = fate
    BY <2>1
  <2> HIDE DEF dst
  <2>5. /\ fate \in {"bad", "nomem", "deliver"}
        /\ fate = "bad" => dst < 0
    BY <2>1
  <2> QED BY <2>2, <2>3, <2>4, <2>5 DEF Taken, IsFor, dst
<1>2. CASE /\ pc'[Poll] = pc[Poll] \/ pc'[Poll] # "clear"
           /\ pc'[Poll] = "clear" =>
                skb' = skb /\ frames'[rx_index'] = frames[rx_index]
  BY <1>2 DEF Taken, IsFor
<1>3. ASSUME NEW i \in Netdevs, XmitCopy(i) PROVE Taken'
  <2>1. /\ pc'[Poll] = pc[Poll] /\ UNCHANGED <<skb, rx_index>>
        /\ frames' = [frames EXCEPT ![tx_index] = tx_skb[i]]
        /\ flags[tx_index] # 1
    BY <1>0, <1>3 DEF XmitCopy, rxVars, Types
  <2>2. pc[Poll] = "clear" => rx_index # tx_index
    BY <1>0, <2>1 DEF Receiving
  <2> QED BY <1>0, <1>2, <2>1, <2>2 DEF Types
<1>4. ASSUME NEW i \in Netdevs,
             XmitEnter(i) \/ XmitFull(i) \/ XmitFlag(i) \/ XmitFinish(i)
      PROVE  Taken'
  BY <1>0, <1>2, <1>4 DEF XmitEnter, XmitFull, XmitFlag, XmitFinish,
     ringVars, rxVars, Types
<1>5. CASE enable_ghosting \/ ExitNapi \/ nf10_eth_driver_exit
           \/ NapiCommand \/ UNCHANGED vars
  BY <1>2, <1>5 DEF enable_ghosting, GhostTryLess, GhostNoMemory,
     GhostEnabled, ExitNapi, nf10_eth_driver_exit, ExitNapiWait,
     ExitDelTimer, ExitGenl, ExitUnregister, GhostDelTimer, GhostFree,
       NapiCommand, genl_cmd_napi_enable, genl_cmd_napi_disable, vars,
       ringVars,
     rxVars
<1>6. CASE TimerExpires \/ rx_poll_timer_cb
  BY <1>0, <1>2, <1>6 DEF TimerExpires, rx_poll_timer_cb, TimerCheck,
     TimerSchedules, TimerRearms, ringVars, rxVars, Types
<1>7. CASE PollStart \/ PollLoop \/ PollClear \/ PollNext \/ PollComplete
           \/ PollRearms \/ PollMore
  BY <1>0, <1>2, <1>7 DEF PollStart, PollLoop, PollClear, PollNext,
     PollComplete, PollRearms, PollMore, Types
<1> QED BY <1>1, <1>3, <1>4, <1>5, <1>6, <1>7
        DEF Next, nf10_ghost_xmit, nf10_napi_struct_poll

(* The places in the queue of frames for interface d.                      *)
Waits(d) == {k \in DOMAIN Queue : IsFor(Queue[k], d)}
Owed(i) == One(pc[i] = "advance")
Early(d) == One(pc[Poll] = "clear" /\ skb.fate = "deliver"
                  /\ IsFor(skb.frame, d))
Late(d) == One(pc[Poll] = "next" /\ skb.fate = "nomem"
                 /\ IsFor(skb.frame, d))

(* What interface i has sent, and what its partner d has got.              *)
Evens(i, d) ==
  (tx_packets[i] + Owed(i) + Early(d)) % StatMod
    = (rx_packets[d] + rx_dropped[d] + Cardinality(Waits(d)) + Late(d))
        % StatMod
Balanced == \A i \in Netdevs : Evens(i, Partner(i))

(* PairAccount is that, while there is a ring.                             *)
LEMMA BalanceGives == Balanced => PairAccount
<1> SUFFICES ASSUME Balanced, NEW i \in Netdevs
             PROVE  LET d == CHOOSE j \in Netdevs :
                               j # i /\ j \div 2 = i \div 2
                        sent == tx_packets[i] + One(pc[i] = "advance")
                        waiting == Cardinality({k \in 1 .. Filled :
                                                  IsFor(Queue[k], d)})
                        early == One(pc[Poll] = "clear"
                                     /\ skb.fate = "deliver"
                                     /\ IsFor(skb.frame, d))
                        late == One(pc[Poll] = "next" /\ skb.fate = "nomem"
                                    /\ IsFor(skb.frame, d))
                    IN (sent + early) % StatMod
                         = (rx_packets[d] + rx_dropped[d] + waiting + late)
                             % StatMod
  BY Zenon DEF PairAccount
<1>1. (CHOOSE j \in Netdevs : j # i /\ j \div 2 = i \div 2) = Partner(i)
  BY PartnerFacts
<1>2. DOMAIN Queue = 1 .. Filled
  BY DEF Queue
<1> QED BY Zenon, <1>1, <1>2 DEF Balanced, Evens, Owed, Early, Late, Waits

(* The counters and the places are what they seem.                         *)
LEMMA AccountTypes ==
  ASSUME IInv, NEW i \in Netdevs, NEW d \in Netdevs
  PROVE  /\ StatMod \in Nat \ {0}
         /\ tx_packets[i] \in 0 .. StatMod - 1
         /\ rx_packets[d] \in 0 .. StatMod - 1
         /\ rx_dropped[d] \in 0 .. StatMod - 1
         /\ Filled \in Nat /\ DOMAIN Queue = 1 .. Filled
         /\ Waits(d) \in SUBSET (1 .. Filled)
         /\ Cardinality(Waits(d)) \in Nat
         /\ Owed(i) \in {0, 1} /\ Early(d) \in {0, 1} /\ Late(d) \in {0, 1}
<1>1. /\ StatMod \in Nat \ {0}
      /\ tx_packets[i] \in 0 .. StatMod - 1
      /\ rx_packets[d] \in 0 .. StatMod - 1
      /\ rx_dropped[d] \in 0 .. StatMod - 1
  BY GhostAssumption DEF IInv, Types, Stats
<1>2. Filled \in Nat /\ DOMAIN Queue = 1 .. Filled
  BY FilledType DEF Queue
<1>3. Waits(d) \in SUBSET (1 .. Filled)
  BY <1>2 DEF Waits
<1>4. Cardinality(Waits(d)) \in Nat
  BY <1>2, <1>3, Positions
<1>5. Owed(i) \in {0, 1} /\ Early(d) \in {0, 1} /\ Late(d) \in {0, 1}
  BY DEF Owed, Early, Late, One
<1> QED BY <1>1, <1>2, <1>3, <1>4, <1>5

(* A sender sets its flag: one more frame for its partner.                 *)
LEMMA FlagBalance ==
  ASSUME IInv, Addressed, NEW s \in Netdevs, XmitFlag(s),
         NEW i \in Netdevs, Evens(i, Partner(i))
  PROVE  Evens(i, Partner(i))'
<1> DEFINE d == Partner(i)
<1>0. d \in Netdevs /\ Types
  BY PartnerFacts DEF IInv
<1>1. /\ pc[s] = "flag" /\ pc' = [pc EXCEPT ![s] = "advance"]
      /\ UNCHANGED <<skb, tx_packets, rx_packets, rx_dropped>>
  BY DEF XmitFlag, Goto, txVars, rxVars, rxStats
<1>2. pc'[Poll] = pc[Poll]
  BY <1>0, <1>1, ContextFacts DEF Types
<1>3. /\ StatMod \in Nat \ {0} /\ tx_packets[i] \in 0 .. StatMod - 1
      /\ rx_packets[d] \in 0 .. StatMod - 1
      /\ rx_dropped[d] \in 0 .. StatMod - 1 /\ Filled \in Nat
      /\ DOMAIN Queue = 1 .. Filled
      /\ Waits(d) \in SUBSET (1 .. Filled) /\ Cardinality(Waits(d)) \in Nat
      /\ Early(d) \in {0, 1} /\ Late(d) \in {0, 1}
  BY <1>0, AccountTypes
<1>4. Early(d)' = Early(d) /\ Late(d)' = Late(d)
  BY <1>1, <1>2 DEF Early, Late, One, IsFor
<1>5. /\ DOMAIN Queue' = 1 .. Filled + 1
      /\ \A k \in 1 .. Filled : Queue'[k] = Queue[k]
      /\ Queue'[Filled + 1] = tx_skb[s]
  <2>1. Queue' = Append(Queue, tx_skb[s]) /\ tx_skb[s] \in Held
    BY FlagPuts DEF Held
  <2>2. mem = "ok"
    BY FlagSet
  <2>3. Queue \in Seq(Held) /\ Len(Queue) = Filled
    BY <2>2, QueueType
  <2> QED BY <2>1, <2>3, AppendProperties
<1>6. IsFor(tx_skb[s], Partner(s))
  BY <1>1 DEF Addressed
<1>7. Waits(d)' = {k \in DOMAIN Queue' : IsFor(Queue'[k], d)}
  BY DEF Waits, IsFor
<1>8. CASE s = i
  <2>1. Waits(d)' = Waits(d) \cup {Filled + 1}
    BY <1>3, <1>5, <1>6, <1>7, <1>8 DEF Waits
  <2>2. Cardinality(Waits(d)') = Cardinality(Waits(d)) + 1
    BY <1>3, <2>1, Appended
  <2>3. Owed(i) = 0 /\ Owed(i)' = 1
    BY <1>0, <1>1, <1>8, ContextFacts DEF Owed, One, Types
  <2> DEFINE n == tx_packets[i]
             c == Cardinality(Waits(d))
             p == rx_packets[d]
             q == rx_dropped[d]
             e == Early(d)
             l == Late(d)
  <2>4. (n + 0 + e) % StatMod = (p + q + c + l) % StatMod
    BY Zenon, <2>3 DEF Evens
  <2>5. Evens(i, d)' <=>
          (n + 1 + e) % StatMod = (p + q + (c + 1) + l) % StatMod
    BY Zenon, <1>1, <1>4, <2>2, <2>3 DEF Evens
  <2>6. n \in Nat /\ c \in Nat /\ p \in Nat /\ q \in Nat
        /\ e \in {0, 1} /\ l \in {0, 1} /\ StatMod \in Nat \ {0}
    BY <1>3
  <2> HIDE DEF n, c, p, q, e, l
  <2>7. /\ n + 0 + e \in Int /\ p + q + c + l \in Int /\ 1 \in Int
        /\ n + 1 + e = (n + 0 + e) + 1
        /\ p + q + (c + 1) + l = (p + q + c + l) + 1
    BY <2>6
  <2>8. ((n + 0 + e) + 1) % StatMod = ((p + q + c + l) + 1) % StatMod
    BY Zenon, <2>4, <2>6, <2>7, SameCount
  <2>9. Evens(i, d)'
    BY Zenon, <2>5, <2>7, <2>8
  <2> QED BY <2>9
<1>9. CASE s # i
  <2>1. ~IsFor(tx_skb[s], d)
    BY <1>6, <1>9, PartnerFacts DEF IsFor
  <2>2. Waits(d)' = Waits(d)
    BY <1>3, <1>5, <1>7, <2>1 DEF Waits
  <2>3. Owed(i)' = Owed(i)
    BY <1>0, <1>1, <1>9, ContextFacts DEF Owed, One, Types
  <2>4. Evens(i, d)'
    BY Zenon, <1>1, <1>4, <2>2, <2>3 DEF Evens
  <2> QED BY <2>4
<1> QED BY <1>8, <1>9

(* The poll clears the flag of the frame it has looked at.                 *)
LEMMA ClearBalance ==
  ASSUME IInv, Taken, PollClear, NEW i \in Netdevs, Evens(i, Partner(i))
  PROVE  Evens(i, Partner(i))'
<1> DEFINE d == Partner(i)
<1>0. d \in Netdevs /\ Types
  BY PartnerFacts DEF IInv
<1>1. /\ pc[Poll] = "clear" /\ pc' = [pc EXCEPT ![Poll] = "next"]
      /\ UNCHANGED <<skb, tx_packets, rx_packets, rx_dropped>>
  BY DEF PollClear, Goto, txVars, rxVars, rxStats
<1>2. pc'[Poll] = "next" /\ Owed(i)' = Owed(i)
  BY <1>0, <1>1, ContextFacts DEF Owed, One, Types
<1>3. /\ StatMod \in Nat \ {0} /\ tx_packets[i] \in 0 .. StatMod - 1
      /\ rx_packets[d] \in 0 .. StatMod - 1
      /\ rx_dropped[d] \in 0 .. StatMod - 1 /\ Filled \in Nat
      /\ DOMAIN Queue = 1 .. Filled
      /\ Waits(d) \in SUBSET (1 .. Filled) /\ Cardinality(Waits(d)) \in Nat
      /\ Owed(i) \in {0, 1}
  BY <1>0, AccountTypes
<1>4. Early(d)' = 0 /\ Late(d) = 0
  BY <1>1, <1>2 DEF Early, Late, One
<1>5. /\ Filled > 0 /\ Queue' = Tail(Queue)
      /\ Queue[1] = skb.frame /\ Queue \in Seq(Held) /\ Len(Queue) = Filled
  <2>1. mem = "ok" /\ Oldest = rx_index /\ Filled > 0
    BY FlagCleared
  <2>2. rx_index \in 0 .. dma_cpu_bufs - 1 /\ dma_cpu_bufs \in Nat
        /\ dma_cpu_bufs > 0
    BY <2>1, RingFacts
  <2>3. Slot(Oldest, 0) = rx_index
    BY <2>1, <2>2, SlotTurn
  <2>4. 1 \in 1 .. Filled /\ 1 - 1 = 0
    BY <1>3, <2>1
  <2>5. Queue[1] = frames[Slot(Oldest, 1 - 1)]
    BY <2>4 DEF Queue
  <2>6. Queue[1] = skb.frame
    BY <1>1, <2>3, <2>4, <2>5 DEF Taken
  <2> QED BY <2>1, <2>6, QueueType, ClearGets
<1>6. /\ DOMAIN Queue' = 1 .. Filled - 1
      /\ \A k \in 1 .. Filled - 1 : Queue'[k] = Queue[k + 1]
  <2>1. Queue # << >>
    BY <1>5
  <2>2. Len(Tail(Queue)) = Filled - 1 /\ Tail(Queue) \in Seq(Held)
    BY <1>5, <2>1
  <2>3. DOMAIN Tail(Queue) = 1 .. Filled - 1
    BY <2>2
  <2>4. \A k \in 1 .. Filled - 1 : Tail(Queue)[k] = Queue[k + 1]
    BY <1>5, <2>1
  <2> QED BY <1>5, <2>3, <2>4
<1>7. Waits(d)' = {k \in 1 .. Filled - 1 : k + 1 \in Waits(d)}
  <2>1. Waits(d)' = {k \in DOMAIN Queue' : IsFor(Queue'[k], d)}
    BY DEF Waits, IsFor
  <2>2. \A k \in 1 .. Filled - 1 : k + 1 \in 1 .. Filled
    BY <1>3
  <2>3. \A k \in 1 .. Filled - 1 :
          IsFor(Queue'[k], d) <=> k + 1 \in Waits(d)
    BY <1>3, <1>6, <2>2 DEF Waits
  <2> QED BY <1>6, <2>1, <2>3
<1>8. 1 \in Waits(d) <=> IsFor(skb.frame, d)
  <2>1. 1 \in DOMAIN Queue
    BY <1>3, <1>5
  <2> QED BY <1>5, <2>1 DEF Waits
<1>9. CASE ~IsFor(skb.frame, d)
  <2>1. Cardinality(Waits(d)') = Cardinality(Waits(d))
    <3>1. Filled \in Nat /\ Waits(d) \in SUBSET (1 .. Filled)
      BY <1>3
    <3>2. Cardinality({k \in 1 .. Filled - 1 : k + 1 \in Waits(d)})
            = Cardinality(Waits(d))
      BY Zenon, <1>8, <1>9, <3>1, HeadGone
    <3> QED BY Zenon, <1>7, <3>2
  <2>2. Early(d) = 0 /\ Late(d)' = 0
    BY <1>1, <1>9 DEF Early, Late, One, IsFor
  <2>3. Evens(i, d)'
    BY Zenon, <1>1, <1>2, <1>4, <2>1, <2>2 DEF Evens
  <2> QED BY <2>3
<1>10. CASE IsFor(skb.frame, d)
  <2> DEFINE n == tx_packets[i] + Owed(i)
             c == Cardinality(Waits(d))
             p == rx_packets[d]
             q == rx_dropped[d]
  <2>1. Cardinality(Waits(d)') = c - 1
    BY <1>3, <1>7, <1>8, <1>10, HeadGone
  <2>2. skb.fate \in {"deliver", "nomem"}
    BY <1>0, <1>1, <1>10 DEF Taken
  <2>3. n \in Nat /\ c \in Nat /\ p \in Nat /\ q \in Nat
        /\ StatMod \in Nat \ {0}
    BY <1>3
  <2>4. CASE skb.fate = "deliver"
    <3>1. Early(d) = 1 /\ Late(d)' = 0
      BY <1>1, <1>10, <2>4 DEF Early, Late, One, IsFor
    <3>2. (n + 1) % StatMod = (p + q + c + 0) % StatMod
      BY Zenon, <1>4, <3>1 DEF Evens
    <3>3. Evens(i, d)' <=> (n + 0) % StatMod = (p + q + (c - 1) + 0) % StatMod
      BY Zenon, <1>1, <1>2, <1>4, <2>1, <3>1 DEF Evens
    <3> HIDE DEF n, c, p, q
    <3>4. /\ n + 1 \in Int /\ p + q + c + 0 \in Int /\ -1 \in Int
          /\ (n + 1) + (-1) = n + 0
          /\ (p + q + c + 0) + (-1) = p + q + (c - 1) + 0
      BY <2>3
    <3>5. ((n + 1) + (-1)) % StatMod = ((p + q + c + 0) + (-1)) % StatMod
      BY Zenon, <2>3, <3>2, <3>4, SameCount
    <3>6. Evens(i, d)'
      BY Zenon, <3>3, <3>4, <3>5
    <3> QED BY <3>6
  <2>5. CASE skb.fate = "nomem"
    <3>1. Early(d) = 0 /\ Late(d)' = 1
      BY <1>1, <1>2, <1>10, <2>5 DEF Early, Late, One, IsFor
    <3>2. (n + 0) % StatMod = (p + q + c + 0) % StatMod
      BY Zenon, <1>4, <3>1 DEF Evens
    <3>3. Evens(i, d)' <=> (n + 0) % StatMod = (p + q + (c - 1) + 1) % StatMod
      BY Zenon, <1>1, <1>2, <1>4, <2>1, <3>1 DEF Evens
    <3> HIDE DEF n, c, p, q
    <3>4. p + q + c + 0 = p + q + (c - 1) + 1
      BY <2>3
    <3>5. Evens(i, d)'
      BY Zenon, <3>2, <3>3, <3>4
    <3> QED BY <3>5
  <2> QED BY <2>2, <2>4, <2>5
<1> QED BY <1>9, <1>10

(* The sender counts the packet it has handed over.                        *)
LEMMA FinishBalance ==
  ASSUME IInv, [Next]_vars, Queue' = Queue, NEW s \in Netdevs, XmitFinish(s),
         NEW i \in Netdevs, Evens(i, Partner(i))
  PROVE  Evens(i, Partner(i))'
<1> DEFINE d == Partner(i)
<1>0. d \in Netdevs /\ Types
  BY PartnerFacts DEF IInv
<1>1. /\ pc[s] = "advance" /\ pc' = [pc EXCEPT ![s] = "idle"]
      /\ UNCHANGED <<skb, rx_packets, rx_dropped>>
      /\ tx_packets' = [tx_packets EXCEPT ![s] = (@ + 1) % StatMod]
  BY DEF XmitFinish, Goto, rxVars, rxStats, Count
<1>2. pc'[Poll] = pc[Poll]
  BY <1>0, <1>1, ContextFacts DEF Types
<1>3. /\ StatMod \in Nat \ {0} /\ tx_packets[i] \in 0 .. StatMod - 1
      /\ tx_packets \in [Netdevs -> 0 .. StatMod - 1]
      /\ Early(d) \in {0, 1}
  BY <1>0, AccountTypes DEF Types, Stats
<1>4. Early(d)' = Early(d) /\ Late(d)' = Late(d)
  BY <1>1, <1>2 DEF Early, Late, One, IsFor
<1>5. Waits(d)' = Waits(d)
  BY DEF Waits, IsFor
<1>6. CASE s = i
  <2> DEFINE n == tx_packets[i]
             e == Early(d)
             r == (n + 1) % StatMod
  <2>1. Owed(i) = 1 /\ Owed(i)' = 0
    BY <1>0, <1>1, <1>6, ContextFacts DEF Owed, One, Types
  <2>2. tx_packets'[i] = r
    BY <1>1, <1>3, <1>6
  <2>3. r \in Int /\ e \in Int /\ n \in 0 .. StatMod - 1
    BY <1>3, Counted
  <2>4. (r + e) % StatMod = (n + 1 + e) % StatMod
    BY Zenon, <1>3, <2>3, Counted
  <2>5. r + 0 + e = r + e
    BY <2>3
  <2>6. Evens(i, d)'
    BY Zenon, <1>1, <1>4, <1>5, <2>1, <2>2, <2>4, <2>5 DEF Evens
  <2> QED BY <2>6
<1>7. CASE s # i
  <2>1. Owed(i)' = Owed(i) /\ tx_packets'[i] = tx_packets[i]
    BY <1>0, <1>1, <1>3, <1>7, ContextFacts DEF Owed, One, Types
  <2>2. Evens(i, d)'
    BY Zenon, <1>1, <1>4, <1>5, <2>1 DEF Evens
  <2> QED BY <2>2
<1> QED BY <1>6, <1>7

(* The poll looks at a frame; one that it copies is counted at once.       *)
LEMMA TakeBalance ==
  ASSUME IInv, Queue' = Queue, PollTake, NEW i \in Netdevs,
         Evens(i, Partner(i))
  PROVE  Evens(i, Partner(i))'
<1> DEFINE d == Partner(i)
           dst == rx_get_dst_iface(frames[rx_index].opCode)
<1>0. d \in Netdevs /\ Types
  BY PartnerFacts DEF IInv
<1>1. /\ pc[Poll] = "take" /\ pc' = [pc EXCEPT ![Poll] = "clear"]
      /\ UNCHANGED <<tx_packets, rx_dropped>>
  BY DEF PollTake, Goto, txVars
<1>2. PICK fate \in IF dst < 0 THEN {"bad"} ELSE {"nomem", "deliver"} :
        /\ skb' = [frame |-> frames[rx_index], fate |-> fate]
        /\ rx_packets' = IF fate = "deliver"
                         THEN [rx_packets EXCEPT ![dst] = (@ + 1) % StatMod]
                         ELSE rx_packets
  BY DEF PollTake, Count
<1>3. /\ StatMod \in Nat \ {0} /\ tx_packets[i] \in 0 .. StatMod - 1
      /\ rx_packets[d] \in 0 .. StatMod - 1
      /\ rx_dropped[d] \in 0 .. StatMod - 1
      /\ Cardinality(Waits(d)) \in Nat /\ Owed(i) \in {0, 1}
      /\ rx_packets \in [Netdevs -> 0 .. StatMod - 1]
  BY <1>0, AccountTypes DEF Types, Stats
<1>4. pc'[Poll] = "clear" /\ Owed(i)' = Owed(i)
  BY <1>0, <1>1, ContextFacts DEF Owed, One, Types
<1>5. Early(d) = 0 /\ Late(d) = 0 /\ Late(d)' = 0
  BY <1>1, <1>4 DEF Early, Late, One
<1>6. Waits(d)' = Waits(d)
  BY DEF Waits, IsFor
<1>7. /\ skb'.fate = fate
      /\ rx_get_dst_iface(skb'.frame.opCode) = dst
  BY <1>2
<1> HIDE DEF dst
<1>8. CASE fate = "deliver" /\ dst = d
  <2> DEFINE n == tx_packets[i] + Owed(i)
             c == Cardinality(Waits(d))
             p == rx_packets[d]
             q == rx_dropped[d]
             r == (p + 1) % StatMod
  <2>1. Early(d)' = 1
    BY <1>4, <1>7, <1>8 DEF Early, One, IsFor
  <2>2. rx_packets'[d] = r
    BY <1>0, <1>2, <1>3, <1>8
  <2>3. (n + 0) % StatMod = (p + q + c + 0) % StatMod
    BY Zenon, <1>5 DEF Evens
  <2>4. Evens(i, d)' <=> (n + 1) % StatMod = (r + q + c + 0) % StatMod
    BY Zenon, <1>1, <1>4, <1>5, <1>6, <2>1, <2>2 DEF Evens
  <2>5. n \in Nat /\ c \in Nat /\ p \in 0 .. StatMod - 1 /\ q \in Nat
        /\ StatMod \in Nat \ {0}
    BY <1>3
  <2>6. r \in Int
    BY <2>5, Counted
  <2> HIDE DEF n, c, p, q, r
  <2>7. /\ n + 0 \in Int /\ p + q + c + 0 \in Int /\ 1 \in Int
        /\ q + c \in Int
        /\ (n + 0) + 1 = n + 1
        /\ (p + q + c + 0) + 1 = p + 1 + (q + c)
        /\ r + q + c + 0 = r + (q + c)
    BY <2>5, <2>6
  <2>8. (((p + 1) % StatMod) + (q + c)) % StatMod
          = (p + 1 + (q + c)) % StatMod
    BY Zenon, <2>5, <2>7, Counted
  <2>9. ((n + 0) + 1) % StatMod = ((p + q + c + 0) + 1) % StatMod
    BY Zenon, <2>3, <2>5, <2>7, SameCount
  <2>10. Evens(i, d)'
    BY Zenon, <2>4, <2>7, <2>8, <2>9 DEF r
  <2> QED BY <2>10
<1>9. CASE ~(fate = "deliver" /\ dst = d)
  <2>1. rx_packets'[d] = rx_packets[d]
    BY <1>0, <1>2, <1>3, <1>9
  <2>2. Early(d)' = 0
    BY <1>7, <1>9 DEF Early, One, IsFor
  <2>3. Evens(i, d)'
    BY Zenon, <1>1, <1>4, <1>5, <1>6, <2>1, <2>2 DEF Evens
  <2> QED BY <2>3
<1> QED BY <1>8, <1>9

(* The rest of the loop body counts a frame that could not be copied.      *)
LEMMA NextBalance ==
  ASSUME IInv, Queue' = Queue, PollNext, NEW i \in Netdevs,
         Evens(i, Partner(i))
  PROVE  Evens(i, Partner(i))'
<1> DEFINE d == Partner(i)
           dst == rx_get_dst_iface(skb.frame.opCode)
<1>0. d \in Netdevs /\ Types
  BY PartnerFacts DEF IInv
<1>1. /\ pc[Poll] = "next" /\ pc' = [pc EXCEPT ![Poll] = "loop"]
      /\ UNCHANGED <<tx_packets, rx_packets>>
      /\ rx_dropped' = IF skb.fate = "nomem"
                       THEN [rx_dropped EXCEPT ![dst] = (@ + 1) % StatMod]
                       ELSE rx_dropped
  BY DEF PollNext, Goto, txVars, Count
<1>2. /\ StatMod \in Nat \ {0} /\ tx_packets[i] \in 0 .. StatMod - 1
      /\ rx_packets[d] \in 0 .. StatMod - 1
      /\ rx_dropped[d] \in 0 .. StatMod - 1
      /\ Cardinality(Waits(d)) \in Nat /\ Owed(i) \in {0, 1}
      /\ rx_dropped \in [Netdevs -> 0 .. StatMod - 1]
  BY <1>0, AccountTypes DEF Types, Stats
<1>3. pc'[Poll] = "loop" /\ Owed(i)' = Owed(i)
  BY <1>0, <1>1, ContextFacts DEF Owed, One, Types
<1>4. Early(d) = 0 /\ Early(d)' = 0 /\ Late(d)' = 0
  BY <1>1, <1>3 DEF Early, Late, One
<1>5. Waits(d)' = Waits(d)
  BY DEF Waits, IsFor
<1>6. Late(d) = IF skb.fate = "nomem" /\ dst = d THEN 1 ELSE 0
  BY <1>1 DEF Late, One, IsFor
<1> HIDE DEF dst
<1>7. CASE skb.fate = "nomem" /\ dst = d
  <2> DEFINE n == tx_packets[i] + Owed(i)
             c == Cardinality(Waits(d))
             p == rx_packets[d]
             q == rx_dropped[d]
             r == (q + 1) % StatMod
  <2>1. rx_dropped'[d] = r
    BY <1>0, <1>1, <1>2, <1>7
  <2>2. (n + 0) % StatMod = (p + q + c + 1) % StatMod
    BY Zenon, <1>4, <1>6, <1>7 DEF Evens
  <2>3. Evens(i, d)' <=> (n + 0) % StatMod = (p + r + c + 0) % StatMod
    BY Zenon, <1>1, <1>3, <1>4, <1>5, <2>1 DEF Evens
  <2>4. n \in Nat /\ c \in Nat /\ q \in 0 .. StatMod - 1 /\ p \in Nat
        /\ StatMod \in Nat \ {0}
    BY <1>2
  <2>5. r \in Int
    BY <2>4, Counted
  <2> HIDE DEF n, c, p, q, r
  <2>6. /\ p + c \in Int
        /\ p + q + c + 1 = q + 1 + (p + c)
        /\ p + r + c + 0 = r + (p + c)
    BY <2>4, <2>5
  <2>7. (((q + 1) % StatMod) + (p + c)) % StatMod
          = (q + 1 + (p + c)) % StatMod
    BY Zenon, <2>4, <2>6, Counted
  <2>8. Evens(i, d)'
    BY Zenon, <2>2, <2>3, <2>6, <2>7 DEF r
  <2> QED BY <2>8
<1>8. CASE ~(skb.fate = "nomem" /\ dst = d)
  <2>1. rx_dropped'[d] = rx_dropped[d] /\ Late(d) = 0
    BY <1>0, <1>1, <1>2, <1>6, <1>8
  <2>2. Evens(i, d)'
    BY Zenon, <1>1, <1>3, <1>4, <1>5, <2>1 DEF Evens
  <2> QED BY <2>2
<1> QED BY <1>7, <1>8

(* No other step touches the account.                                      *)
AccountStill ==
  /\ UNCHANGED <<tx_packets, rx_packets, rx_dropped>>
  /\ \A i \in Netdevs : pc'[i] = "advance" <=> pc[i] = "advance"
  /\ \/ UNCHANGED skb /\ pc'[Poll] = pc[Poll]
     \/ pc[Poll] \notin {"clear", "next"} /\ pc'[Poll] \notin {"clear", "next"}

(* The five steps that do are two of a sender and three of the poll.       *)
LEMMA AccountSteps ==
  ASSUME IInv, [Next]_vars
  PROVE  \/ AccountStill
         \/ \E i \in Netdevs : XmitFlag(i) \/ XmitFinish(i)
         \/ PollTake \/ PollClear \/ PollNext
<1>0. Types
  BY DEF IInv
<1> USE ContextFacts DEF Goto, AccountStill
<1>1. CASE enable_ghosting \/ ExitNapi \/ nf10_eth_driver_exit
           \/ NapiCommand \/ UNCHANGED vars
  BY <1>1 DEF enable_ghosting, GhostTryLess, GhostNoMemory,
     GhostEnabled, ExitNapi, nf10_eth_driver_exit, ExitNapiWait,
     ExitDelTimer, ExitGenl, ExitUnregister, GhostDelTimer, GhostFree,
       NapiCommand, genl_cmd_napi_enable, genl_cmd_napi_disable, vars, txVars,
     rxVars, rxStats
<1>2. ASSUME NEW i \in Netdevs, XmitEnter(i) \/ XmitFull(i) \/ XmitCopy(i)
      PROVE  AccountStill
  BY <1>0, <1>2 DEF XmitEnter, XmitFull, XmitCopy, txVars, rxVars, rxStats,
     Types
<1>3. CASE TimerExpires \/ rx_poll_timer_cb
  BY <1>0, <1>3 DEF TimerExpires, rx_poll_timer_cb, TimerCheck,
     TimerSchedules, TimerRearms, txVars, rxVars, rxStats, Types
<1>4. CASE PollStart \/ PollLoop \/ PollComplete \/ PollRearms \/ PollMore
  BY <1>0, <1>4 DEF PollStart, PollLoop, PollComplete, PollRearms, PollMore,
     txVars, rxVars, rxStats, Types
<1> QED BY <1>1, <1>2, <1>3, <1>4
        DEF Next, nf10_ghost_xmit, nf10_napi_struct_poll

(* Every packet counted as sent is counted once by the sender's partner,   *)
(* as received or as dropped, or is still in the ring, however many        *)
(* buffers there are and whatever the width of the counters (PairAccount). *)
THEOREM PairsBalance == Spec => []PairAccount
<1>1. Init => Addressed /\ Taken /\ Balanced
  <2> SUFFICES ASSUME Init PROVE Addressed /\ Taken /\ Balanced
    OBVIOUS
  <2>1. /\ pc[Poll] = "idle" /\ \A i \in Netdevs : pc[i] = "idle"
    BY ContextFacts DEF Init
  <2>2. Queue = << >>
    <3>1. Filled = 0
      BY FilledNone DEF Init
    <3> QED BY <3>1 DEF Queue
  <2>3. ASSUME NEW i \in Netdevs, NEW d \in Netdevs PROVE Evens(i, d)
    <3>1. Waits(d) = {}
      BY <2>2 DEF Waits
    <3>2. Cardinality(Waits(d)) = 0
      BY <3>1, FS_EmptySet
    <3>3. Owed(i) = 0 /\ Early(d) = 0 /\ Late(d) = 0
      BY <2>1 DEF Owed, Early, Late, One
    <3>4. tx_packets[i] = 0 /\ rx_packets[d] = 0 /\ rx_dropped[d] = 0
      BY DEF Init
    <3> QED BY <3>2, <3>3, <3>4 DEF Evens
  <2> QED BY <2>1, <2>3, PartnerFacts DEF Addressed, Taken, Balanced
<1>2. IInv /\ Addressed /\ Taken /\ Balanced /\ [Next]_vars
        => Addressed' /\ Taken' /\ Balanced'
  <2> SUFFICES ASSUME IInv, Addressed, Taken, Balanced, [Next]_vars
               PROVE  Addressed' /\ Taken' /\ Balanced'
    OBVIOUS
  <2>1. Addressed' /\ Taken'
    BY AddressedStep, TakenStep
  <2>2. ASSUME NEW i \in Netdevs PROVE Evens(i, Partner(i))'
    <3>1. Evens(i, Partner(i))
      BY DEF Balanced
    <3>2. ASSUME NEW s \in Netdevs, XmitFlag(s) PROVE Evens(i, Partner(i))'
      BY <3>1, <3>2, FlagBalance
    <3>3. CASE PollClear
      BY <3>1, <3>3, ClearBalance
    <3>4. CASE Queue' = Queue
      <4>1. ASSUME NEW s \in Netdevs, XmitFinish(s)
            PROVE  Evens(i, Partner(i))'
        BY <3>1, <3>4, <4>1, FinishBalance
      <4>2. CASE PollTake
        BY <3>1, <3>4, <4>2, TakeBalance
      <4>3. CASE PollNext
        BY <3>1, <3>4, <4>3, NextBalance
      <4>4. CASE AccountStill
        <5>1. Owed(i)' = Owed(i)
          BY <4>4 DEF AccountStill, Owed, One
        <5>2. /\ Early(Partner(i))' = Early(Partner(i))
              /\ Late(Partner(i))' = Late(Partner(i))
          BY <4>4 DEF AccountStill, Early, Late, One, IsFor
        <5>3. Waits(Partner(i))' = Waits(Partner(i))
          BY <3>4 DEF Waits, IsFor
        <5>4. UNCHANGED <<tx_packets, rx_packets, rx_dropped>>
          BY <4>4 DEF AccountStill
        <5> QED BY Zenon, <3>1, <5>1, <5>2, <5>3, <5>4 DEF Evens
      <4> QED BY <3>2, <3>3, <4>1, <4>2, <4>3, <4>4, AccountSteps
    <3> QED BY <3>2, <3>3, <3>4, QueueSteps
  <2> QED BY <2>1, <2>2 DEF Balanced, Partner
<1> QED BY <1>1, <1>2, IInvHolds, BalanceGives, PTL DEF Spec
=============================================================================
