--------------------------- MODULE TxQueueProofs ----------------------------
(***************************************************************************)
(* Proofs about TxQueue for FIFOs of any depth and packets of any lengths: *)
(* the entries of tx_info_fifo match the packets in tx_fifo, and the MAC   *)
(* gets whole packets, in order, until the last word of a packet meets a   *)
(* full FIFO.  The second half is about AsyncFifo, which carries those     *)
(* entries from one clock to the other.                                    *)
(***************************************************************************)
EXTENDS TxQueue, AsyncFifo, QueueCounting, SequenceTheorems,
        WellFoundedInduction

(* Packet id, word nth is what comes after word w.                         *)
Follows(w, id, nth) ==
  IF w.eop THEN id = 1 - w.id /\ nth = 1 ELSE id = w.id /\ nth = w.nth + 1

TxWords == [id : Ids, nth : Nat, eop : BOOLEAN]

Types ==
  /\ speed \in Speeds
  /\ axi \in [id : Ids, len : {0} \cup Lens, nth : Nat, valid : BOOLEAN]
  /\ tx_fifo \in Seq(TxWords)
  /\ Len(tx_fifo) <= DEPTH - ALMOST_FULL_OFFSET
  /\ info \in 0 .. INFO_DEPTH
  /\ state \in {"IDLE", "WAIT_FOR_ACK", "SEND_PKT", "IFG"}
  /\ tx_data \in TxWords

Flags == info_fifo_wr_en \in BOOLEAN /\ stalled \in BOOLEAN

(* The master is inside a packet of its length.                            *)
Master == /\ axi.nth >= 1
          /\ axi.valid \/ axi.nth > 1 => axi.len \in Lens /\ axi.nth <= axi.len

(* The words given to the MAC, in tx_fifo and still with the master are    *)
(* the words of one packet after another; a packet's first word is not its *)
(* last.                                                                   *)
Chain ==
  /\ tx_fifo = << >> => Follows(tx_data, axi.id, axi.nth)
  /\ tx_fifo # << >> =>
       /\ Follows(tx_data, tx_fifo[1].id, tx_fifo[1].nth)
       /\ Follows(tx_fifo[Len(tx_fifo)], axi.id, axi.nth)
  /\ \A i \in 1 .. Len(tx_fifo) - 1 :
       Follows(tx_fifo[i], tx_fifo[i + 1].id, tx_fifo[i + 1].nth)
  /\ \A i \in 1 .. Len(tx_fifo) : tx_fifo[i].eop => tx_fifo[i].nth # 1

(* The MAC's side is inside a packet just while its state says so.         *)
Inside == ~stalled => (tx_data.eop <=> state # "SEND_PKT")

(* Only the 10G queue has the register.                                    *)
Delay == info_fifo_wr_en => speed = "10G"

IInv == Types /\ Flags /\ Master /\ Chain /\ InfoMatches /\ Inside /\ Delay

-----------------------------------------------------------------------------
(* A FIFO without words is the empty one.                                  *)
LEMMA EmptyFifo ==
  ASSUME NEW s \in Seq(TxWords)
  PROVE  s = << >> <=> Len(s) = 0
OBVIOUS

(* The positions of the last words of packets in a FIFO.                   *)
EopsIn(s) == {i \in 1 .. Len(s) : s[i].eop}

(* A FIFO's marks are a set of positions.                                  *)
LEMMA EopsAreFew ==
  ASSUME NEW s \in Seq(TxWords)
  PROVE  /\ EopsIn(s) \in SUBSET (1 .. Len(s)) /\ Len(s) \in Nat
         /\ Cardinality(EopsIn(s)) \in Nat
         /\ Cardinality(EopsIn(s)) = 0 <=> EopsIn(s) = {}
<1>1. EopsIn(s) \in SUBSET (1 .. Len(s)) /\ Len(s) \in Nat
  BY DEF EopsIn
<1>2. QED
  BY <1>1, Positions

(* One more word is one more mark if it ends a packet.                     *)
LEMMA EopsAppended ==
  ASSUME NEW s \in Seq(TxWords), NEW w \in TxWords
  PROVE  /\ w.eop => Cardinality(EopsIn(Append(s, w)))
                       = Cardinality(EopsIn(s)) + 1
         /\ ~w.eop => Cardinality(EopsIn(Append(s, w)))
                        = Cardinality(EopsIn(s))
<1>1. /\ Len(Append(s, w)) = Len(s) + 1
      /\ \A i \in 1 .. Len(s) : Append(s, w)[i] = s[i]
      /\ Append(s, w)[Len(s) + 1] = w
      /\ Len(s) \in Nat
  OBVIOUS
<1>2. EopsIn(s) \in SUBSET (1 .. Len(s))
  BY EopsAreFew
<1>3. CASE w.eop
  <2>1. EopsIn(Append(s, w)) = EopsIn(s) \cup {Len(s) + 1}
    BY <1>1, <1>3 DEF EopsIn
  <2>2. QED
    BY <1>1, <1>2, <1>3, <2>1, Appended
<1>4. CASE ~w.eop
  <2>1. EopsIn(Append(s, w)) = EopsIn(s)
    BY <1>1, <1>4 DEF EopsIn
  <2>2. QED
    BY <1>4, <2>1
<1>5. QED
  BY <1>3, <1>4

(* One word less is one mark less if it ended a packet.                    *)
LEMMA EopsTaken ==
  ASSUME NEW s \in Seq(TxWords), s # << >>
  PROVE  /\ s[1].eop => Cardinality(EopsIn(Tail(s)))
                          = Cardinality(EopsIn(s)) - 1
         /\ ~s[1].eop => Cardinality(EopsIn(Tail(s)))
                           = Cardinality(EopsIn(s))
<1>1. /\ Len(Tail(s)) = Len(s) - 1 /\ Len(s) \in Nat /\ Len(s) > 0
      /\ \A i \in 1 .. Len(s) - 1 : Tail(s)[i] = s[i + 1]
  OBVIOUS
<1>2. EopsIn(s) \in SUBSET (1 .. Len(s))
  BY EopsAreFew
<1>3. EopsIn(Tail(s)) = {i \in 1 .. Len(s) - 1 : i + 1 \in EopsIn(s)}
  BY <1>1 DEF EopsIn
<1>4. 1 \in EopsIn(s) <=> s[1].eop
  BY <1>1 DEF EopsIn
<1>5. QED
  BY <1>1, <1>2, <1>3, <1>4, HeadGone

(* Packets of two words or more: at most every second word is a last one.  *)
LEMMA EopsHalf ==
  ASSUME NEW s \in Seq(TxWords),
         \A i \in 1 .. Len(s) - 1 : Follows(s[i], s[i + 1].id, s[i + 1].nth),
         \A i \in 1 .. Len(s) : s[i].eop => s[i].nth # 1
  PROVE  2 * Cardinality(EopsIn(s)) <= Len(s) + 1
<1>1. EopsIn(s) \in SUBSET (1 .. Len(s)) /\ Len(s) \in Nat
  BY EopsAreFew
<1>2. \A i \in EopsIn(s) : i + 1 \notin EopsIn(s)
  BY <1>1 DEF EopsIn, Follows
<1>3. QED
  BY <1>1, <1>2, SpacedByOne

-----------------------------------------------------------------------------
(* The FIFOs are empty and the master is before its first packet.          *)
LEMMA InitInv == Init => IInv
<1> SUFFICES ASSUME Init PROVE IInv
  OBVIOUS
<1> USE SizeAssumption
<1>1. Types
  <2>1. tx_fifo \in Seq(TxWords) /\ Len(tx_fifo) = 0
    BY DEF Init
  <2>2. 1 \in Ids /\ 0 \in Ids /\ 0 \in Nat /\ 1 \in Nat
    BY DEF Ids
  <2>3. axi \in [id : Ids, len : {0} \cup Lens, nth : Nat, valid : BOOLEAN]
    BY Zenon, <2>2 DEF Init
  <2>4. tx_data \in TxWords
    BY Zenon, <2>2 DEF Init, Word, TxWords
  <2>5. 0 <= DEPTH - ALMOST_FULL_OFFSET /\ info \in 0 .. INFO_DEPTH
    BY DEF Init
  <2>6. /\ speed \in Speeds
        /\ state \in {"IDLE", "WAIT_FOR_ACK", "SEND_PKT", "IFG"}
    BY DEF Init
  <2>7. QED
    BY Zenon, <2>1, <2>3, <2>4, <2>5, <2>6 DEF Types
<1>2. Flags
  BY DEF Init, Flags
<1>3. Master
  BY DEF Init, Master
<1>4. Chain
  <2>1. Follows(tx_data, axi.id, axi.nth)
    BY DEF Init, Word, Follows
  <2>2. tx_fifo = << >> /\ Len(tx_fifo) = 0
    BY DEF Init
  <2>3. QED
    BY <2>1, <2>2 DEF Chain
<1>5. InfoMatches
  <2>1. EopsIn(tx_fifo) = {}
    BY DEF Init, EopsIn
  <2>2. Eops = 0
    BY <2>1, FS_EmptySet DEF Eops, EopsIn
  <2>3. Entries = 0
    BY DEF Init, Entries, InHand
  <2>4. QED
    BY <2>2, <2>3 DEF InfoMatches
<1>6. Inside
  BY DEF Init, Inside, Word
<1>7. Delay
  BY DEF Init, Delay
<1>8. QED
  BY <1>1, <1>2, <1>3, <1>4, <1>5, <1>6, <1>7 DEF IInv

(* Giving the MAC the word at the head keeps the words in order.           *)
LEMMA ReadKeepsChain ==
  ASSUME Types, Chain, tx_fifo # << >>, tx_data' = Head(tx_fifo),
         tx_fifo' = Tail(tx_fifo), UNCHANGED axi
  PROVE  /\ Chain' /\ tx_fifo' \in Seq(TxWords) /\ tx_data' \in TxWords
         /\ Len(tx_fifo') <= DEPTH - ALMOST_FULL_OFFSET
<1> USE SizeAssumption
<1>1. /\ tx_fifo \in Seq(TxWords) /\ tx_data' = tx_fifo[1]
      /\ Len(tx_fifo) \in Nat /\ Len(tx_fifo) > 0
      /\ Len(tx_fifo) <= DEPTH - ALMOST_FULL_OFFSET
  BY DEF Types
<1>2. /\ tx_fifo' \in Seq(TxWords) /\ Len(tx_fifo') = Len(tx_fifo) - 1
      /\ \A i \in 1 .. Len(tx_fifo') : tx_fifo'[i] = tx_fifo[i + 1]
  BY <1>1
<1>3. tx_fifo' = << >> <=> Len(tx_fifo) = 1
  <2>1. tx_fifo' = << >> <=> Len(tx_fifo') = 0
    BY <1>2, EmptyFifo
  <2>2. QED
    BY <1>1, <1>2, <2>1
<1>4. tx_data' \in TxWords
  BY <1>1
<1>5. Chain'
  <2>1. tx_fifo' = << >> => Follows(tx_data', axi'.id, axi'.nth)
    BY <1>1, <1>3 DEF Chain
  <2>2. ASSUME tx_fifo' # << >>
        PROVE  /\ Follows(tx_data', tx_fifo'[1].id, tx_fifo'[1].nth)
               /\ Follows(tx_fifo'[Len(tx_fifo')], axi'.id, axi'.nth)
    <3>1. Len(tx_fifo) > 1 /\ 1 \in 1 .. Len(tx_fifo) - 1
      BY <1>1, <1>2, <1>3, <2>2
    <3>2. /\ tx_fifo'[1] = tx_fifo[1 + 1]
          /\ tx_fifo'[Len(tx_fifo')] = tx_fifo[Len(tx_fifo)]
      BY <3>1, <1>1, <1>2
    <3>3. Follows(tx_fifo[1], tx_fifo[1 + 1].id, tx_fifo[1 + 1].nth)
      BY <3>1 DEF Chain
    <3>4. Follows(tx_fifo[Len(tx_fifo)], axi.id, axi.nth)
      BY <1>1 DEF Chain
    <3>5. QED
      BY <3>2, <3>3, <3>4, <1>1
  <2>3. ASSUME NEW i \in 1 .. Len(tx_fifo') - 1
        PROVE  Follows(tx_fifo'[i], tx_fifo'[i + 1].id, tx_fifo'[i + 1].nth)
    <3>1. /\ tx_fifo'[i] = tx_fifo[i + 1]
          /\ tx_fifo'[i + 1] = tx_fifo[(i + 1) + 1]
          /\ i + 1 \in 1 .. Len(tx_fifo) - 1
      BY <1>1, <1>2
    <3>2. Follows(tx_fifo[i + 1], tx_fifo[(i + 1) + 1].id,
                  tx_fifo[(i + 1) + 1].nth)
      BY <3>1 DEF Chain
    <3>3. QED
      BY <3>1, <3>2
  <2>4. ASSUME NEW i \in 1 .. Len(tx_fifo')
        PROVE  tx_fifo'[i].eop => tx_fifo'[i].nth # 1
    BY <1>1, <1>2 DEF Chain
  <2>5. QED
    BY <2>1, <2>2, <2>3, <2>4 DEF Chain
<1>6. QED
  BY <1>1, <1>2, <1>4, <1>5

(* While the queue is in step, the MAC finds a word in tx_fifo as long as  *)
(* it is given a packet.                                                   *)
LEMMA NeverDry ==
  ASSUME Types, Flags, InfoMatches
  PROVE  /\ Entries \in Nat /\ Eops \in Nat
         /\ ~stalled /\ InHand = 1 => Eops > 0 /\ tx_fifo # << >>
<1>1. info \in Nat /\ InHand \in {0, 1} /\ Eops = Cardinality(EopsIn(tx_fifo))
  BY SizeAssumption DEF Types, InHand, Eops, EopsIn
<1>2. Entries \in Nat /\ (InHand = 1 => Entries > 0)
  BY <1>1 DEF Entries
<1>3. tx_fifo \in Seq(TxWords) /\ Eops \in Nat /\ (Eops > 0 => EopsIn(tx_fifo) # {})
  BY <1>1, EopsAreFew DEF Types
<1>4. EopsIn(tx_fifo) # {} => tx_fifo # << >>
  BY <1>3 DEF EopsIn
<1>5. QED
  BY <1>2, <1>3, <1>4 DEF InfoMatches

-----------------------------------------------------------------------------
(* What a step may do to the word given to the MAC (PacketsInOrder).       *)
Orderly ==
  ~stalled =>
    /\ state = "WAIT_FOR_ACK" /\ state' = "SEND_PKT" =>
         tx_data' = Word(1 - tx_data.id, 1, FALSE)
    /\ state = "SEND_PKT" /\ tx_data' # tx_data =>
         tx_data' = Word(tx_data.id, tx_data.nth + 1, tx_data'.eop)
    /\ state = "SEND_PKT" /\ state' # "SEND_PKT" => tx_data'.eop

(* Start of a packet: the entry that is taken is in hand.                  *)
LEMMA StartStep == IInv /\ Start => IInv' /\ Orderly
<1> SUFFICES ASSUME IInv, Start PROVE IInv' /\ Orderly
  OBVIOUS
<1>1. /\ state = "IDLE" /\ info > 0 /\ info' = info - 1
      /\ state' = "WAIT_FOR_ACK"
      /\ UNCHANGED <<speed, axi, info_fifo_wr_en, stalled, tx_fifo, tx_data>>
  BY DEF Start, axiVars
<1>2. Types'
  <2>1. info' \in 0 .. INFO_DEPTH
    BY <1>1, SizeAssumption DEF IInv, Types
  <2>2. QED
    BY Zenon, <1>1, <2>1 DEF IInv, Types
<1>3. Flags' /\ Master' /\ Chain' /\ Delay'
  BY Zenon, <1>1 DEF IInv, Flags, Master, Chain, Delay
<1>4. Inside'
  BY <1>1 DEF IInv, Inside
<1>5. InfoMatches'
  <2>1. InHand = 0 /\ InHand' = 1 /\ info \in Nat
    BY <1>1, SizeAssumption DEF InHand, IInv, Types
  <2>2. Entries' = Entries
    BY <1>1, <2>1 DEF Entries
  <2>3. Eops' = Eops
    BY <1>1 DEF Eops
  <2>4. QED
    BY <1>1, <2>2, <2>3 DEF IInv, InfoMatches
<1>6. Orderly
  BY <1>1 DEF Orderly
<1>7. QED
  BY <1>2, <1>3, <1>4, <1>5, <1>6 DEF IInv

(* The gap after a packet.                                                 *)
LEMMA GapStep == IInv /\ Gap => IInv' /\ Orderly
<1> SUFFICES ASSUME IInv, Gap PROVE IInv' /\ Orderly
  OBVIOUS
<1>1. /\ state = "IFG" /\ state' = "IDLE"
      /\ UNCHANGED <<speed, axi, info_fifo_wr_en, stalled, tx_fifo, info,
                     tx_data>>
  BY DEF Gap, axiVars
<1>2. Types' /\ Flags' /\ Master' /\ Chain' /\ Delay'
  BY Zenon, <1>1 DEF IInv, Types, Flags, Master, Chain, Delay
<1>3. Inside'
  BY <1>1 DEF IInv, Inside
<1>4. InfoMatches'
  <2>1. InHand = 0 /\ InHand' = 0
    BY <1>1 DEF InHand
  <2>2. Entries' = Entries /\ Eops' = Eops
    BY <1>1, <2>1 DEF Entries, Eops
  <2>3. QED
    BY <1>1, <2>2 DEF IInv, InfoMatches
<1>5. Orderly
  BY <1>1 DEF Orderly
<1>6. QED
  BY <1>2, <1>3, <1>4, <1>5 DEF IInv

(* A read from tx_fifo keeps types and order, empty or not; what it gives  *)
(* the MAC is the word that was at the head.                               *)
LEMMA ReadStep ==
  ASSUME IInv, ReadFifo, UNCHANGED <<axi, info, speed>>,
         state' \in {"IDLE", "WAIT_FOR_ACK", "SEND_PKT", "IFG"}
  PROVE  /\ Types' /\ Chain'
         /\ tx_fifo # << >> =>
              /\ tx_data' = tx_fifo[1] /\ tx_data' \in TxWords
              /\ Follows(tx_data, tx_data'.id, tx_data'.nth)
              /\ tx_data'.eop => tx_data'.nth # 1
              /\ tx_data'.eop => Eops' = Eops - 1
              /\ ~tx_data'.eop => Eops' = Eops
<1>1. CASE tx_fifo = << >>
  <2>1. UNCHANGED <<tx_fifo, tx_data>>
    BY <1>1 DEF ReadFifo
  <2>2. QED
    BY Zenon, <1>1, <2>1 DEF IInv, Types, Chain
<1>2. CASE tx_fifo # << >>
  <2>1. tx_data' = Head(tx_fifo) /\ tx_fifo' = Tail(tx_fifo)
    BY <1>2 DEF ReadFifo
  <2>2. /\ Chain' /\ tx_fifo' \in Seq(TxWords) /\ tx_data' \in TxWords
        /\ Len(tx_fifo') <= DEPTH - ALMOST_FULL_OFFSET
    BY <1>2, <2>1, ReadKeepsChain DEF IInv
  <2>3. Types'
    BY Zenon, <2>2 DEF IInv, Types
  <2>4. tx_fifo \in Seq(TxWords)
    BY DEF IInv, Types
  <2>5. tx_data' = tx_fifo[1] /\ 1 \in 1 .. Len(tx_fifo)
    BY <1>2, <2>1, <2>4
  <2>6. /\ Follows(tx_data, tx_data'.id, tx_data'.nth)
        /\ tx_data'.eop => tx_data'.nth # 1
    BY <1>2, <2>5 DEF IInv, Chain
  <2>7. /\ Eops = Cardinality(EopsIn(tx_fifo))
        /\ Eops' = Cardinality(EopsIn(Tail(tx_fifo)))
    BY <2>1 DEF Eops, EopsIn
  <2>8. /\ tx_data'.eop => Eops' = Eops - 1
        /\ ~tx_data'.eop => Eops' = Eops
    BY <1>2, <2>4, <2>5, <2>7, EopsTaken
  <2>9. QED
    BY <2>2, <2>3, <2>5, <2>6, <2>8
<1>3. QED
  BY <1>1, <1>2

(* tx_ack: the word taken is the first of the next packet.                 *)
LEMMA AckedStep == IInv /\ Acked => IInv' /\ Orderly
<1> SUFFICES ASSUME IInv, Acked PROVE IInv' /\ Orderly
  OBVIOUS
<1>1. /\ state = "WAIT_FOR_ACK" /\ state' = "SEND_PKT" /\ ReadFifo
      /\ UNCHANGED <<speed, axi, info_fifo_wr_en, stalled, info>>
  BY DEF Acked, axiVars
<1>2. /\ Types' /\ Chain'
      /\ tx_fifo # << >> =>
           /\ tx_data' = tx_fifo[1] /\ tx_data' \in TxWords
           /\ Follows(tx_data, tx_data'.id, tx_data'.nth)
           /\ tx_data'.eop => tx_data'.nth # 1
           /\ tx_data'.eop => Eops' = Eops - 1
           /\ ~tx_data'.eop => Eops' = Eops
  BY <1>1, ReadStep
<1>3. Flags' /\ Master' /\ Delay'
  BY Zenon, <1>1 DEF IInv, Flags, Master, Delay
<1>4. InHand = 1 /\ InHand' = 1
  BY <1>1 DEF InHand
<1>5. ASSUME ~stalled
      PROVE  /\ ~tx_data'.eop /\ Eops' = Eops
             /\ tx_data' = Word(1 - tx_data.id, 1, FALSE)
  <2>1. tx_fifo # << >>
    BY <1>4, <1>5, NeverDry DEF IInv
  <2>2. tx_data.eop
    BY <1>1, <1>5 DEF IInv, Inside
  <2>3. tx_data'.id = 1 - tx_data.id /\ tx_data'.nth = 1
    BY <1>2, <2>1, <2>2 DEF Follows
  <2>4. ~tx_data'.eop
    BY <1>2, <2>1, <2>3
  <2>5. tx_data' \in TxWords
    BY <1>2, <2>1
  <2>6. tx_data' = Word(1 - tx_data.id, 1, FALSE)
    <3>1. tx_data' = [id |-> tx_data'.id, nth |-> tx_data'.nth,
                      eop |-> tx_data'.eop]
      BY <2>5 DEF TxWords
    <3>2. tx_data'.eop = FALSE
      BY Zenon, <2>4, <2>5 DEF TxWords
    <3>3. QED
      BY Zenon, <3>1, <3>2, <2>3 DEF Word
  <2>7. QED
    BY <1>2, <2>1, <2>4, <2>6
<1>6. Inside'
  BY <1>1, <1>5 DEF Inside
<1>7. InfoMatches'
  <2>1. Entries' = Entries
    BY <1>1, <1>4 DEF Entries
  <2>2. QED
    BY <1>1, <1>5, <2>1 DEF IInv, InfoMatches
<1>8. Orderly
  BY <1>1, <1>5 DEF Orderly
<1>9. QED
  BY <1>2, <1>3, <1>6, <1>7, <1>8 DEF IInv

(* Inside a packet: one word after another up to the last.                 *)
LEMMA SendPktStep == IInv /\ SendPkt => IInv' /\ Orderly
<1> SUFFICES ASSUME IInv, SendPkt PROVE IInv' /\ Orderly
  OBVIOUS
<1>1. /\ state = "SEND_PKT" /\ ReadFifo
      /\ state' \in {"SEND_PKT", "IDLE", "IFG"}
      /\ UNCHANGED <<speed, axi, info_fifo_wr_en, stalled, info>>
  BY DEF SendPkt, axiVars
<1>2. /\ Types' /\ Chain'
      /\ tx_fifo # << >> =>
           /\ tx_data' = tx_fifo[1] /\ tx_data' \in TxWords
           /\ Follows(tx_data, tx_data'.id, tx_data'.nth)
           /\ tx_data'.eop => tx_data'.nth # 1
           /\ tx_data'.eop => Eops' = Eops - 1
           /\ ~tx_data'.eop => Eops' = Eops
  BY <1>1, ReadStep
<1>3. Flags' /\ Master' /\ Delay'
  BY Zenon, <1>1 DEF IInv, Flags, Master, Delay
<1>4. InHand = 1
  BY <1>1 DEF InHand
<1>5. ASSUME ~stalled
      PROVE  /\ tx_fifo # << >>
             /\ tx_data'.eop <=> state' # "SEND_PKT"
  <2>1. tx_fifo # << >>
    BY <1>4, <1>5, NeverDry DEF IInv
  <2>2. tx_data' = Head(tx_fifo)
    BY <2>1, <1>1 DEF ReadFifo
  <2>3. PICK eop_mac \in {Head(tx_fifo).eop} :
          state' = CASE ~eop_mac -> "SEND_PKT"
                     [] eop_mac /\ speed = "10G" -> "IDLE"
                     [] OTHER -> "IFG"
    BY <2>1 DEF SendPkt
  <2>4. tx_data'.eop => state' # "SEND_PKT"
    BY <2>2, <2>3
  <2>5. ~tx_data'.eop => state' = "SEND_PKT"
    BY <2>2, <2>3
  <2>6. QED
    BY <2>1, <2>4, <2>5
<1>6. Inside'
  BY <1>1, <1>5 DEF Inside
<1>7. InfoMatches'
  <2>1. SUFFICES ASSUME ~stalled PROVE Entries' = Eops'
    BY <1>1 DEF InfoMatches
  <2>2. Entries = Eops /\ Entries \in Nat
    BY <2>1, NeverDry DEF IInv, InfoMatches
  <2>3. info \in Nat
    BY SizeAssumption DEF IInv, Types
  <2>4. CASE tx_data'.eop
    <3>1. InHand' = 0
      BY <1>1, <1>5, <2>1, <2>4 DEF InHand
    <3>2. Entries' = Entries - 1
      BY <1>1, <1>4, <2>3, <3>1 DEF Entries
    <3>3. QED
      BY <1>2, <1>5, <2>1, <2>2, <2>4, <3>2
  <2>5. CASE ~tx_data'.eop
    <3>1. InHand' = 1
      BY <1>1, <1>5, <2>1, <2>5 DEF InHand
    <3>2. Entries' = Entries
      BY <1>1, <1>4, <3>1 DEF Entries
    <3>3. QED
      BY <1>2, <1>5, <2>1, <2>2, <2>5, <3>2
  <2>6. QED
    BY <2>4, <2>5
<1>8. Orderly
  <2>1. SUFFICES ASSUME ~stalled PROVE Orderly
    BY DEF Orderly
  <2>2. ~tx_data.eop
    BY <1>1, <2>1 DEF IInv, Inside
  <2>3. tx_data' \in TxWords
    BY <1>2, <1>5, <2>1
  <2>4. tx_data'.id = tx_data.id /\ tx_data'.nth = tx_data.nth + 1
    BY <1>2, <1>5, <2>1, <2>2 DEF Follows
  <2>5. tx_data' = Word(tx_data.id, tx_data.nth + 1, tx_data'.eop)
    <3>1. tx_data' = [id |-> tx_data'.id, nth |-> tx_data'.nth,
                      eop |-> tx_data'.eop]
      BY <2>3 DEF TxWords
    <3>2. QED
      BY Zenon, <3>1, <2>4 DEF Word
  <2>6. QED
    BY <1>1, <1>5, <2>1, <2>5 DEF Orderly
<1>9. QED
  BY <1>2, <1>3, <1>6, <1>7, <1>8 DEF IInv

-----------------------------------------------------------------------------
Masters == [id : Ids, len : {0} \cup Lens, nth : Nat, valid : BOOLEAN]

(* What the master offers next is a word of the packet it is in.           *)
LEMMA OffersAreWords ==
  ASSUME NEW m \in Masters, m.nth >= 1,
         m.nth > 1 => m.len \in Lens /\ m.nth <= m.len,
         NEW n \in Offers(m)
  PROVE  /\ n \in Masters /\ n.id = m.id /\ n.nth = m.nth
         /\ n.valid \/ n.nth > 1 => n.len \in Lens /\ n.nth <= n.len
<1> USE SizeAssumption
<1>1. /\ m = [id |-> m.id, len |-> m.len, nth |-> m.nth, valid |-> m.valid]
      /\ m.id \in Ids /\ m.len \in {0} \cup Lens /\ m.nth \in Nat
  BY DEF Masters
<1>2. CASE m.nth = 1
  <2>1. \/ n = [m EXCEPT !.valid = FALSE]
        \/ \E k \in Lens : n = [m EXCEPT !.valid = TRUE, !.len = k]
    BY <1>2 DEF Offers
  <2>2. CASE n = [m EXCEPT !.valid = FALSE]
    <3>1. n = [id |-> m.id, len |-> m.len, nth |-> m.nth, valid |-> FALSE]
      BY <1>1, <2>2
    <3>2. n \in Masters
      BY Zenon, <1>1, <3>1 DEF Masters
    <3>3. n.id = m.id /\ n.nth = m.nth /\ ~n.valid
      BY <3>1
    <3>4. QED
      BY <1>2, <3>2, <3>3
  <2>3. CASE \E k \in Lens : n = [m EXCEPT !.valid = TRUE, !.len = k]
    <3>1. PICK k \in Lens : n = [m EXCEPT !.valid = TRUE, !.len = k]
      BY <2>3
    <3>2. n = [id |-> m.id, len |-> k, nth |-> m.nth, valid |-> TRUE]
      BY <1>1, <3>1
    <3>3. n \in Masters
      BY Zenon, <1>1, <3>2 DEF Masters
    <3>4. n.id = m.id /\ n.nth = m.nth /\ n.len = k
      BY <3>2
    <3>5. k \in Nat /\ 1 <= k
      OBVIOUS
    <3>6. QED
      BY <1>2, <3>3, <3>4, <3>5
  <2>4. QED
    BY <2>1, <2>2, <2>3
<1>3. CASE m.nth # 1
  <2>1. PICK v \in BOOLEAN : n = [m EXCEPT !.valid = v]
    BY <1>3 DEF Offers
  <2>2. n = [id |-> m.id, len |-> m.len, nth |-> m.nth, valid |-> v]
    BY <1>1, <2>1
  <2>3. n \in Masters
    BY Zenon, <1>1, <2>1, <2>2 DEF Masters
  <2>4. n.id = m.id /\ n.nth = m.nth /\ n.len = m.len
    BY <2>2
  <2>5. QED
    BY <1>1, <1>3, <2>3, <2>4
<1>4. QED
  BY <1>2, <1>3

(* On an edge of the AXI clock the master goes on to the next word when    *)
(* the one it offers is taken, and holds it when it is not.                *)
LEMMA MasterMoves ==
  ASSUME IInv, AxiClk
  PROVE  /\ axi' \in Masters /\ Master'
         /\ axi.valid /\ tready /\ tlast => axi'.id = 1 - axi.id /\ axi'.nth = 1
         /\ axi.valid /\ tready /\ ~tlast =>
              axi'.id = axi.id /\ axi'.nth = axi.nth + 1
         /\ ~(axi.valid /\ tready) => axi'.id = axi.id /\ axi'.nth = axi.nth
<1> USE SizeAssumption
<1>1. axi \in Masters /\ Master
  BY DEF IInv, Types, Masters
<1>2. /\ axi = [id |-> axi.id, len |-> axi.len, nth |-> axi.nth,
                valid |-> axi.valid]
      /\ axi.id \in Ids /\ axi.len \in {0} \cup Lens /\ axi.nth \in Nat
  BY <1>1 DEF Masters
<1>3. CASE axi.valid /\ ~tready
  <2>1. axi' = axi
    BY <1>3 DEF AxiClk
  <2>2. QED
    BY <1>1, <1>3, <2>1 DEF Master
<1>4. CASE axi.valid /\ tready
  <2>1. axi' \in Offers(Taken)
    BY <1>4 DEF AxiClk
  <2>2. CASE tlast
    <3>1. Taken = [id |-> 1 - axi.id, len |-> 0, nth |-> 1, valid |-> FALSE]
      BY <2>2 DEF Taken
    <3>2. 1 - axi.id \in Ids /\ 1 \in Nat
      BY <1>2 DEF Ids
    <3>3. Taken \in Masters
      BY Zenon, <3>1, <3>2 DEF Masters
    <3>4. Taken.nth = 1 /\ Taken.id = 1 - axi.id
      BY <3>1
    <3>5. /\ axi' \in Masters /\ axi'.id = 1 - axi.id /\ axi'.nth = 1
          /\ axi'.valid \/ axi'.nth > 1 =>
               axi'.len \in Lens /\ axi'.nth <= axi'.len
      BY <2>1, <3>3, <3>4, OffersAreWords
    <3>6. QED
      BY <1>4, <2>2, <3>5 DEF Master
  <2>3. CASE ~tlast
    <3>1. Taken = [id |-> axi.id, len |-> axi.len, nth |-> axi.nth + 1,
                   valid |-> axi.valid]
      BY <1>2, <2>3 DEF Taken
    <3>2. /\ axi.nth + 1 \in Nat /\ axi.len \in Lens
          /\ axi.nth + 1 <= axi.len /\ axi.nth >= 1
      BY <1>1, <1>2, <1>4, <2>3 DEF tlast, Master
    <3>3. Taken \in Masters
      <4>1. axi.valid \in BOOLEAN
        BY Zenon, <1>1 DEF Masters
      <4> DEFINE k == axi.nth + 1
      <4>2. k \in Nat /\ Taken = [id |-> axi.id, len |-> axi.len, nth |-> k,
                                  valid |-> axi.valid]
        BY <3>1, <3>2
      <4> HIDE DEF k
      <4>3. QED
        BY Zenon, <1>2, <4>1, <4>2 DEF Masters
    <3>4. /\ Taken.nth = axi.nth + 1 /\ Taken.id = axi.id
          /\ Taken.len = axi.len
      BY <3>1
    <3>5. /\ axi' \in Masters /\ axi'.id = axi.id /\ axi'.nth = axi.nth + 1
          /\ axi'.valid \/ axi'.nth > 1 =>
               axi'.len \in Lens /\ axi'.nth <= axi'.len
      <4>1. Taken.nth >= 1 /\ Taken.len \in Lens /\ Taken.nth <= Taken.len
        BY <1>2, <3>2, <3>4
      <4>2. /\ axi' \in Masters /\ axi'.id = Taken.id /\ axi'.nth = Taken.nth
            /\ axi'.valid \/ axi'.nth > 1 =>
                 axi'.len \in Lens /\ axi'.nth <= axi'.len
        BY <2>1, <3>3, <4>1, OffersAreWords
      <4>3. QED
        BY <3>4, <4>2
    <3>6. QED
      BY <1>2, <1>4, <2>3, <3>2, <3>5 DEF Master
  <2>4. QED
    BY <2>2, <2>3
<1>5. CASE ~axi.valid
  <2>1. axi' \in Offers(axi)
    BY <1>5 DEF AxiClk
  <2>2. axi.nth >= 1 /\ (axi.nth > 1 => axi.len \in Lens /\ axi.nth <= axi.len)
    BY <1>1 DEF Master
  <2>3. /\ axi' \in Masters /\ axi'.id = axi.id /\ axi'.nth = axi.nth
        /\ axi'.valid \/ axi'.nth > 1 =>
             axi'.len \in Lens /\ axi'.nth <= axi'.len
    BY <1>1, <2>1, <2>2, OffersAreWords
  <2>4. QED
    BY <1>5, <2>2, <2>3 DEF Master
<1>6. QED
  BY <1>3, <1>4, <1>5

(* A word taken goes to the end of tx_fifo and keeps the words in order.   *)
LEMMA WriteKeepsChain ==
  ASSUME IInv, AxiClk
  PROVE  /\ Chain' /\ tx_fifo' \in Seq(TxWords)
         /\ Len(tx_fifo') <= DEPTH - ALMOST_FULL_OFFSET
         /\ Eops \in Nat
         /\ axi.valid /\ tready /\ tlast => Eops' = Eops + 1
         /\ ~(axi.valid /\ tready /\ tlast) => Eops' = Eops
<1> USE SizeAssumption
<1>1. /\ tx_fifo \in Seq(TxWords) /\ Len(tx_fifo) \in Nat
      /\ Len(tx_fifo) <= DEPTH - ALMOST_FULL_OFFSET
  BY DEF IInv, Types
<1>2. /\ axi \in Masters /\ axi.id \in Ids /\ axi.nth \in Nat /\ axi.nth >= 1
  BY DEF IInv, Types, Masters, Master
<1>3. Eops = Cardinality(EopsIn(tx_fifo)) /\ Eops \in Nat
  BY <1>1, EopsAreFew DEF Eops, EopsIn
<1>4. UNCHANGED tx_data
  BY DEF AxiClk, macVars
<1>5. CASE axi.valid /\ tready
  <2> DEFINE w == Word(axi.id, axi.nth, tlast)
  <2>1. tx_fifo' = Append(tx_fifo, w)
    BY <1>5 DEF AxiClk
  <2>2. tlast \in BOOLEAN
    BY Zenon DEF tlast
  <2>3. w \in TxWords
    BY Zenon, <1>2, <2>2 DEF Word, TxWords
  <2>4. w.id = axi.id /\ w.nth = axi.nth /\ (w.eop <=> tlast)
    BY DEF Word
  <2>5. tlast => axi.nth # 1
    BY <1>5 DEF tlast, IInv, Master
  <2> HIDE DEF w
  <2>6. /\ tx_fifo' \in Seq(TxWords) /\ Len(tx_fifo') = Len(tx_fifo) + 1
        /\ \A i \in 1 .. Len(tx_fifo) : tx_fifo'[i] = tx_fifo[i]
        /\ tx_fifo'[Len(tx_fifo) + 1] = w
    BY <1>1, <2>1, <2>3
  <2>7. Len(tx_fifo') <= DEPTH - ALMOST_FULL_OFFSET
    BY <1>1, <1>5, <2>6 DEF tready
  <2>8. Eops' = Cardinality(EopsIn(Append(tx_fifo, w)))
    BY <2>1 DEF Eops, EopsIn
  <2>9. /\ tlast => Eops' = Eops + 1
        /\ ~tlast => Eops' = Eops
    BY <1>1, <1>3, <2>3, <2>4, <2>8, EopsAppended
  <2>10. Follows(w, axi'.id, axi'.nth)
    BY <1>5, <2>4, MasterMoves DEF Follows
  <2>11. tx_fifo' # << >>
    BY <1>1, <2>6, EmptyFifo
  <2>12. Follows(tx_data', tx_fifo'[1].id, tx_fifo'[1].nth)
    <3>1. CASE tx_fifo = << >>
      <4>1. tx_fifo'[1] = w
        BY <2>6, <3>1
      <4>2. QED
        BY <1>4, <2>4, <3>1, <4>1 DEF IInv, Chain
    <3>2. CASE tx_fifo # << >>
      <4>1. Len(tx_fifo) # 0
        BY <1>1, <3>2, EmptyFifo
      <4>2. tx_fifo'[1] = tx_fifo[1]
        BY <1>1, <2>6, <4>1
      <4>3. QED
        BY <1>4, <3>2, <4>2 DEF IInv, Chain
    <3>3. QED
      BY <3>1, <3>2
  <2>13. ASSUME NEW i \in 1 .. Len(tx_fifo') - 1
         PROVE  Follows(tx_fifo'[i], tx_fifo'[i + 1].id, tx_fifo'[i + 1].nth)
    <3>1. CASE i = Len(tx_fifo)
      <4>1. tx_fifo'[i] = tx_fifo[Len(tx_fifo)] /\ tx_fifo'[i + 1] = w
        BY <1>1, <2>6, <3>1
      <4>2. tx_fifo # << >>
        BY <1>1, <3>1, EmptyFifo
      <4>3. QED
        BY <2>4, <4>1, <4>2 DEF IInv, Chain
    <3>2. CASE i # Len(tx_fifo)
      <4>1. /\ tx_fifo'[i] = tx_fifo[i] /\ tx_fifo'[i + 1] = tx_fifo[i + 1]
            /\ i \in 1 .. Len(tx_fifo) - 1
        BY <1>1, <2>6, <3>2
      <4>2. QED
        BY <4>1 DEF IInv, Chain
    <3>3. QED
      BY <3>1, <3>2
  <2>14. ASSUME NEW i \in 1 .. Len(tx_fifo')
         PROVE  tx_fifo'[i].eop => tx_fifo'[i].nth # 1
    <3>1. CASE i = Len(tx_fifo) + 1
      BY <2>4, <2>5, <2>6, <3>1
    <3>2. CASE i # Len(tx_fifo) + 1
      <4>1. tx_fifo'[i] = tx_fifo[i] /\ i \in 1 .. Len(tx_fifo)
        BY <1>1, <2>6, <3>2
      <4>2. QED
        BY <4>1 DEF IInv, Chain
    <3>3. QED
      BY <3>1, <3>2
  <2>15. tx_fifo'[Len(tx_fifo')] = w
    BY <2>6
  <2>16. Chain'
    BY <2>10, <2>11, <2>12, <2>13, <2>14, <2>15 DEF Chain
  <2>17. QED
    BY <1>3, <1>5, <2>6, <2>7, <2>9, <2>16
<1>6. CASE ~(axi.valid /\ tready)
  <2>1. tx_fifo' = tx_fifo
    BY <1>6 DEF AxiClk
  <2>2. axi'.id = axi.id /\ axi'.nth = axi.nth
    BY <1>6, MasterMoves
  <2>3. Chain'
    BY <1>4, <2>1, <2>2 DEF IInv, Chain
  <2>4. Eops' = Eops
    BY <2>1 DEF Eops
  <2>5. QED
    BY <1>1, <1>3, <1>6, <2>1, <2>3, <2>4
<1>7. QED
  BY <1>5, <1>6

(* The entry for a packet always finds room in tx_info_fifo.               *)
LEMMA AxiStep == IInv /\ AxiClk => IInv' /\ Orderly
<1> SUFFICES ASSUME IInv, AxiClk PROVE IInv' /\ Orderly
  OBVIOUS
<1> USE SizeAssumption
<1>1. /\ info' = IF winc /\ info < INFO_DEPTH THEN info + 1 ELSE info
      /\ info_fifo_wr_en' = (speed = "10G" /\ tlast)
      /\ stalled' = (stalled \/ (tlast /\ ~tready))
      /\ UNCHANGED <<speed, state, tx_data>>
  BY DEF AxiClk, macVars
<1>2. axi' \in Masters /\ Master'
  BY MasterMoves
<1>3. /\ Chain' /\ tx_fifo' \in Seq(TxWords)
      /\ Len(tx_fifo') <= DEPTH - ALMOST_FULL_OFFSET
      /\ Eops \in Nat
      /\ axi.valid /\ tready /\ tlast => Eops' = Eops + 1
      /\ ~(axi.valid /\ tready /\ tlast) => Eops' = Eops
  BY WriteKeepsChain
<1>4. info \in Nat /\ info <= INFO_DEPTH
  BY DEF IInv, Types
<1>5. Types'
  <2>1. info' \in 0 .. INFO_DEPTH
    BY <1>1, <1>4
  <2>2. QED
    BY Zenon, <1>1, <1>2, <1>3, <2>1 DEF IInv, Types, Masters
<1>6. Flags' /\ Delay'
  BY Zenon, <1>1 DEF Flags, Delay
<1>7. stalled => stalled'
  BY <1>1
<1>8. Inside'
  BY <1>1, <1>7 DEF IInv, Inside
<1>9. Orderly
  BY <1>1 DEF Orderly
<1>10. InfoMatches'
  <2>1. SUFFICES ASSUME ~stalled' PROVE Entries' = Eops'
    BY DEF InfoMatches
  <2>2. ~stalled /\ (tlast => tready)
    BY <1>1, <2>1
  <2>3. Entries = Eops
    BY <2>2 DEF IInv, InfoMatches
  <2>4. tlast => axi.valid
    BY DEF tlast
  <2>5. /\ tlast => Eops' = Eops + 1
        /\ ~tlast => Eops' = Eops
    BY <1>3, <2>2, <2>4
  <2>6. 2 * Eops' <= Len(tx_fifo') + 1 /\ 2 * Eops <= Len(tx_fifo) + 1
    <3>1. tx_fifo \in Seq(TxWords)
      BY DEF IInv, Types
    <3>2. 2 * Cardinality(EopsIn(tx_fifo)) <= Len(tx_fifo) + 1
      BY <3>1, EopsHalf DEF IInv, Chain
    <3>3. 2 * Cardinality(EopsIn(tx_fifo')) <= Len(tx_fifo') + 1
      BY <1>3, EopsHalf DEF Chain
    <3>4. QED
      BY <3>2, <3>3 DEF Eops, EopsIn
  <2>7. Eops' <= INFO_DEPTH /\ Eops <= INFO_DEPTH
    <3>1. /\ Len(tx_fifo) \in Nat /\ Len(tx_fifo') \in Nat
          /\ Len(tx_fifo) <= DEPTH - ALMOST_FULL_OFFSET
      BY <1>3 DEF IInv, Types
    <3>2. Eops' \in Nat
      BY <1>3, <2>5
    <3>3. QED
      BY <1>3, <2>6, <3>1, <3>2, InfoAssumption
  <2>8. InHand \in {0, 1} /\ InHand' = InHand
    BY <1>1 DEF InHand
  <2>9. speed = "10G" \/ speed = "1G"
    BY DEF IInv, Types
  <2>10. CASE speed = "10G"
    <3>1. info_fifo_wr_en' <=> tlast
      BY <1>1, <2>10
    <3>2. info_fifo_wr_en => info < INFO_DEPTH
      BY <1>4, <2>3, <2>7, <2>8 DEF Entries
    <3>3. /\ info_fifo_wr_en => info' = info + 1
          /\ ~info_fifo_wr_en => info' = info
      BY <1>1, <2>10, <3>2 DEF winc
    <3>4. /\ tlast => Entries' = Entries + 1
          /\ ~tlast => Entries' = Entries
      BY <1>4, <2>8, <3>1, <3>3 DEF Entries
    <3>5. QED
      BY <2>3, <2>5, <3>4
  <2>11. CASE speed = "1G"
    <3>1. ~info_fifo_wr_en /\ ~info_fifo_wr_en'
      BY <1>1, <2>11 DEF IInv, Delay
    <3>2. tlast => info < INFO_DEPTH
      BY <1>3, <1>4, <2>3, <2>5, <2>7, <2>8, <3>1 DEF Entries
    <3>3. /\ tlast => info' = info + 1
          /\ ~tlast => info' = info
      BY <1>1, <2>11, <3>2 DEF winc
    <3>4. /\ tlast => Entries' = Entries + 1
          /\ ~tlast => Entries' = Entries
      BY <1>4, <2>8, <3>1, <3>3 DEF Entries
    <3>5. QED
      BY <2>3, <2>5, <3>4
  <2>12. QED
    BY <2>9, <2>10, <2>11
<1>11. QED
  BY <1>2, <1>3, <1>5, <1>6, <1>8, <1>9, <1>10 DEF IInv

(* Each step of either clock keeps the invariant and the order of words.   *)
LEMMA NextStep == IInv /\ [Next]_vars => IInv' /\ (Orderly \/ UNCHANGED vars)
<1> SUFFICES ASSUME IInv, [Next]_vars
             PROVE  IInv' /\ (Orderly \/ UNCHANGED vars)
  OBVIOUS
<1>1. CASE AxiClk
  BY <1>1, AxiStep
<1>2. CASE MacClk
  BY <1>2, StartStep, AckedStep, SendPktStep, GapStep DEF MacClk
<1>3. CASE UNCHANGED vars
  <2>1. UNCHANGED <<speed, axi, info_fifo_wr_en, stalled, tx_fifo, info,
                    state, tx_data>>
    BY <1>3 DEF vars, axiVars, macVars
  <2>2. Types' /\ Flags' /\ Master' /\ Chain' /\ Inside' /\ Delay'
    BY Zenon, <2>1 DEF IInv, Types, Flags, Master, Chain, Inside, Delay
  <2>3. InfoMatches'
    BY Zenon, <2>1 DEF IInv, InfoMatches, Entries, InHand, Eops
  <2>4. QED
    BY <1>3, <2>2, <2>3 DEF IInv
<1>4. QED
  BY <1>1, <1>2, <1>3 DEF Next

(* The inductive invariant holds.                                          *)
THEOREM IInvHolds == Spec => []IInv
<1>1. IInv /\ [Next]_vars => IInv'
  BY NextStep
<1>2. QED
  BY InitInv, <1>1, PTL DEF Spec

(* Whatever the clocks do, the FIFOs keep their types and bounds, and      *)
(* until the last word of a packet meets a full tx_fifo there is exactly   *)
(* one entry for each complete packet and the MAC never runs dry inside    *)
(* one (EntriesSound).                                                     *)
THEOREM EntriesAreSound == Spec => []EntriesSound
<1>1. IInv => EntriesSound
  <2>1. SUFFICES ASSUME IInv PROVE EntriesSound
    OBVIOUS
  <2>2. TypeOK
    <3>1. Range(tx_fifo) \subseteq [id : Ids, nth : Nat, eop : BOOLEAN]
      <4>1. \A i \in DOMAIN tx_fifo : tx_fifo[i] \in TxWords
        BY <2>1 DEF IInv, Types
      <4>2. QED
        BY Zenon, <4>1 DEF Range, TxWords
    <3>2. QED
      BY Zenon, <2>1, <3>1 DEF IInv, Types, Flags, TypeOK, TxWords
  <2>3. WholePacketWaits
    BY <2>1, NeverDry DEF IInv, WholePacketWaits
  <2>4. QED
    BY <2>1, <2>2, <2>3 DEF IInv, EntriesSound
<1>2. QED
  BY IInvHolds, <1>1, PTL

(* Until the last word of a packet meets a full tx_fifo, the MAC is given  *)
(* the words of one packet after another, each packet from its first word  *)
(* to its last and none left out (PacketsInOrder).                         *)
THEOREM PacketsAreInOrder == Spec => PacketsInOrder
<1>1. IInv /\ [Next]_vars => [Orderly]_vars
  BY NextStep
<1>2. Spec => [][Orderly]_vars
  BY IInvHolds, <1>1, PTL DEF Spec
<1>3. QED
  BY <1>2 DEF PacketsInOrder, Orderly

-----------------------------------------------------------------------------
(* tx_info_fifo is a small_async_fifo (AsyncFifo), a component of its own  *)
(* with its own variables.  Its proofs follow: for every depth, and for    *)
(* every interleaving and coincidence of the edges of its two clocks.      *)

(* Upwards, the other way: from m down to 0.                               *)
LEMMA DownFrom ==
  ASSUME NEW m \in Nat, NEW S, m \in S,
         \A n \in 0 .. m - 1 : n + 1 \in S => n \in S
  PROVE  \A n \in 0 .. m : n \in S
<1> DEFINE U == {k \in 0 .. m : m - k \in S}
<1>1. 0 \in U
  OBVIOUS
<1>2. ASSUME NEW k \in 0 .. m - 1, k \in U PROVE k + 1 \in U
  <2>1. m - k - 1 \in 0 .. m - 1 /\ (m - k - 1) + 1 = m - k
    OBVIOUS
  <2>2. m - k \in S
    BY <1>2
  <2>3. m - k - 1 \in S
    BY <2>1, <2>2
  <2>4. m - (k + 1) = m - k - 1
    OBVIOUS
  <2>5. QED
    BY <2>3, <2>4
<1> HIDE DEF U
<1>3. \A k \in 0 .. m : k \in U
  BY <1>1, <1>2, Upwards
<1>4. SUFFICES ASSUME NEW n \in 0 .. m PROVE n \in S
  OBVIOUS
<1>5. m - n \in 0 .. m /\ m - (m - n) = n
  OBVIOUS
<1>6. m - n \in U
  BY <1>3, <1>5
<1>7. QED
  BY <1>5, <1>6 DEF U

-----------------------------------------------------------------------------
(* Powers of two, and quotients by them.                                   *)

(* The powers up to the span of the pointers are positive numbers.         *)
LEMMA Powers ==
  ASSUME Sizes
  PROVE  /\ \A i \in 0 .. ASIZE + 1 : 2^i \in Nat \ {0}
         /\ Depth \in Nat \ {0} /\ Span = 2 * Depth
<1>1. /\ ASIZE \in Nat \ {0, 1} /\ 2^0 = 1
      /\ \A i \in 0 .. ASIZE : 2^(i + 1) = 2 * 2^i
  BY DEF Sizes
<1> DEFINE S == {i \in Nat : 2^i \in Nat \ {0}}
<1>2. 0 \in S
  BY <1>1
<1>3. ASSUME NEW i \in 0 .. (ASIZE + 1) - 1, i \in S PROVE i + 1 \in S
  <2>1. 2^(i + 1) = 2 * 2^i
    BY <1>1
  <2>2. 2^i \in Nat \ {0}
    BY <1>3
  <2>3. QED
    BY <2>1, <2>2
<1>4. \A i \in 0 .. ASIZE + 1 : i \in S
  <2> HIDE DEF S
  <2>1. ASIZE + 1 \in Nat
    BY <1>1
  <2>2. QED
    BY <1>2, <1>3, <2>1, Upwards
<1>5. /\ 2^ASIZE \in Nat \ {0} /\ 2^(ASIZE + 1) = 2 * 2^ASIZE
  BY <1>1, <1>4
<1>6. QED
  BY <1>4, <1>5 DEF Depth, Span

(* Quotients are unique.                                                   *)
LEMMA OneQuotient ==
  ASSUME NEW S \in Nat \ {0}, NEW q \in Int, NEW r \in 0 .. S - 1
  PROVE  (q * S + r) \div S = q
<1> DEFINE a == q * S + r
           p == a \div S
           t == a % S
<1>1. a \in Int /\ p \in Int /\ t \in 0 .. S - 1 /\ a = p * S + t
  OBVIOUS
<1>2. q * S + r = p * S + t
  BY <1>1
<1> HIDE DEF p, t
<1>3. r = t
  BY <1>1, <1>2, OneRemainder
<1>4. (q - p) * S = 0
  BY <1>1, <1>2, <1>3
<1>5. q - p = 0
  BY <1>1, <1>4
<1>6. QED
  BY <1>1, <1>5 DEF p

(* The number n without its last i bits.                                   *)
Upper(n, i) == n \div 2^i

(* Taking away one more bit halves.                                        *)
LEMMA Halves ==
  ASSUME Sizes, NEW n \in Nat, NEW i \in 0 .. ASIZE
  PROVE  /\ Upper(n, i) \in Nat /\ Upper(n, i + 1) \in Nat
         /\ Upper(n, i + 1) = Upper(n, i) \div 2
<1> DEFINE p == 2^i
           q == n \div p
           k == q \div 2
           c == q % 2
           r == n % p
<1>1. p \in Nat \ {0} /\ 2^(i + 1) = 2 * p
  BY Powers DEF Sizes
<1> HIDE DEF p
<1>2. q \in Nat /\ r \in 0 .. p - 1 /\ n = q * p + r
  BY <1>1
<1> HIDE DEF q, r
<1>3. k \in Nat /\ c \in {0, 1} /\ q = 2 * k + c
  BY <1>2
<1> HIDE DEF k, c
<1>4. c * p + r \in 0 .. 2 * p - 1
  <2>1. CASE c = 0
    BY <1>1, <1>2, <2>1
  <2>2. CASE c = 1
    BY <1>1, <1>2, <2>2
  <2>3. QED
    BY <1>3, <2>1, <2>2
<1>5. n = k * (2 * p) + (c * p + r)
  BY <1>1, <1>2, <1>3, <1>4
<1>6. 2 * p \in Nat \ {0} /\ k \in Int
  BY <1>1, <1>3
<1>7. n \div (2 * p) = k
  BY <1>4, <1>5, <1>6, OneQuotient
<1>8. Upper(n, i) = q /\ Upper(n, i + 1) = k
  BY <1>1, <1>7 DEF Upper, p, q
<1>9. QED
  BY <1>2, <1>3, <1>8 DEF k

(* Before the first bit is taken away, and after the last one.             *)
LEMMA UpperEnds ==
  ASSUME Sizes, NEW n \in 0 .. Span - 1
  PROVE  Upper(n, 0) = n /\ Upper(n, ASIZE + 1) = 0
<1>1. 2^0 = 1 /\ 2^(ASIZE + 1) = Span /\ Span \in Nat \ {0}
  BY Powers DEF Sizes, Span
<1>2. n \div 1 = n /\ n \in Nat
  BY <1>1
<1>3. n = 0 * Span + n /\ 0 \in Int
  BY <1>1
<1>4. n \div Span = 0
  BY <1>1, <1>3, OneQuotient
<1>5. QED
  BY <1>1, <1>2, <1>4 DEF Upper

(* A bit of a number is whether what it ends is odd.                       *)
Odd(n, i) == Upper(n, i) % 2 = 1

(* The Gray code of a pointer: one word of bits, each the difference of    *)
(* two neighbouring bits.                                                  *)
LEMMA GrayBits ==
  ASSUME Sizes, NEW n \in 0 .. Span - 1
  PROVE  /\ Gray[n] \in Words
         /\ \A i \in 0 .. ASIZE :
              Gray[n][i] = (Odd(n, i) # Odd(n, i + 1))
BY Zenon DEF Gray, Words, Bits, Bit, Odd, Upper

(* Pointers with the same Gray code are equal.                             *)
LEMMA GrayInjective ==
  ASSUME Sizes, NEW n \in 0 .. Span - 1, NEW m \in 0 .. Span - 1,
         Gray[n] = Gray[m]
  PROVE  n = m
<1> DEFINE S == {i \in Nat : Upper(n, i) = Upper(m, i)}
<1>0. ASIZE \in Nat /\ ASIZE + 1 \in Nat /\ n \in Nat /\ m \in Nat
  BY Powers DEF Sizes
<1>1. ASIZE + 1 \in S
  BY <1>0, UpperEnds
<1>2. ASSUME NEW i \in 0 .. (ASIZE + 1) - 1, i + 1 \in S PROVE i \in S
  <2>1. i \in 0 .. ASIZE
    BY <1>0
  <2>2. /\ Upper(n, i) \in Nat /\ Upper(m, i) \in Nat
        /\ Upper(n, i + 1) = Upper(n, i) \div 2
        /\ Upper(m, i + 1) = Upper(m, i) \div 2
    BY <1>0, <2>1, Halves
  <2>3. Upper(n, i + 1) = Upper(m, i + 1)
    BY <1>2
  <2>4. (Odd(n, i) # Odd(n, i + 1)) = (Odd(m, i) # Odd(m, i + 1))
    BY Zenon, <2>1, GrayBits
  <2>5. Odd(n, i + 1) = Odd(m, i + 1)
    BY Zenon, <2>3 DEF Odd
  <2>6. Odd(n, i) <=> Odd(m, i)
    BY Zenon, <2>4, <2>5 DEF Odd
  <2>7. Upper(n, i) % 2 = 1 <=> Upper(m, i) % 2 = 1
    BY Zenon, <2>6 DEF Odd
  <2>8. Upper(n, i) = Upper(m, i)
    BY <2>2, <2>3, <2>7
  <2>9. QED
    BY <2>1, <2>8
<1>3. \A i \in 0 .. ASIZE + 1 : i \in S
  <2> HIDE DEF S
  <2>1. QED
    BY <1>0, <1>1, <1>2, DownFrom
<1>4. Upper(n, 0) = Upper(m, 0)
  BY <1>0, <1>3
<1>5. QED
  BY <1>4, UpperEnds

(* What a flip-flop makes of two words that differ in at most one bit is   *)
(* one of the two.                                                         *)
LEMMA OneBitApart ==
  ASSUME NEW old \in Words, NEW new \in Words, NEW k,
         \A i \in Bits : i # k => old[i] = new[i],
         NEW g \in Sampled(old, new)
  PROVE  g = old \/ g = new
<1>1. g \in Words /\ \A i \in Bits : g[i] = old[i] \/ g[i] = new[i]
  BY DEF Sampled
<1>2. \A i \in Bits : i # k => g[i] = old[i] /\ g[i] = new[i]
  BY Zenon, <1>1
<1>3. CASE k \notin Bits \/ g[k] = old[k]
  <2>1. \A i \in Bits : g[i] = old[i]
    BY Zenon, <1>2, <1>3
  <2>2. g = old
    BY <1>1, <2>1 DEF Words
  <2>3. QED
    BY Zenon, <2>2
<1>4. CASE k \in Bits /\ g[k] = new[k]
  <2>1. \A i \in Bits : g[i] = new[i]
    BY Zenon, <1>2, <1>4
  <2>2. g = new
    BY <1>1, <2>1 DEF Words
  <2>3. QED
    BY Zenon, <2>2
<1>5. QED
  BY Zenon, <1>1, <1>3, <1>4

(* Adding one carries into upper bits up to some place and no further.     *)
LEMMA Carry ==
  ASSUME Sizes, NEW n \in Nat
  PROVE  \A i \in 0 .. ASIZE + 1 : Upper(n + 1, i) - Upper(n, i) \in {0, 1}
<1> DEFINE S == {i \in Nat : Upper(n + 1, i) - Upper(n, i) \in {0, 1}}
<1>0. ASIZE \in Nat /\ ASIZE + 1 \in Nat /\ n + 1 \in Nat
  BY DEF Sizes
<1>1. 0 \in S
  <2>1. 2^0 = 1 /\ n \div 1 = n /\ (n + 1) \div 1 = n + 1
    BY DEF Sizes
  <2>2. QED
    BY <2>1 DEF Upper
<1>2. ASSUME NEW i \in 0 .. (ASIZE + 1) - 1, i \in S PROVE i + 1 \in S
  <2>1. i \in 0 .. ASIZE
    BY <1>0
  <2>2. /\ Upper(n, i) \in Nat /\ Upper(n + 1, i) \in Nat
        /\ Upper(n, i + 1) = Upper(n, i) \div 2
        /\ Upper(n + 1, i + 1) = Upper(n + 1, i) \div 2
    BY <1>0, <2>1, Halves
  <2>3. Upper(n + 1, i) - Upper(n, i) \in {0, 1}
    BY <1>2
  <2>4. Upper(n + 1, i + 1) - Upper(n, i + 1) \in {0, 1}
    BY <2>2, <2>3
  <2>5. QED
    BY <2>4
<1>3. \A i \in 0 .. ASIZE + 1 : i \in S
  <2> HIDE DEF S
  <2>1. QED
    BY <1>0, <1>1, <1>2, Upwards
<1>4. QED
  BY <1>3

(* Where the carry ends, and only there, the Gray code changes.            *)
LEMMA CarryEnds ==
  ASSUME Sizes, NEW n \in 0 .. Span - 2, NEW i \in 0 .. ASIZE,
         Gray[n][i] # Gray[n + 1][i]
  PROVE  Upper(n + 1, i) # Upper(n, i) /\ Upper(n + 1, i + 1) = Upper(n, i + 1)
<1>0. n \in Nat /\ n + 1 \in Nat /\ n \in 0 .. Span - 1
      /\ n + 1 \in 0 .. Span - 1 /\ ASIZE \in Nat
  BY Powers DEF Sizes
<1>1. /\ Upper(n, i) \in Nat /\ Upper(n + 1, i) \in Nat
      /\ Upper(n, i + 1) = Upper(n, i) \div 2
      /\ Upper(n + 1, i + 1) = Upper(n + 1, i) \div 2
  BY <1>0, Halves
<1>2. /\ Upper(n + 1, i) - Upper(n, i) \in {0, 1}
      /\ Upper(n + 1, i + 1) - Upper(n, i + 1) \in {0, 1}
  BY <1>0, Carry
<1>3. (Odd(n, i) # Odd(n, i + 1)) # (Odd(n + 1, i) # Odd(n + 1, i + 1))
  BY Zenon, <1>0, GrayBits
<1>4. CASE Upper(n + 1, i) = Upper(n, i)
  <2>1. Upper(n + 1, i + 1) = Upper(n, i + 1)
    BY <1>1, <1>4
  <2>2. QED
    BY Zenon, <1>3, <1>4, <2>1 DEF Odd
<1>5. CASE /\ Upper(n + 1, i) = Upper(n, i) + 1
           /\ Upper(n + 1, i + 1) = Upper(n, i + 1) + 1
  <2>1. /\ Upper(n + 1, i) % 2 = 1 <=> ~(Upper(n, i) % 2 = 1)
        /\ Upper(n + 1, i + 1) % 2 = 1 <=> ~(Upper(n, i + 1) % 2 = 1)
    BY <1>1, <1>5
  <2>2. /\ Odd(n + 1, i) <=> ~Odd(n, i)
        /\ Odd(n + 1, i + 1) <=> ~Odd(n, i + 1)
    BY Zenon, <2>1 DEF Odd
  <2>3. QED
    BY Zenon, <1>3, <2>2 DEF Odd
<1>6. CASE /\ Upper(n + 1, i) = Upper(n, i) + 1
           /\ Upper(n + 1, i + 1) = Upper(n, i + 1)
  BY <1>1, <1>6
<1>7. /\ Upper(n + 1, i) = Upper(n, i) \/ Upper(n + 1, i) = Upper(n, i) + 1
      /\ \/ Upper(n + 1, i + 1) = Upper(n, i + 1)
         \/ Upper(n + 1, i + 1) = Upper(n, i + 1) + 1
  <2>1. Upper(n, i + 1) \in Nat /\ Upper(n + 1, i + 1) \in Nat
    BY <1>0, Halves
  <2>2. QED
    BY <1>1, <1>2, <2>1
<1>8. QED
  BY Zenon, <1>4, <1>5, <1>6, <1>7

(* Once it has ended it does not begin again.                              *)
LEMMA CarryStays ==
  ASSUME Sizes, NEW n \in Nat, NEW m \in Nat, NEW k \in 0 .. ASIZE,
         Upper(n, k + 1) = Upper(m, k + 1)
  PROVE  \A i \in 0 .. ASIZE : i > k => Upper(n, i) = Upper(m, i)
<1> DEFINE S == {i \in Nat : i > k => Upper(n, i) = Upper(m, i)}
<1>0. ASIZE \in Nat /\ k \in Nat
  BY DEF Sizes
<1>1. 0 \in S
  BY <1>0
<1>2. ASSUME NEW i \in 0 .. ASIZE - 1, i \in S PROVE i + 1 \in S
  <2>1. i \in 0 .. ASIZE
    BY <1>0
  <2>2. /\ Upper(n, i + 1) = Upper(n, i) \div 2
        /\ Upper(m, i + 1) = Upper(m, i) \div 2
    BY <2>1, Halves
  <2>3. CASE i = k
    BY <2>3
  <2>4. CASE i > k
    BY <1>2, <2>2, <2>4
  <2>5. CASE i < k
    BY <1>0, <2>5
  <2>6. QED
    BY <1>0, <2>3, <2>4, <2>5
<1>3. \A i \in 0 .. ASIZE : i \in S
  <2> HIDE DEF S
  <2>1. QED
    BY <1>0, <1>1, <1>2, Upwards
<1>4. QED
  BY <1>3

(* So the codes of a number and the next differ in at most one bit.        *)
LEMMA GrayNext ==
  ASSUME Sizes, NEW n \in 0 .. Span - 2
  PROVE  \E k : \A i \in 0 .. ASIZE :
           i # k => Gray[n][i] = Gray[n + 1][i]
<1>0. n \in Nat /\ n + 1 \in Nat /\ ASIZE \in Nat
  BY DEF Sizes
<1>1. CASE \A i \in 0 .. ASIZE : Gray[n][i] = Gray[n + 1][i]
  BY Zenon, <1>1
<1>2. ASSUME NEW k \in 0 .. ASIZE, Gray[n][k] # Gray[n + 1][k]
      PROVE  \A i \in 0 .. ASIZE :
               i # k => Gray[n][i] = Gray[n + 1][i]
  <2>1. SUFFICES ASSUME NEW i \in 0 .. ASIZE, i # k,
                        Gray[n][i] # Gray[n + 1][i]
                 PROVE  FALSE
    BY Zenon
  <2>2. /\ Upper(n + 1, k) # Upper(n, k)
        /\ Upper(n + 1, k + 1) = Upper(n, k + 1)
    BY Zenon, <1>2, CarryEnds
  <2>3. /\ Upper(n + 1, i) # Upper(n, i)
        /\ Upper(n + 1, i + 1) = Upper(n, i + 1)
    BY Zenon, <2>1, CarryEnds
  <2>4. CASE i > k
    BY <1>0, <2>2, <2>3, <2>4, CarryStays
  <2>5. CASE k > i
    BY <1>0, <2>2, <2>3, <2>5, CarryStays
  <2>6. QED
    BY <2>1, <2>4, <2>5
<1>3. QED
  BY Zenon, <1>1, <1>2

(* The largest pointer has all its bits set.                               *)
LEMMA AllOnes ==
  ASSUME Sizes
  PROVE  \A i \in 0 .. ASIZE + 1 :
           Upper(Span - 1, i) = 2^((ASIZE + 1) - i) - 1
<1> DEFINE n == Span - 1
           S == {i \in Nat : Upper(n, i) = 2^((ASIZE + 1) - i) - 1}
<1>0. /\ ASIZE \in Nat /\ ASIZE + 1 \in Nat /\ n \in 0 .. Span - 1
      /\ n \in Nat /\ (ASIZE + 1) - 0 = ASIZE + 1
  BY Powers DEF Sizes
<1>1. 0 \in S
  <2>1. Upper(n, 0) = n
    BY <1>0, UpperEnds
  <2>2. QED
    BY <1>0, <2>1 DEF Span
<1> HIDE DEF n
<1>2. ASSUME NEW i \in 0 .. (ASIZE + 1) - 1, i \in S PROVE i + 1 \in S
  <2> DEFINE x == 2^(ASIZE - i)
  <2>1. /\ i \in 0 .. ASIZE /\ ASIZE - i \in 0 .. ASIZE
        /\ ASIZE - i \in 0 .. ASIZE + 1
        /\ (ASIZE + 1) - i = (ASIZE - i) + 1
        /\ (ASIZE + 1) - (i + 1) = ASIZE - i
    BY <1>0
  <2>2. x \in Nat \ {0} /\ 2^((ASIZE + 1) - i) = 2 * x
    BY <2>1, Powers DEF Sizes
  <2>3. Upper(n, i + 1) = Upper(n, i) \div 2
    BY <1>0, <2>1, Halves
  <2> HIDE DEF x
  <2>4. Upper(n, i) = 2 * x - 1
    BY <1>2, <2>2
  <2>5. Upper(n, i + 1) = x - 1
    BY <2>2, <2>3, <2>4
  <2>6. QED
    BY <2>1, <2>5 DEF x
<1>3. \A i \in 0 .. ASIZE + 1 : i \in S
  <2> HIDE DEF S
  <2>1. QED
    BY <1>0, <1>1, <1>2, Upwards
<1>4. QED
  BY <1>3 DEF n

(* Zero has none.                                                          *)
LEMMA NoOnes ==
  ASSUME Sizes, NEW i \in 0 .. ASIZE + 1
  PROVE  Upper(0, i) = 0
<1>1. 2^i \in Nat \ {0}
  BY Powers
<1>2. 0 = 0 * 2^i + 0 /\ 0 \in Int /\ 0 \in 0 .. 2^i - 1
  BY <1>1
<1>3. QED
  BY <1>1, <1>2, OneQuotient DEF Upper

(* The codes of the largest pointer and of zero differ in the last bit.    *)
LEMMA GrayLast ==
  ASSUME Sizes
  PROVE  \A i \in 0 .. ASIZE :
           i # ASIZE => Gray[Span - 1][i] = Gray[0][i]
<1>1. SUFFICES ASSUME NEW i \in 0 .. ASIZE, i # ASIZE
               PROVE  Gray[Span - 1][i] = Gray[0][i]
  OBVIOUS
<1> DEFINE n == Span - 1
           x == 2^(ASIZE - i)
           y == 2^(ASIZE - (i + 1))
<1>2. /\ ASIZE \in Nat /\ 0 \in 0 .. Span - 1 /\ n \in 0 .. Span - 1
      /\ i \in 0 .. ASIZE + 1 /\ i + 1 \in 0 .. ASIZE + 1
  BY <1>1, Powers DEF Sizes
<1>3. /\ ASIZE - i \in 0 .. ASIZE /\ ASIZE - (i + 1) \in 0 .. ASIZE
      /\ ASIZE - i \in 0 .. ASIZE + 1 /\ ASIZE - (i + 1) \in 0 .. ASIZE + 1
      /\ (ASIZE + 1) - i = (ASIZE - i) + 1
      /\ (ASIZE + 1) - (i + 1) = (ASIZE - (i + 1)) + 1
  BY <1>1, <1>2
<1>4. /\ x \in Nat \ {0} /\ 2^((ASIZE + 1) - i) = 2 * x
      /\ y \in Nat \ {0} /\ 2^((ASIZE + 1) - (i + 1)) = 2 * y
  BY <1>3, Powers DEF Sizes
<1>5. Upper(n, i) = 2 * x - 1 /\ Upper(n, i + 1) = 2 * y - 1
  BY <1>2, <1>4, AllOnes
<1>6. Upper(0, i) = 0 /\ Upper(0, i + 1) = 0
  BY <1>2, NoOnes
<1> HIDE DEF n, x, y
<1>7. /\ Upper(n, i) % 2 = 1 /\ Upper(n, i + 1) % 2 = 1
      /\ ~(Upper(0, i) % 2 = 1) /\ ~(Upper(0, i + 1) % 2 = 1)
  BY <1>4, <1>5, <1>6
<1>8. (Odd(n, i) # Odd(n, i + 1)) = (Odd(0, i) # Odd(0, i + 1))
  BY Zenon, <1>7 DEF Odd
<1>9. QED
  BY Zenon, <1>1, <1>2, <1>8, GrayBits DEF n

(* A pointer that is sampled while it is incremented is seen as it was     *)
(* before or as it is after, and as nothing else.                          *)
LEMMA SampledNext ==
  ASSUME Sizes, NEW n \in 0 .. Span - 1,
         NEW g \in Sampled(Gray[n], Gray[(n + 1) % Span])
  PROVE  g = Gray[n] \/ g = Gray[(n + 1) % Span]
<1> DEFINE m == (n + 1) % Span
<1>1. Span \in Nat \ {0} /\ 0 .. ASIZE = Bits
  BY Powers DEF Bits
<1>2. m = (IF n = Span - 1 THEN 0 ELSE n + 1) /\ m \in 0 .. Span - 1
  <2>1. CASE n = Span - 1
    <3>1. /\ 0 \in 0 .. Span - 1 /\ 1 \in Int /\ n + 1 \in Int
          /\ n + 1 = 1 * Span + 0
      BY <1>1, <2>1
    <3>2. m = 0
      BY Zenon, <1>1, <3>1, Wrapped
    <3>3. QED
      BY <2>1, <3>1, <3>2
  <2>2. CASE n # Span - 1
    <3>1. n + 1 \in 0 .. Span - 1
      BY <1>1, <2>2
    <3>2. m = n + 1
      BY Zenon, <1>1, <3>1, Small
    <3>3. QED
      BY <2>2, <3>1, <3>2
  <2>3. QED
    BY <2>1, <2>2
<1>3. Gray[n] \in Words /\ Gray[m] \in Words
  BY Zenon, <1>2, GrayBits
<1>4. \E k : \A i \in Bits : i # k => Gray[n][i] = Gray[m][i]
  <2>1. CASE n = Span - 1
    <3>1. m = 0
      BY Zenon, <1>2, <2>1
    <3>2. QED
      BY Zenon, <1>1, <2>1, <3>1, GrayLast
  <2>2. CASE n # Span - 1
    <3>1. m = n + 1
      BY Zenon, <1>2, <2>2
    <3>2. n \in 0 .. Span - 2
      BY <1>1, <2>2
    <3>3. \E k : \A i \in 0 .. ASIZE :
            i # k => Gray[n][i] = Gray[n + 1][i]
      BY Zenon, <3>2, GrayNext
    <3> HIDE DEF m
    <3>4. QED
      BY Zenon, <1>1, <3>1, <3>3
  <2>3. QED
    BY Zenon, <2>1, <2>2
<1> HIDE DEF m
<1>5. PICK k : \A i \in Bits : i # k => Gray[n][i] = Gray[m][i]
  BY Zenon, <1>4
<1>6. g \in Sampled(Gray[n], Gray[m])
  BY Zenon DEF m
<1>7. g = Gray[n] \/ g = Gray[m]
  BY Zenon, <1>3, <1>5, <1>6, OneBitApart
<1>8. QED
  BY Zenon, <1>7 DEF m

(* The parity of the Gray code from bit i on is bit i of the pointer.      *)
LEMMA Parity ==
  ASSUME Sizes, NEW n \in 0 .. Span - 1
  PROVE  \A i \in 0 .. ASIZE :
           Cardinality({j \in i .. ASIZE : Gray[n][j]}) % 2 = 1 <=> Odd(n, i)
<1> DEFINE From(i) == {j \in i .. ASIZE : Gray[n][j]}
           S == {i \in Nat : /\ IsFiniteSet(From(i))
                             /\ Cardinality(From(i)) % 2 = 1 <=> Odd(n, i)}
<1>0. ASIZE \in Nat /\ ASIZE + 1 \in Nat /\ n \in Nat
  BY Powers DEF Sizes
<1>1. ASIZE + 1 \in S
  <2>1. From(ASIZE + 1) = {}
    BY <1>0
  <2>2. IsFiniteSet({}) /\ Cardinality({}) = 0
    BY FS_EmptySet
  <2>3. ~(0 % 2 = 1)
    OBVIOUS
  <2>4. ~Odd(n, ASIZE + 1)
    BY <2>3, UpperEnds DEF Odd
  <2> HIDE DEF From
  <2>5. QED
    BY Zenon, <1>0, <2>1, <2>2, <2>3, <2>4
<1>2. ASSUME NEW i \in 0 .. (ASIZE + 1) - 1, i + 1 \in S PROVE i \in S
  <2>1. i \in 0 .. ASIZE /\ i \in Nat
    BY <1>0
  <2>2. Gray[n][i] = (Odd(n, i) # Odd(n, i + 1))
    BY Zenon, <2>1, GrayBits
  <2>3. /\ IsFiniteSet(From(i + 1))
        /\ Cardinality(From(i + 1)) % 2 = 1 <=> Odd(n, i + 1)
    BY Zenon, <1>2
  <2>4. CASE Gray[n][i]
    <3>1. From(i) = From(i + 1) \cup {i} /\ i \notin From(i + 1)
      BY <1>0, <2>1, <2>4
    <3> HIDE DEF From
    <3>2. /\ IsFiniteSet(From(i)) /\ Cardinality(From(i + 1)) \in Nat
          /\ Cardinality(From(i)) = Cardinality(From(i + 1)) + 1
      BY <2>3, <3>1, FS_AddElement, FS_CardinalityType
    <3>3. Cardinality(From(i)) % 2 = 1 <=> ~(Cardinality(From(i + 1)) % 2 = 1)
      BY <3>2
    <3>4. Odd(n, i) <=> ~Odd(n, i + 1)
      BY Zenon, <2>2, <2>4 DEF Odd
    <3>5. QED
      BY Zenon, <2>1, <2>3, <3>2, <3>3, <3>4
  <2>5. CASE ~Gray[n][i]
    <3>1. From(i) = From(i + 1)
      BY <1>0, <2>1, <2>5
    <3>2. Odd(n, i) <=> Odd(n, i + 1)
      BY Zenon, <2>2, <2>5 DEF Odd
    <3> HIDE DEF From
    <3>3. QED
      BY Zenon, <2>1, <2>3, <3>1, <3>2
  <2>6. QED
    BY Zenon, <2>4, <2>5
<1>3. \A i \in 0 .. ASIZE + 1 : i \in S
  <2> HIDE DEF S
  <2>1. QED
    BY <1>0, <1>1, <1>2, DownFrom
<1>4. \A i \in 0 .. ASIZE : i \in 0 .. ASIZE + 1
  BY <1>0
<1>5. QED
  BY Zenon, <1>3, <1>4

(* Words with equal bits are equal.                                        *)
LEMMA SameWord ==
  ASSUME NEW g \in Words, NEW h \in Words,
         \A i \in Bits : g[i] = h[i]
  PROVE  g = h
BY DEF Words

(* A pointer is determined by its bits.                                    *)
LEMMA BitsDetermine ==
  ASSUME Sizes, NEW n \in 0 .. Span - 1, NEW m \in 0 .. Span - 1,
         \A i \in 0 .. ASIZE : Odd(n, i) <=> Odd(m, i)
  PROVE  n = m
<1>1. Gray[n] \in Words /\ Gray[m] \in Words
  BY Zenon, GrayBits
<1>2. ASIZE \in Nat
  BY DEF Sizes
<1>3. ~Odd(n, ASIZE + 1) /\ ~Odd(m, ASIZE + 1)
  <2>1. ~(0 % 2 = 1)
    OBVIOUS
  <2>2. QED
    BY Zenon, <2>1, UpperEnds DEF Odd
<1>4. ASSUME NEW i \in 0 .. ASIZE PROVE Gray[n][i] = Gray[m][i]
  <2>1. Odd(n, i + 1) <=> Odd(m, i + 1)
    <3>1. i + 1 \in 0 .. ASIZE \/ i + 1 = ASIZE + 1
      BY <1>2
    <3>2. QED
      BY Zenon, <1>3, <3>1
  <2>2. (Odd(n, i) # Odd(n, i + 1)) = (Odd(m, i) # Odd(m, i + 1))
    BY Zenon, <2>1 DEF Odd
  <2>3. QED
    BY Zenon, <2>2, GrayBits
<1>5. Gray[n] = Gray[m]
  <2>1. Bits = 0 .. ASIZE
    BY DEF Bits
  <2>2. \A i \in Bits : Gray[n][i] = Gray[m][i]
    BY Zenon, <1>4, <2>1
  <2>3. QED
    BY Zenon, <1>1, <2>2, SameWord
<1>6. QED
  BY <1>5, GrayInjective

(* The decoder inverts the Gray code.                                      *)
LEMMA BinaryOfGray ==
  ASSUME Sizes, NEW n \in 0 .. Span - 1
  PROVE  Binary[Gray[n]] = n
<1> DEFINE g == Gray[n]
           bit(i) == Cardinality({j \in i .. ASIZE : g[j]}) % 2 = 1
           Is(m) == \A i \in Bits : Bit(m, i) <=> bit(i)
<1>1. g \in Words /\ Bits = 0 .. ASIZE
  BY Zenon, GrayBits DEF Bits
<1>2. \A i \in 0 .. ASIZE : bit(i) <=> Odd(n, i)
  BY Zenon, Parity
<1>3. \A m, i : Bit(m, i) <=> Odd(m, i)
  BY Zenon DEF Bit, Odd, Upper
<1>4. Is(n)
  BY Zenon, <1>1, <1>2, <1>3
<1>5. ASSUME NEW m \in 0 .. Span - 1, Is(m) PROVE m = n
  <2>1. \A i \in 0 .. ASIZE : Odd(m, i) <=> Odd(n, i)
    BY Zenon, <1>1, <1>2, <1>3, <1>5
  <2>2. QED
    BY <2>1, BitsDetermine
<1>6. Binary[g] = CHOOSE m \in 0 .. Span - 1 : Is(m)
  BY Zenon, <1>1 DEF Binary
<1> HIDE DEF Is, g
<1>7. (CHOOSE m \in 0 .. Span - 1 : Is(m)) = n
  BY <1>4, <1>5
<1>8. QED
  BY Zenon, <1>6, <1>7 DEF g

(* The pointer half a span away.                                           *)
Opposite(n) == IF n < Depth THEN n + Depth ELSE n - Depth

(* Adding the depth of the FIFO changes the uppermost bit only.            *)
LEMMA Raised ==
  ASSUME Sizes, NEW x \in 0 .. Depth - 1
  PROVE  \A i \in 0 .. ASIZE :
           Upper(x + Depth, i) = Upper(x, i) + 2^(ASIZE - i)
<1> DEFINE y == x + Depth
           S == {i \in Nat : Upper(y, i) = Upper(x, i) + 2^(ASIZE - i)}
<1>0. /\ ASIZE \in Nat /\ x \in Nat /\ y \in Nat /\ ASIZE - 0 = ASIZE
      /\ x \in 0 .. Span - 1 /\ y \in 0 .. Span - 1
  BY Powers DEF Sizes
<1>1. 0 \in S
  <2>1. Upper(x, 0) = x /\ Upper(y, 0) = y
    BY <1>0, UpperEnds
  <2>2. QED
    BY <1>0, <2>1 DEF Depth
<1> HIDE DEF y
<1>2. ASSUME NEW i \in 0 .. ASIZE - 1, i \in S PROVE i + 1 \in S
  <2> DEFINE p == 2^(ASIZE - (i + 1))
  <2>1. /\ i \in 0 .. ASIZE /\ ASIZE - (i + 1) \in 0 .. ASIZE
        /\ ASIZE - (i + 1) \in 0 .. ASIZE + 1
        /\ ASIZE - i = (ASIZE - (i + 1)) + 1
    BY <1>0
  <2>2. p \in Nat \ {0} /\ 2^(ASIZE - i) = 2 * p
    BY <2>1, Powers DEF Sizes
  <2>3. /\ Upper(x, i) \in Nat
        /\ Upper(x, i + 1) = Upper(x, i) \div 2
        /\ Upper(y, i + 1) = Upper(y, i) \div 2
    BY <1>0, <2>1, Halves
  <2> HIDE DEF p
  <2>4. Upper(y, i) = Upper(x, i) + 2 * p
    BY <1>2, <2>2
  <2>5. Upper(y, i + 1) = Upper(x, i + 1) + p
    BY <2>2, <2>3, <2>4
  <2>6. QED
    BY <2>5 DEF p
<1>3. \A i \in 0 .. ASIZE : i \in S
  <2> HIDE DEF S
  <2>1. QED
    BY <1>0, <1>1, <1>2, Upwards
<1>4. QED
  BY <1>3 DEF y

(* The uppermost bit tells the lower half of the span from the upper.      *)
LEMMA TopBit ==
  ASSUME Sizes, NEW n \in 0 .. Span - 1
  PROVE  /\ Odd(n, ASIZE) <=> n >= Depth
         /\ Bit(n, ASIZE) <=> n >= Depth
<1>1. Depth \in Nat \ {0} /\ Span = 2 * Depth
  BY Powers
<1>2. CASE n < Depth
  <2>1. n = 0 * Depth + n /\ n \in 0 .. Depth - 1 /\ 0 \in Int
    BY <1>1, <1>2
  <2>2. Upper(n, ASIZE) = 0
    BY <1>1, <2>1, OneQuotient DEF Upper, Depth
  <2>3. ~(Upper(n, ASIZE) % 2 = 1)
    BY <2>2
  <2>4. ~(n >= Depth)
    BY <1>1, <1>2
  <2>5. QED
    BY Zenon, <2>3, <2>4 DEF Odd, Upper, Bit
<1>3. CASE n >= Depth
  <2>1. /\ n = 1 * Depth + (n - Depth) /\ 1 \in Int
        /\ n - Depth \in 0 .. Depth - 1
    BY <1>1, <1>3
  <2>2. Upper(n, ASIZE) = 1
    BY <1>1, <2>1, OneQuotient DEF Upper, Depth
  <2>3. Upper(n, ASIZE) % 2 = 1
    BY <2>2
  <2>4. QED
    BY Zenon, <1>3, <2>3 DEF Odd, Upper, Bit
<1>4. QED
  BY <1>1, <1>2, <1>3

(* In Gray code that bit and the next one are inverted.                    *)
LEMMA RaisedGray ==
  ASSUME Sizes, NEW x \in 0 .. Depth - 1, NEW i \in 0 .. ASIZE
  PROVE  Gray[x + Depth][i] =
           IF i >= ASIZE - 1 THEN ~Gray[x][i] ELSE Gray[x][i]
<1> DEFINE y == x + Depth
<1>0. /\ ASIZE \in Nat /\ x \in Nat /\ y \in Nat
      /\ x \in 0 .. Span - 1 /\ y \in 0 .. Span - 1
      /\ ~(x >= Depth) /\ y >= Depth
  BY Powers DEF Sizes
<1>1. \A j \in 0 .. ASIZE - 1 : Odd(y, j) <=> Odd(x, j)
  <2>1. SUFFICES ASSUME NEW j \in 0 .. ASIZE - 1
                 PROVE  Odd(y, j) <=> Odd(x, j)
    OBVIOUS
  <2> DEFINE p == 2^(ASIZE - (j + 1))
  <2>2. /\ j \in 0 .. ASIZE /\ ASIZE - (j + 1) \in 0 .. ASIZE
        /\ ASIZE - (j + 1) \in 0 .. ASIZE + 1
        /\ ASIZE - j = (ASIZE - (j + 1)) + 1
    BY <1>0, <2>1
  <2>3. p \in Nat \ {0} /\ 2^(ASIZE - j) = 2 * p
    BY <2>2, Powers DEF Sizes
  <2>4. Upper(x, j) \in Nat
    BY <1>0, <2>2, Halves
  <2>5. Upper(y, j) = Upper(x, j) + 2 * p
    BY <2>2, <2>3, Raised
  <2> HIDE DEF p, y
  <2>6. Upper(y, j) % 2 = 1 <=> Upper(x, j) % 2 = 1
    BY <2>3, <2>4, <2>5
  <2>7. QED
    BY Zenon, <2>6 DEF Odd
<1>2. Odd(y, ASIZE) /\ ~Odd(x, ASIZE)
  BY Zenon, <1>0, TopBit
<1>3. ~Odd(y, ASIZE + 1) /\ ~Odd(x, ASIZE + 1)
  <2>1. Upper(y, ASIZE + 1) = 0 /\ Upper(x, ASIZE + 1) = 0
    BY Zenon, <1>0, UpperEnds
  <2>2. ~(0 % 2 = 1)
    OBVIOUS
  <2>3. QED
    BY Zenon, <2>1, <2>2 DEF Odd
<1>4. /\ Gray[y][i] = (Odd(y, i) # Odd(y, i + 1))
      /\ Gray[x][i] = (Odd(x, i) # Odd(x, i + 1))
  BY Zenon, <1>0, GrayBits
<1> HIDE DEF y
<1>5. CASE i = ASIZE
  <2>1. i >= ASIZE - 1
    BY <1>0, <1>5
  <2>2. Gray[y][i] /\ ~Gray[x][i]
    <3>1. Odd(y, i) /\ ~Odd(y, i + 1) /\ ~Odd(x, i) /\ ~Odd(x, i + 1)
      BY Zenon, <1>2, <1>3, <1>5
    <3>2. QED
      BY Zenon, <1>4, <3>1 DEF Odd
  <2>3. Gray[y][i] = ~Gray[x][i]
    BY Zenon, <1>4, <2>2
  <2>4. QED
    BY Zenon, <2>1, <2>3 DEF y
<1>6. CASE i = ASIZE - 1
  <2>1. i >= ASIZE - 1 /\ i \in 0 .. ASIZE - 1 /\ i + 1 = ASIZE
    BY <1>0, <1>6
  <2>2. Odd(y, i) <=> Odd(x, i)
    BY Zenon, <1>1, <2>1
  <2>3. Gray[y][i] = ~Gray[x][i]
    BY Zenon, <1>2, <1>4, <2>1, <2>2 DEF Odd
  <2>4. QED
    BY Zenon, <2>1, <2>3 DEF y
<1>7. CASE i < ASIZE - 1
  <2>1. /\ ~(i >= ASIZE - 1) /\ i \in 0 .. ASIZE - 1
        /\ i + 1 \in 0 .. ASIZE - 1
    BY <1>0, <1>7
  <2>2. (Odd(y, i) <=> Odd(x, i)) /\ (Odd(y, i + 1) <=> Odd(x, i + 1))
    BY Zenon, <1>1, <2>1
  <2>3. Gray[y][i] = Gray[x][i]
    BY Zenon, <1>4, <2>2 DEF Odd
  <2>4. QED
    BY Zenon, <2>1, <2>3 DEF y
<1>8. i = ASIZE \/ i = ASIZE - 1 \/ i < ASIZE - 1
  BY <1>0
<1>9. QED
  BY Zenon, <1>5, <1>6, <1>7, <1>8

(* The full test is true of one write pointer only: the one half a span    *)
(* from the read pointer that the write side sees.                         *)
LEMMA FullTest ==
  ASSUME Sizes, NEW r \in 0 .. Span - 1, NEW n \in 0 .. Span - 1
  PROVE  /\ Opposite(r) \in 0 .. Span - 1
         /\ (Gray[n] = [i \in Bits |-> IF i >= ASIZE - 1
                             THEN ~Gray[r][i] ELSE Gray[r][i]])
            <=> n = Opposite(r)
<1> DEFINE o == Opposite(r)
           W == [i \in Bits |-> IF i >= ASIZE - 1
                             THEN ~Gray[r][i] ELSE Gray[r][i]]
<1>0. /\ Depth \in Nat \ {0} /\ Span = 2 * Depth
      /\ Bits = 0 .. ASIZE
  BY Powers DEF Bits
<1>1. o \in 0 .. Span - 1
  BY <1>0 DEF Opposite
<1>2. Gray[r] \in Words /\ Gray[o] \in Words
  BY Zenon, <1>1, GrayBits
<1>3. \A i \in Bits : Gray[r][i] \in BOOLEAN
  BY Zenon, <1>0, GrayBits
<1>4. W \in Words
  <2>1. \A i \in Bits : (IF i >= ASIZE - 1
                  THEN ~Gray[r][i] ELSE Gray[r][i]) \in BOOLEAN
    BY Zenon, <1>3
  <2>2. QED
    BY Zenon, <2>1 DEF Words
<1>5. ASSUME NEW i \in Bits PROVE Gray[o][i] = W[i]
  <2>1. CASE r < Depth
    <3>1. r \in 0 .. Depth - 1 /\ o = r + Depth
      BY <1>0, <2>1 DEF Opposite
    <3>2. Gray[o][i] = IF i >= ASIZE - 1 THEN ~Gray[r][i]
                          ELSE Gray[r][i]
      BY Zenon, <1>0, <3>1, RaisedGray
    <3>3. QED
      BY Zenon, <3>2
  <2>2. CASE ~(r < Depth)
    <3>1. o \in 0 .. Depth - 1 /\ r = o + Depth
      BY <1>0, <2>2 DEF Opposite
    <3>2. Gray[r][i] = IF i >= ASIZE - 1 THEN ~Gray[o][i]
                          ELSE Gray[o][i]
      BY Zenon, <1>0, <3>1, RaisedGray
    <3>3. Gray[o][i] \in BOOLEAN
      BY Zenon, <1>0, <1>1, GrayBits
    <3> HIDE DEF o
    <3>4. CASE i >= ASIZE - 1
      <4>1. Gray[r][i] = ~Gray[o][i]
        BY Zenon, <3>2, <3>4
      <4>2. Gray[o][i] = ~Gray[r][i]
        BY Zenon, <1>3, <3>3, <4>1
      <4>3. QED
        BY Zenon, <3>4, <4>2
    <3>5. CASE ~(i >= ASIZE - 1)
      BY Zenon, <3>2, <3>5
    <3>6. QED
      BY Zenon, <3>4, <3>5
  <2>3. QED
    BY Zenon, <2>1, <2>2
<1> HIDE DEF W, o
<1>6. Gray[o] = W
  BY Zenon, <1>2, <1>4, <1>5, SameWord
<1>7. Gray[n] = W => n = o
  <2>1. ASSUME Gray[n] = W PROVE n = o
    <3>1. Gray[n] = Gray[o]
      BY Zenon, <1>6, <2>1
    <3>2. QED
      BY Zenon, <1>1, <3>1, GrayInjective
  <2>2. QED
    BY Zenon, <2>1
<1>8. n = o => Gray[n] = W
  BY Zenon, <1>6
<1>9. QED
  BY Zenon, <1>1, <1>7, <1>8 DEF o, W

-----------------------------------------------------------------------------
(* The pointers as numbers on a circle.                                    *)

Pointers == 0 .. Span - 1

(* How far pointer a is ahead of pointer b.                                *)
Dist(a, b) == IF a >= b THEN a - b ELSE a - b + Span

(* A pointer after c increments.                                           *)
Advance(a, c) == IF a + c = Span THEN 0 ELSE a + c

(* Distances are differences modulo the span; so are increments.           *)
LEMMA Circle ==
  ASSUME Sizes, NEW a \in Pointers, NEW b \in Pointers, NEW c \in {0, 1}
  PROVE  /\ (a - b) % Span = Dist(a, b) /\ Dist(a, b) \in Pointers
         /\ (a + c) % Span = Advance(a, c) /\ Advance(a, c) \in Pointers
         /\ Dist(a, b) = 0 <=> a = b
<1> DEFINE S == Span
<1>1. S \in Nat \ {0} /\ Pointers = 0 .. S - 1
  BY Powers DEF Pointers
<1> HIDE DEF S
<1>2. Dist(a, b) \in 0 .. S - 1 /\ (Dist(a, b) = 0 <=> a = b)
  BY <1>1 DEF Dist, S
<1>3. Advance(a, c) \in 0 .. S - 1
  BY <1>1 DEF Advance, S
<1>4. (a - b) % S = Dist(a, b)
  <2>1. CASE a >= b
    <3>1. /\ 0 \in Int /\ a - b \in Int
          /\ a - b = 0 * S + Dist(a, b)
      BY <1>1, <2>1 DEF Dist
    <3>2. QED
      BY Zenon, <1>1, <1>2, <3>1, Wrapped
  <2>2. CASE ~(a >= b)
    <3>1. /\ -1 \in Int /\ a - b \in Int
          /\ a - b = (-1) * S + Dist(a, b)
      BY <1>1, <2>2 DEF Dist, S
    <3>2. QED
      BY Zenon, <1>1, <1>2, <3>1, Wrapped
  <2>3. QED
    BY <2>1, <2>2
<1>5. (a + c) % S = Advance(a, c)
  <2>1. CASE a + c = S
    <3>1. /\ 1 \in Int /\ a + c \in Int
          /\ a + c = 1 * S + Advance(a, c)
      BY <1>1, <2>1 DEF Advance, S
    <3>2. QED
      BY Zenon, <1>1, <1>3, <3>1, Wrapped
  <2>2. CASE a + c # S
    <3>1. /\ 0 \in Int /\ a + c \in Int
          /\ a + c = 0 * S + Advance(a, c)
      BY <1>1, <2>2 DEF Advance, S
    <3>2. QED
      BY Zenon, <1>1, <1>3, <3>1, Wrapped
  <2>3. QED
    BY <2>1, <2>2
<1>6. QED
  BY <1>1, <1>2, <1>3, <1>4, <1>5 DEF S

(* The write pointer w is ahead of the read pointer r by at most the depth *)
(* of the FIFO, also as the flip-flops show r to the writer (r1, then r2); *)
(* what they show of w to the reader (w1, then w2) lies between the two.   *)
InOrder(w, r, r1, r2, w1, w2) ==
  /\ Dist(w, r) <= Dist(w, r1) /\ Dist(w, r1) <= Dist(w, r2)
  /\ Dist(w, r2) <= Depth
  /\ Dist(w2, r) <= Dist(w1, r) /\ Dist(w1, r) <= Dist(w, r)

(* A pointer that is not a whole span ahead gets one further ahead; one    *)
(* that is ahead gets closer as the other follows.                         *)
LEMMA Moved ==
  ASSUME Sizes, NEW a \in Pointers, NEW b \in Pointers, NEW c \in {0, 1}
  PROVE  /\ Dist(a, b) + c < Span => Dist(Advance(a, c), b) = Dist(a, b) + c
         /\ Dist(a, b) >= c => Dist(a, Advance(b, c)) = Dist(a, b) - c
<1> DEFINE S == Span
<1>1. S \in Nat \ {0} /\ Pointers = 0 .. S - 1
  BY Powers DEF Pointers
<1> HIDE DEF S
<1>2. QED
  BY <1>1 DEF Dist, Advance, S

(* An edge of one clock or of both keeps the order: c is whether the       *)
(* writer writes, k whether the reader reads, s and t are what the first   *)
(* flip-flops take of the pointers.                                        *)
LEMMA EdgeKeepsOrder ==
  ASSUME Sizes,
         NEW w \in Pointers, NEW r \in Pointers,
         NEW r1 \in Pointers, NEW r2 \in Pointers,
         NEW w1 \in Pointers, NEW w2 \in Pointers,
         InOrder(w, r, r1, r2, w1, w2),
         NEW c \in {0, 1}, c = 1 => Dist(w, r2) < Depth,
         NEW k \in {0, 1}, k = 1 => Dist(w2, r) > 0,
         NEW s \in {r, Advance(r, k)}, NEW t \in {w, Advance(w, c)}
  PROVE  /\ InOrder(Advance(w, c), Advance(r, k), r1, r2, w1, w2)
         /\ InOrder(Advance(w, c), Advance(r, k), s, r1, w1, w2)
         /\ InOrder(Advance(w, c), Advance(r, k), r1, r2, t, w1)
         /\ InOrder(Advance(w, c), Advance(r, k), s, r1, t, w1)
<1> DEFINE v == Advance(w, c)
           u == Advance(r, k)
<1>1. Depth \in Nat \ {0} /\ Span = 2 * Depth
  BY Powers
<1>2. v \in Pointers /\ u \in Pointers
  BY Circle
<1>3. /\ Dist(w, r) \in Nat /\ Dist(w, r1) \in Nat /\ Dist(w, r2) \in Nat
      /\ Dist(w1, r) \in Nat /\ Dist(w2, r) \in Nat
  BY Circle DEF Pointers
<1>4. /\ Dist(w, r) <= Dist(w, r1) /\ Dist(w, r1) <= Dist(w, r2)
      /\ Dist(w, r2) <= Depth
      /\ Dist(w2, r) <= Dist(w1, r) /\ Dist(w1, r) <= Dist(w, r)
  BY DEF InOrder
<1>5. Dist(w, r2) + c <= Depth /\ Dist(w2, r) >= k
  BY <1>1, <1>3, <1>4
<1>6. /\ Dist(v, r) = Dist(w, r) + c /\ Dist(v, r1) = Dist(w, r1) + c
      /\ Dist(v, r2) = Dist(w, r2) + c
  <2>1. /\ Dist(w, r) + c < Span /\ Dist(w, r1) + c < Span
        /\ Dist(w, r2) + c < Span
    BY <1>1, <1>3, <1>4, <1>5
  <2>2. QED
    BY <2>1, Moved
<1>7. /\ Dist(w, u) = Dist(w, r) - k /\ Dist(w1, u) = Dist(w1, r) - k
      /\ Dist(w2, u) = Dist(w2, r) - k
  <2>1. Dist(w, r) >= k /\ Dist(w1, r) >= k /\ Dist(w2, r) >= k
    BY <1>1, <1>3, <1>4, <1>5
  <2>2. QED
    BY <2>1, Moved
<1>8. Dist(v, u) = Dist(w, r) + c - k
  <2>1. Dist(v, r) >= k
    BY <1>3, <1>4, <1>5, <1>6
  <2>2. Dist(v, u) = Dist(v, r) - k
    BY <1>2, <2>1, Moved
  <2>3. QED
    BY <1>3, <1>6, <2>2
<1>9. Dist(v, s) = Dist(v, u) \/ Dist(v, s) = Dist(w, r) + c
  BY <1>6
<1>10. Dist(t, u) = Dist(v, u) \/ Dist(t, u) = Dist(w, r) - k
  BY <1>7
<1> HIDE DEF v, u
<1>11. QED
  BY <1>1, <1>3, <1>4, <1>5, <1>6, <1>7, <1>8, <1>9, <1>10
     DEF InOrder, v, u

-----------------------------------------------------------------------------
(* The flags, decided by the pointers as the flip-flops show them.         *)

(* A word with its two upper bits inverted.                                *)
Inverted(g) == [i \in Bits |-> IF i >= ASIZE - 1 THEN ~g[i] ELSE g[i]]

(* The sizes in terms of the depth of the FIFO.                            *)
LEMMA Lengths ==
  ASSUME Sizes
  PROVE  /\ Depth \in Nat \ {0} /\ Span = 2 * Depth
         /\ Span \in Nat \ {0} /\ Pointers = 0 .. Span - 1
         /\ ALMOST_FULL_SIZE \in 1 .. Depth
         /\ ALMOST_EMPTY_SIZE \in 0 .. Depth - 1
         /\ \A a, b \in Pointers : Dist(a, b) \in Nat
<1>1. Depth \in Nat \ {0} /\ Span = 2 * Depth
  BY Powers
<1>2. /\ ALMOST_FULL_SIZE \in 1 .. Depth
      /\ ALMOST_EMPTY_SIZE \in 0 .. Depth - 1
  BY Zenon DEF Sizes, Depth
<1>3. QED
  BY <1>1, <1>2 DEF Pointers, Dist

(* Without wfull there is room after the write pointer v, without          *)
(* w_almost_full there are fewer words than it is to be raised for.        *)
LEMMA WriteFlags ==
  ASSUME Sizes, NEW v \in Pointers, NEW r2 \in Pointers,
         wq2_rptr = Gray[r2], Dist(v, r2) <= Depth
  PROVE  /\ ~wfull_val(v) => Dist(v, r2) < Depth
         /\ ~w_almost_full_val(v) => Dist(v, r2) < ALMOST_FULL_SIZE
<1> DEFINE S == Span
           D == Depth
           d == Dist(v, r2)
           x == (v - r2 - ALMOST_FULL_SIZE) % S
<1>1. /\ D \in Nat \ {0} /\ S = 2 * D /\ S \in Nat \ {0}
      /\ Pointers = 0 .. S - 1 /\ d \in 0 .. D
      /\ ALMOST_FULL_SIZE \in 1 .. D
  BY Lengths
<1>2. wfull_val(v) <=> v = Opposite(r2)
  <2>1. Inverted(wq2_rptr) = Inverted(Gray[r2])
    BY Zenon
  <2>2. Gray[v] = Inverted(Gray[r2]) <=> v = Opposite(r2)
    BY Zenon, FullTest DEF Inverted, Pointers
  <2>3. wfull_val(v) <=> Gray[v] = Inverted(wq2_rptr)
    BY Zenon DEF wfull_val, Inverted
  <2>4. QED
    BY Zenon, <2>1, <2>2, <2>3
<1>3. d = D => v = Opposite(r2)
  <2> HIDE DEF S, D
  <2>1. QED
    BY <1>1 DEF Dist, Opposite, S, D
<1>4. ~wfull_val(v) => d # D
  BY Zenon, <1>2, <1>3
<1>5. Binary[wq2_rptr] = r2
  BY Zenon, BinaryOfGray DEF Pointers
<1>6. x \in Pointers
  <2>1. v - r2 - ALMOST_FULL_SIZE \in Int
    BY <1>1
  <2>2. QED
    BY Zenon, <1>1, <2>1, Divided
<1>7. w_almost_full_val(v) <=> ~Bit(x, ASIZE)
  BY Zenon, <1>5 DEF w_almost_full_val
<1>8. w_almost_full_val(v) <=> ~(x >= D)
  BY Zenon, <1>6, <1>7, TopBit DEF Pointers
<1>9. d >= ALMOST_FULL_SIZE => ~(x >= D)
  <2>1. SUFFICES ASSUME d >= ALMOST_FULL_SIZE PROVE ~(x >= D)
    OBVIOUS
  <2> DEFINE e == d - ALMOST_FULL_SIZE
             a == v - r2 - ALMOST_FULL_SIZE
  <2>2. e \in 0 .. S - 1 /\ e < D /\ a \in Int /\ 0 \in Int /\ -1 \in Int
    BY <1>1, <2>1
  <2>3. a = 0 * S + e \/ a = (-1) * S + e
    BY <1>1 DEF Dist
  <2> HIDE DEF e, a, S, D
  <2>4. a % S = e
    BY Zenon, <1>1, <2>2, <2>3, Wrapped
  <2>5. x = e
    BY Zenon, <2>4 DEF a
  <2>6. QED
    BY <1>1, <2>2, <2>5
<1> HIDE DEF x
<1>10. (~wfull_val(v) => d < D)
  <2>1. d # D => d < D
    BY <1>1
  <2>2. QED
    BY Zenon, <1>4, <2>1
<1>11. ~w_almost_full_val(v) => d < ALMOST_FULL_SIZE
  <2>1. ~(d >= ALMOST_FULL_SIZE) => d < ALMOST_FULL_SIZE
    BY <1>1
  <2>2. QED
    BY Zenon, <1>8, <1>9, <2>1
<1>12. QED
  BY Zenon, <1>10, <1>11

(* Without rempty there is a word at the read pointer u, without           *)
(* r_almost_empty there are more words than it is to be raised for.        *)
LEMMA ReadFlags ==
  ASSUME Sizes, NEW u \in Pointers, NEW w2 \in Pointers,
         rq2_wptr = Gray[w2], Dist(w2, u) <= Depth
  PROVE  /\ ~rempty_val(u) => Dist(w2, u) > 0
         /\ ~r_almost_empty_val(u) => Dist(w2, u) > ALMOST_EMPTY_SIZE
<1> DEFINE S == Span
           D == Depth
           d == Dist(w2, u)
           x == (u + ALMOST_EMPTY_SIZE - w2) % S
<1>1. /\ D \in Nat \ {0} /\ S = 2 * D /\ S \in Nat \ {0}
      /\ Pointers = 0 .. S - 1 /\ d \in 0 .. D
      /\ ALMOST_EMPTY_SIZE \in 0 .. D - 1
  BY Lengths
<1>2. d = 0 => w2 = u
  BY Circle
<1>3. w2 = u => rempty_val(u)
  BY Zenon DEF rempty_val
<1>4. ~rempty_val(u) => d # 0
  BY Zenon, <1>2, <1>3
<1>5. Binary[rq2_wptr] = w2
  BY Zenon, BinaryOfGray DEF Pointers
<1>6. x \in Pointers
  <2>1. u + ALMOST_EMPTY_SIZE - w2 \in Int
    BY <1>1
  <2>2. QED
    BY Zenon, <1>1, <2>1, Divided
<1>7. r_almost_empty_val(u) <=> ~Bit(x, ASIZE)
  BY Zenon, <1>5 DEF r_almost_empty_val
<1>8. r_almost_empty_val(u) <=> ~(x >= D)
  BY Zenon, <1>6, <1>7, TopBit DEF Pointers
<1>9. d <= ALMOST_EMPTY_SIZE => ~(x >= D)
  <2>1. SUFFICES ASSUME d <= ALMOST_EMPTY_SIZE PROVE ~(x >= D)
    OBVIOUS
  <2> DEFINE e == ALMOST_EMPTY_SIZE - d
             a == u + ALMOST_EMPTY_SIZE - w2
  <2>2. e \in 0 .. S - 1 /\ e < D /\ a \in Int /\ 0 \in Int /\ 1 \in Int
    BY <1>1, <2>1
  <2>3. a = 0 * S + e \/ a = 1 * S + e
    BY <1>1 DEF Dist
  <2> HIDE DEF e, a, S, D
  <2>4. a % S = e
    BY Zenon, <1>1, <2>2, <2>3, Wrapped
  <2>5. x = e
    BY Zenon, <2>4 DEF a
  <2>6. QED
    BY <1>1, <2>2, <2>5
<1> HIDE DEF x
<1>10. ~rempty_val(u) => d > 0
  <2>1. d # 0 => d > 0
    BY <1>1
  <2>2. QED
    BY Zenon, <1>4, <2>1
<1>11. ~r_almost_empty_val(u) => d > ALMOST_EMPTY_SIZE
  <2>1. ~(d <= ALMOST_EMPTY_SIZE) => d > ALMOST_EMPTY_SIZE
    BY <1>1
  <2>2. QED
    BY Zenon, <1>8, <1>9, <2>1
<1>12. QED
  BY Zenon, <1>10, <1>11

-----------------------------------------------------------------------------
(* The state of the FIFO.                                                  *)

(* The flip-flops hold the codes of pointers r1, r2 and w1, w2 in order,   *)
(* and each flag that is down tells the truth about what its side sees.    *)
Tracks(r1, r2, w1, w2) ==
  /\ wq1_rptr = Gray[r1] /\ wq2_rptr = Gray[r2]
  /\ rq1_wptr = Gray[w1] /\ rq2_wptr = Gray[w2]
  /\ InOrder(wbin, rbin, r1, r2, w1, w2)
  /\ ~wfull => Dist(wbin, r2) < Depth
  /\ ~w_almost_full => Dist(wbin, r2) < ALMOST_FULL_SIZE
  /\ ~rempty => Dist(w2, rbin) > 0
  /\ ~r_almost_empty => Dist(w2, rbin) > ALMOST_EMPTY_SIZE

FifoInv ==
  FifoTypeOK /\ \E r1, r2, w1, w2 \in Pointers : Tracks(r1, r2, w1, w2)

One(b) == IF b THEN 1 ELSE 0

(* The next pointers, by how many words are written or read.               *)
LEMMA NextPointers ==
  ASSUME Sizes, FifoTypeOK, NEW inc \in BOOLEAN
  PROVE  /\ One(inc /\ ~wfull) \in {0, 1} /\ One(inc /\ ~rempty) \in {0, 1}
         /\ wbinnext(inc) = Advance(wbin, One(inc /\ ~wfull))
         /\ rbinnext(inc) = Advance(rbin, One(inc /\ ~rempty))
         /\ wbinnext(inc) \in Pointers /\ rbinnext(inc) \in Pointers
         /\ wbin \in Pointers /\ rbin \in Pointers
<1>1. wbin \in Pointers /\ rbin \in Pointers
  BY Zenon DEF FifoTypeOK, Pointers
<1>2. One(inc /\ ~wfull) \in {0, 1} /\ One(inc /\ ~rempty) \in {0, 1}
  BY Zenon DEF One
<1>3. /\ wbinnext(inc) = (wbin + One(inc /\ ~wfull)) % Span
      /\ rbinnext(inc) = (rbin + One(inc /\ ~rempty)) % Span
  BY Zenon DEF wbinnext, rbinnext, One
<1>4. \A a \in Pointers, c \in {0, 1} :
        (a + c) % Span = Advance(a, c) /\ Advance(a, c) \in Pointers
  BY Zenon, Circle
<1>5. /\ wbinnext(inc) = Advance(wbin, One(inc /\ ~wfull))
      /\ Advance(wbin, One(inc /\ ~wfull)) \in Pointers
  BY Zenon, <1>1, <1>2, <1>3, <1>4
<1>6. /\ rbinnext(inc) = Advance(rbin, One(inc /\ ~rempty))
      /\ Advance(rbin, One(inc /\ ~rempty)) \in Pointers
  BY Zenon, <1>1, <1>2, <1>3, <1>4
<1>7. wbinnext(inc) \in Pointers /\ rbinnext(inc) \in Pointers
  BY Zenon, <1>5, <1>6
<1>8. QED
  BY Zenon, <1>1, <1>2, <1>5, <1>6, <1>7

(* What an edge of wclk leaves.                                            *)
LEMMA WEdgeTypes ==
  ASSUME Sizes, FifoTypeOK, NEW wr \in BOOLEAN, NEW d \in Data,
         NEW seen \in Words, WEdge(wr, d, seen)
  PROVE  /\ wbin' \in 0 .. Span - 1
         /\ wq1_rptr' \in Words /\ wq2_rptr' \in Words
         /\ wfull' \in BOOLEAN /\ w_almost_full' \in BOOLEAN
         /\ mem' \in [0 .. Depth - 1 -> Data]
<1>1. wbin' \in 0 .. Span - 1
  BY Zenon, NextPointers DEF WEdge, Pointers
<1>2. wq1_rptr' \in Words /\ wq2_rptr' \in Words
  BY Zenon DEF WEdge, FifoTypeOK
<1>3. wfull' \in BOOLEAN /\ w_almost_full' \in BOOLEAN
  BY Zenon DEF WEdge, wfull_val, w_almost_full_val
<1>4. mem' \in [0 .. Depth - 1 -> Data]
  <2>1. mem \in [0 .. Depth - 1 -> Data]
    BY Zenon DEF FifoTypeOK
  <2>2. mem' = mem \/ mem' = [mem EXCEPT ![wbin % Depth] = d]
    BY Zenon DEF WEdge, fifo_mem
  <2>3. QED
    BY <2>1, <2>2
<1>5. QED
  BY Zenon, <1>1, <1>2, <1>3, <1>4

(* What an edge of rclk leaves.                                            *)
LEMMA REdgeTypes ==
  ASSUME Sizes, FifoTypeOK, NEW rd \in BOOLEAN,
         NEW seen \in Words, REdge(rd, seen)
  PROVE  /\ rbin' \in 0 .. Span - 1
         /\ rq1_wptr' \in Words /\ rq2_wptr' \in Words
         /\ rempty' \in BOOLEAN /\ r_almost_empty' \in BOOLEAN
<1>1. rbin' \in 0 .. Span - 1
  BY Zenon, NextPointers DEF REdge, Pointers
<1>2. rq1_wptr' \in Words /\ rq2_wptr' \in Words
  BY Zenon DEF REdge, FifoTypeOK
<1>3. rempty' \in BOOLEAN /\ r_almost_empty' \in BOOLEAN
  BY Zenon DEF REdge, rempty_val, r_almost_empty_val
<1>4. QED
  BY Zenon, <1>1, <1>2, <1>3

(* The types hold after every step.                                        *)
LEMMA FifoTypes ==
  ASSUME Sizes, FifoTypeOK, [FifoNext]_FifoVars
  PROVE  FifoTypeOK'
<1>1. /\ wbin \in 0 .. Span - 1 /\ rbin \in 0 .. Span - 1
      /\ wq1_rptr \in Words /\ wq2_rptr \in Words
      /\ rq1_wptr \in Words /\ rq2_wptr \in Words
      /\ wfull \in BOOLEAN /\ w_almost_full \in BOOLEAN
      /\ rempty \in BOOLEAN /\ r_almost_empty \in BOOLEAN
      /\ mem \in [0 .. Depth - 1 -> Data]
  BY Zenon DEF FifoTypeOK
<1>2. \A n \in Pointers : Gray[n] \in Words
  BY Zenon, GrayBits DEF Pointers
<1>3. SUFFICES
        /\ wbin' \in 0 .. Span - 1 /\ rbin' \in 0 .. Span - 1
        /\ wq1_rptr' \in Words /\ wq2_rptr' \in Words
        /\ rq1_wptr' \in Words /\ rq2_wptr' \in Words
        /\ wfull' \in BOOLEAN /\ w_almost_full' \in BOOLEAN
        /\ rempty' \in BOOLEAN /\ r_almost_empty' \in BOOLEAN
        /\ mem' \in [0 .. Depth - 1 -> Data]
  BY Zenon DEF FifoTypeOK
<1>4. CASE WClk
  <2>1. PICK wr \in BOOLEAN, d \in Data : WEdge(wr, d, rptr)
    BY Zenon, <1>4 DEF WClk
  <2>2. rptr \in Words
    BY Zenon, <1>1, <1>2 DEF rptr, Pointers
  <2>3. QED
    BY Zenon, <1>1, <1>4, <2>1, <2>2, WEdgeTypes DEF WClk, rVars
<1>5. CASE RClk
  <2>1. PICK rd \in BOOLEAN : REdge(rd, wptr)
    BY Zenon, <1>5 DEF RClk
  <2>2. wptr \in Words
    BY Zenon, <1>1, <1>2 DEF wptr, Pointers
  <2>3. QED
    BY Zenon, <1>1, <1>5, <2>1, <2>2, REdgeTypes DEF RClk, wVars
<1>6. CASE BothClk
  <2>1. PICK wr \in BOOLEAN, rd \in BOOLEAN, d \in Data :
          \E r \in Words, w \in Words :
            WEdge(wr, d, r) /\ REdge(rd, w)
    BY Zenon, <1>6 DEF BothClk, Sampled
  <2>2. PICK r \in Words, w \in Words :
          WEdge(wr, d, r) /\ REdge(rd, w)
    BY Zenon, <2>1
  <2>3. QED
    BY Zenon, <2>2, WEdgeTypes, REdgeTypes
<1>7. CASE Reset
  <2>1. 0 \in 0 .. Span - 1
    BY Powers
  <2>2. Gray[0] \in Words
    BY Zenon, <1>2, <2>1 DEF Pointers
  <2>3. Cleared.bin = 0 /\ Cleared.ptr = Gray[0]
    BY DEF Cleared
  <2>4. Cleared.full = FALSE /\ Cleared.empty = TRUE
    BY DEF Cleared
  <2>5. QED
    BY Zenon, <1>1, <1>7, <2>1, <2>2, <2>3, <2>4 DEF Reset
<1>8. CASE UNCHANGED FifoVars
  BY Zenon, <1>1, <1>8 DEF FifoVars, wVars, rVars
<1>9. QED
  BY Zenon, <1>4, <1>5, <1>6, <1>7, <1>8 DEF FifoNext

(* At the start, and after a reset, the pointers are all 0.                *)
LEMMA ZeroTracks ==
  ASSUME Sizes
  PROVE  0 \in Pointers /\ InOrder(0, 0, 0, 0, 0, 0) /\ Dist(0, 0) = 0
<1>1. 0 \in Pointers
  BY Lengths
<1>2. Dist(0, 0) = 0
  BY DEF Dist
<1>3. 0 <= 0 /\ 0 <= Depth
  BY Lengths
<1>4. QED
  BY Zenon, <1>1, <1>2, <1>3 DEF InOrder

(* The flags after an edge of wclk that leaves the pointer v.              *)
LEMMA WriteSide ==
  ASSUME Sizes, NEW r1 \in Pointers, NEW r2 \in Pointers,
         NEW v \in Pointers, wq2_rptr = Gray[r2],
         Dist(v, r1) <= Dist(v, r2), Dist(v, r2) <= Depth
  PROVE  /\ ~wfull_val(v) => Dist(v, r1) < Depth
         /\ ~w_almost_full_val(v) => Dist(v, r1) < ALMOST_FULL_SIZE
<1>1. /\ ~wfull_val(v) => Dist(v, r2) < Depth
      /\ ~w_almost_full_val(v) => Dist(v, r2) < ALMOST_FULL_SIZE
  BY Zenon, WriteFlags
<1>2. /\ Dist(v, r2) < Depth => Dist(v, r1) < Depth
      /\ Dist(v, r2) < ALMOST_FULL_SIZE => Dist(v, r1) < ALMOST_FULL_SIZE
  <2>1. /\ Dist(v, r1) \in Nat /\ Dist(v, r2) \in Nat
        /\ Depth \in Nat /\ ALMOST_FULL_SIZE \in Nat
    BY Lengths
  <2>2. QED
    BY <2>1
<1>3. QED
  BY Zenon, <1>1, <1>2

(* The flags after an edge of rclk that leaves the pointer u.              *)
LEMMA ReadSide ==
  ASSUME Sizes, NEW w1 \in Pointers, NEW w2 \in Pointers,
         NEW u \in Pointers, rq2_wptr = Gray[w2],
         Dist(w2, u) <= Dist(w1, u), Dist(w2, u) <= Depth
  PROVE  /\ ~rempty_val(u) => Dist(w1, u) > 0
         /\ ~r_almost_empty_val(u) => Dist(w1, u) > ALMOST_EMPTY_SIZE
<1>1. /\ ~rempty_val(u) => Dist(w2, u) > 0
      /\ ~r_almost_empty_val(u) => Dist(w2, u) > ALMOST_EMPTY_SIZE
  BY Zenon, ReadFlags
<1>2. /\ Dist(w2, u) > 0 => Dist(w1, u) > 0
      /\ Dist(w2, u) > ALMOST_EMPTY_SIZE => Dist(w1, u) > ALMOST_EMPTY_SIZE
  <2>1. /\ Dist(w1, u) \in Nat /\ Dist(w2, u) \in Nat
        /\ Depth \in Nat /\ ALMOST_EMPTY_SIZE \in Nat
    BY Lengths
  <2>2. QED
    BY <2>1
<1>3. QED
  BY Zenon, <1>1, <1>2

(* An order contains the distances the flags are decided by.               *)
LEMMA OrderBounds ==
  ASSUME Sizes, NEW v \in Pointers, NEW u \in Pointers,
         NEW r1 \in Pointers, NEW r2 \in Pointers,
         NEW w1 \in Pointers, NEW w2 \in Pointers,
         InOrder(v, u, r1, r2, w1, w2)
  PROVE  /\ Dist(v, r1) <= Dist(v, r2) /\ Dist(v, r2) <= Depth
         /\ Dist(w2, u) <= Dist(w1, u) /\ Dist(w2, u) <= Depth
         /\ Dist(v, u) <= Dist(v, r2) /\ Dist(w2, u) <= Dist(v, u)
         /\ Dist(w1, u) <= Dist(v, u) /\ Dist(v, r1) <= Depth
         /\ Dist(v, u) <= Depth
<1>1. /\ Dist(v, r1) \in Nat /\ Dist(v, r2) \in Nat /\ Dist(v, u) \in Nat
      /\ Dist(w1, u) \in Nat /\ Dist(w2, u) \in Nat /\ Depth \in Nat
  BY Lengths
<1>2. QED
  BY <1>1 DEF InOrder

(* How many words an edge can write and read.                              *)
LEMMA Guards ==
  ASSUME Sizes, FifoTypeOK, NEW inc \in BOOLEAN,
         NEW r1 \in Pointers, NEW r2 \in Pointers,
         NEW w1 \in Pointers, NEW w2 \in Pointers, Tracks(r1, r2, w1, w2)
  PROVE  /\ One(inc /\ ~wfull) = 1 => Dist(wbin, r2) < Depth
         /\ One(inc /\ ~rempty) = 1 => Dist(w2, rbin) > 0
<1>1. 0 # 1
  OBVIOUS
<1>2. /\ One(inc /\ ~wfull) = 1 => ~wfull
      /\ One(inc /\ ~rempty) = 1 => ~rempty
  BY Zenon, <1>1 DEF One
<1>3. QED
  BY Zenon, <1>2 DEF Tracks

(* Nothing is added without an increment.                                  *)
LEMMA NoAdvance ==
  ASSUME Sizes, NEW a \in Pointers
  PROVE  Advance(a, 0) = a
BY Lengths DEF Advance

(* An edge of wclk alone.                                                  *)
LEMMA WClkTracks ==
  ASSUME Sizes, FifoInv, WClk
  PROVE  \E r1, r2, w1, w2 \in Pointers : Tracks(r1, r2, w1, w2)'
<1>1. PICK r1 \in Pointers, r2 \in Pointers, w1 \in Pointers, w2 \in Pointers :
        Tracks(r1, r2, w1, w2)
  BY Zenon DEF FifoInv
<1>2. PICK wr \in BOOLEAN, d \in Data : WEdge(wr, d, rptr)
  BY Zenon DEF WClk
<1>3. FifoTypeOK /\ wbin \in Pointers /\ rbin \in Pointers
  BY Zenon, NextPointers DEF FifoInv
<1>4. PICK w \in Pointers, r \in Pointers : w = wbin /\ r = rbin
  BY Zenon, <1>3
<1>5. PICK c \in {0, 1} : c = One(wr /\ ~wfull)
  BY Zenon, <1>3, NextPointers
<1>6. PICK v \in Pointers : v = wbinnext(wr)
  BY Zenon, <1>3, NextPointers
<1>7. v = Advance(w, c) /\ r = Advance(r, 0) /\ 0 \in {0, 1}
  BY Zenon, <1>3, <1>4, <1>5, <1>6, NextPointers, NoAdvance
<1>8. InOrder(w, r, r1, r2, w1, w2)
  BY Zenon, <1>1, <1>4 DEF Tracks
<1>9. c = 1 => Dist(w, r2) < Depth
  BY Zenon, <1>1, <1>3, <1>4, <1>5, Guards
<1>10. 0 = 1 => Dist(w2, r) > 0
  OBVIOUS
<1>11. /\ InOrder(v, r, r1, r2, w1, w2)
       /\ InOrder(v, r, r, r1, w1, w2)
  <2>1. r \in {r, Advance(r, 0)} /\ w \in {w, Advance(w, c)}
    BY Zenon
  <2>2. /\ InOrder(Advance(w, c), Advance(r, 0), r1, r2, w1, w2)
        /\ InOrder(Advance(w, c), Advance(r, 0), r, r1, w1, w2)
    BY Zenon, <1>7, <1>8, <1>9, <1>10, <2>1, EdgeKeepsOrder
  <2>3. QED
    BY Zenon, <1>7, <2>2
<1>12. wq2_rptr = Gray[r2]
  BY Zenon, <1>1 DEF Tracks
<1>13. /\ ~wfull_val(v) => Dist(v, r1) < Depth
       /\ ~w_almost_full_val(v) => Dist(v, r1) < ALMOST_FULL_SIZE
  <2>1. Dist(v, r1) <= Dist(v, r2) /\ Dist(v, r2) <= Depth
    BY Zenon, <1>11, OrderBounds
  <2>2. QED
    BY Zenon, <1>12, <2>1, WriteSide
<1>14. /\ wbin' = v /\ rbin' = r
       /\ wfull' = wfull_val(v) /\ w_almost_full' = w_almost_full_val(v)
       /\ wq1_rptr' = Gray[r] /\ wq2_rptr' = Gray[r1]
       /\ rq1_wptr' = Gray[w1] /\ rq2_wptr' = Gray[w2]
       /\ rempty' = rempty /\ r_almost_empty' = r_almost_empty
  BY Zenon, <1>1, <1>2, <1>4, <1>6
     DEF Tracks, WEdge, WClk, rVars, rptr
<1>15. /\ ~rempty' => Dist(w2, r) > 0
       /\ ~r_almost_empty' => Dist(w2, r) > ALMOST_EMPTY_SIZE
  BY Zenon, <1>1, <1>4, <1>14 DEF Tracks
<1>16. Tracks(r, r1, w1, w2)'
  BY Zenon, <1>11, <1>13, <1>14, <1>15 DEF Tracks
<1>17. QED
  BY Zenon, <1>16

(* An edge of rclk alone.                                                  *)
LEMMA RClkTracks ==
  ASSUME Sizes, FifoInv, RClk
  PROVE  \E r1, r2, w1, w2 \in Pointers : Tracks(r1, r2, w1, w2)'
<1>1. PICK r1 \in Pointers, r2 \in Pointers, w1 \in Pointers, w2 \in Pointers :
        Tracks(r1, r2, w1, w2)
  BY Zenon DEF FifoInv
<1>2. PICK rd \in BOOLEAN : REdge(rd, wptr)
  BY Zenon DEF RClk
<1>3. FifoTypeOK /\ wbin \in Pointers /\ rbin \in Pointers
  BY Zenon, NextPointers DEF FifoInv
<1>4. PICK w \in Pointers, r \in Pointers : w = wbin /\ r = rbin
  BY Zenon, <1>3
<1>5. PICK k \in {0, 1} : k = One(rd /\ ~rempty)
  BY Zenon, <1>3, NextPointers
<1>6. PICK u \in Pointers : u = rbinnext(rd)
  BY Zenon, <1>3, NextPointers
<1>7. u = Advance(r, k) /\ w = Advance(w, 0) /\ 0 \in {0, 1}
  BY Zenon, <1>3, <1>4, <1>5, <1>6, NextPointers, NoAdvance
<1>8. InOrder(w, r, r1, r2, w1, w2)
  BY Zenon, <1>1, <1>4 DEF Tracks
<1>9. k = 1 => Dist(w2, r) > 0
  BY Zenon, <1>1, <1>3, <1>4, <1>5, Guards
<1>10. 0 = 1 => Dist(w, r2) < Depth
  OBVIOUS
<1>11. /\ InOrder(w, u, r1, r2, w1, w2)
       /\ InOrder(w, u, r1, r2, w, w1)
  <2>1. r \in {r, Advance(r, k)} /\ w \in {w, Advance(w, 0)}
    BY Zenon
  <2>2. /\ InOrder(Advance(w, 0), Advance(r, k), r1, r2, w1, w2)
        /\ InOrder(Advance(w, 0), Advance(r, k), r1, r2, w, w1)
    BY Zenon, <1>7, <1>8, <1>9, <1>10, <2>1, EdgeKeepsOrder
  <2>3. QED
    BY Zenon, <1>7, <2>2
<1>12. rq2_wptr = Gray[w2]
  BY Zenon, <1>1 DEF Tracks
<1>13. /\ ~rempty_val(u) => Dist(w1, u) > 0
       /\ ~r_almost_empty_val(u) => Dist(w1, u) > ALMOST_EMPTY_SIZE
  <2>1. Dist(w2, u) <= Dist(w1, u) /\ Dist(w2, u) <= Depth
    BY Zenon, <1>11, OrderBounds
  <2>2. QED
    BY Zenon, <1>12, <2>1, ReadSide
<1>14. /\ wbin' = w /\ rbin' = u
       /\ rempty' = rempty_val(u) /\ r_almost_empty' = r_almost_empty_val(u)
       /\ rq1_wptr' = Gray[w] /\ rq2_wptr' = Gray[w1]
       /\ wq1_rptr' = Gray[r1] /\ wq2_rptr' = Gray[r2]
       /\ wfull' = wfull /\ w_almost_full' = w_almost_full
  BY Zenon, <1>1, <1>2, <1>4, <1>6
     DEF Tracks, REdge, RClk, wVars, wptr
<1>15. /\ ~wfull' => Dist(w, r2) < Depth
       /\ ~w_almost_full' => Dist(w, r2) < ALMOST_FULL_SIZE
  BY Zenon, <1>1, <1>4, <1>14 DEF Tracks
<1>16. Tracks(r1, r2, w, w1)'
  BY Zenon, <1>11, <1>13, <1>14, <1>15 DEF Tracks
<1>17. QED
  BY Zenon, <1>16

(* What the first flip-flop takes of a pointer on edges at the same time   *)
(* is the pointer before or after its increment.                           *)
LEMMA Caught ==
  ASSUME Sizes, NEW a \in Pointers, NEW c \in {0, 1},
         NEW g \in Sampled(Gray[a], Gray[Advance(a, c)])
  PROVE  g = Gray[a] \/ g = Gray[Advance(a, c)]
<1>1. Advance(a, 0) = a
  BY NoAdvance
<1>2. (a + 1) % Span = Advance(a, 1)
  BY Zenon, Circle
<1>3. CASE c = 0
  <2>1. Gray[a] \in Words
    BY Zenon, GrayBits DEF Pointers
  <2>2. g \in Sampled(Gray[a], Gray[a])
    BY Zenon, <1>1, <1>3
  <2>3. g \in Words /\ \A i \in Bits : g[i] = Gray[a][i]
    BY Zenon, <2>2 DEF Sampled
  <2>4. g = Gray[a]
    BY Zenon, <2>1, <2>3, SameWord
  <2>5. QED
    BY Zenon, <2>4
<1>4. CASE c = 1
  <2>1. g \in Sampled(Gray[a], Gray[(a + 1) % Span])
    BY Zenon, <1>2, <1>4
  <2>2. g = Gray[a] \/ g = Gray[(a + 1) % Span]
    BY Zenon, <2>1, SampledNext DEF Pointers
  <2>3. QED
    BY Zenon, <1>2, <1>4, <2>2
<1>5. QED
  BY Zenon, <1>3, <1>4

(* Edges of both clocks at the same time.                                  *)
LEMMA BothClkTracks ==
  ASSUME Sizes, FifoInv, BothClk
  PROVE  \E r1, r2, w1, w2 \in Pointers : Tracks(r1, r2, w1, w2)'
<1>1. PICK r1 \in Pointers, r2 \in Pointers, w1 \in Pointers, w2 \in Pointers :
        Tracks(r1, r2, w1, w2)
  BY Zenon DEF FifoInv
<1>2. PICK wr \in BOOLEAN, rd \in BOOLEAN, d \in Data :
        \E g \in Sampled(rptr, Gray[rbinnext(rd)]),
           h \in Sampled(wptr, Gray[wbinnext(wr)]) :
             WEdge(wr, d, g) /\ REdge(rd, h)
  BY Zenon DEF BothClk
<1>3. FifoTypeOK /\ wbin \in Pointers /\ rbin \in Pointers
  BY Zenon, NextPointers DEF FifoInv
<1>4. PICK w \in Pointers, r \in Pointers : w = wbin /\ r = rbin
  BY Zenon, <1>3
<1>5. PICK c \in {0, 1}, k \in {0, 1} :
        c = One(wr /\ ~wfull) /\ k = One(rd /\ ~rempty)
  BY Zenon, <1>3, NextPointers
<1>6. PICK v \in Pointers, u \in Pointers :
        v = wbinnext(wr) /\ u = rbinnext(rd)
  BY Zenon, <1>3, NextPointers
<1>7. v = Advance(w, c) /\ u = Advance(r, k)
  BY Zenon, <1>3, <1>4, <1>5, <1>6, NextPointers
<1>8. InOrder(w, r, r1, r2, w1, w2)
  BY Zenon, <1>1, <1>4 DEF Tracks
<1>9. /\ c = 1 => Dist(w, r2) < Depth
      /\ k = 1 => Dist(w2, r) > 0
  BY Zenon, <1>1, <1>3, <1>4, <1>5, Guards
<1>10. PICK g \in Sampled(Gray[r], Gray[Advance(r, k)]),
            h \in Sampled(Gray[w], Gray[Advance(w, c)]) :
              WEdge(wr, d, g) /\ REdge(rd, h)
  BY Zenon, <1>2, <1>4, <1>6, <1>7 DEF rptr, wptr
<1>11. PICK s \in {r, Advance(r, k)}, t \in {w, Advance(w, c)} :
         g = Gray[s] /\ h = Gray[t]
  <2>1. g = Gray[r] \/ g = Gray[Advance(r, k)]
    BY Zenon, Caught
  <2>2. h = Gray[w] \/ h = Gray[Advance(w, c)]
    BY Zenon, Caught
  <2>3. QED
    BY Zenon, <2>1, <2>2
<1>12. s \in Pointers /\ t \in Pointers
  BY Zenon, <1>7, <1>11
<1>13. /\ InOrder(v, u, r1, r2, w1, w2)
       /\ InOrder(v, u, s, r1, t, w1)
  <2>1. r \in {r, u} /\ u \in {r, u} /\ w \in {w, v} /\ v \in {w, v}
    BY Zenon
  <2>2. InOrder(v, u, r1, r2, w1, w2)
    BY Zenon, <1>7, <1>8, <1>9, <2>1, EdgeKeepsOrder
  <2>3. InOrder(v, u, r, r1, w, w1)
    BY Zenon, <1>7, <1>8, <1>9, <2>1, EdgeKeepsOrder
  <2>4. InOrder(v, u, r, r1, v, w1)
    BY Zenon, <1>7, <1>8, <1>9, <2>1, EdgeKeepsOrder
  <2>5. InOrder(v, u, u, r1, w, w1)
    BY Zenon, <1>7, <1>8, <1>9, <2>1, EdgeKeepsOrder
  <2>6. InOrder(v, u, u, r1, v, w1)
    BY Zenon, <1>7, <1>8, <1>9, <2>1, EdgeKeepsOrder
  <2>7. (s = r \/ s = u) /\ (t = w \/ t = v)
    BY Zenon, <1>7
  <2>8. QED
    BY Zenon, <2>2, <2>3, <2>4, <2>5, <2>6, <2>7
<1>14. /\ Dist(v, r1) <= Dist(v, r2) /\ Dist(v, r2) <= Depth
       /\ Dist(w2, u) <= Dist(w1, u) /\ Dist(w2, u) <= Depth
  BY Zenon, <1>13, OrderBounds
<1>15. wq2_rptr = Gray[r2] /\ rq2_wptr = Gray[w2]
  BY Zenon, <1>1 DEF Tracks
<1>16. /\ ~wfull_val(v) => Dist(v, r1) < Depth
       /\ ~w_almost_full_val(v) => Dist(v, r1) < ALMOST_FULL_SIZE
  BY Zenon, <1>14, <1>15, WriteSide
<1>17. /\ ~rempty_val(u) => Dist(w1, u) > 0
       /\ ~r_almost_empty_val(u) => Dist(w1, u) > ALMOST_EMPTY_SIZE
  BY Zenon, <1>14, <1>15, ReadSide
<1>18. /\ wbin' = v /\ rbin' = u
       /\ wfull' = wfull_val(v) /\ w_almost_full' = w_almost_full_val(v)
       /\ rempty' = rempty_val(u) /\ r_almost_empty' = r_almost_empty_val(u)
       /\ wq1_rptr' = Gray[s] /\ wq2_rptr' = Gray[r1]
       /\ rq1_wptr' = Gray[t] /\ rq2_wptr' = Gray[w1]
  BY Zenon, <1>1, <1>6, <1>10, <1>11 DEF Tracks, WEdge, REdge
<1>19. Tracks(s, r1, t, w1)'
  BY Zenon, <1>13, <1>16, <1>17, <1>18 DEF Tracks
<1>20. QED
  BY Zenon, <1>12, <1>19

(* The invariant holds at the start.                                       *)
LEMMA FifoInitInv ==
  ASSUME Sizes, FifoInit
  PROVE  FifoInv
<1>1. Cleared.bin = 0 /\ Cleared.ptr = Gray[0]
  BY DEF Cleared
<1>2. Cleared.full = FALSE /\ Cleared.empty = TRUE
  BY DEF Cleared
<1>3. 0 \in Pointers /\ InOrder(0, 0, 0, 0, 0, 0) /\ Dist(0, 0) = 0
  BY Zenon, ZeroTracks
<1>4. 0 < Depth /\ 0 < ALMOST_FULL_SIZE
  BY Lengths
<1>5. Gray[0] \in Words
  BY Zenon, <1>3, GrayBits DEF Pointers
<1>6. FifoTypeOK
  BY Zenon, <1>1, <1>2, <1>3, <1>5 DEF FifoInit, FifoTypeOK, Pointers
<1>7. Tracks(0, 0, 0, 0)
  BY Zenon, <1>1, <1>2, <1>3, <1>4 DEF FifoInit, Tracks
<1>8. QED
  BY Zenon, <1>3, <1>6, <1>7 DEF FifoInv

(* Every step of the FIFO keeps it.                                        *)
LEMMA FifoStep ==
  ASSUME Sizes, FifoInv, [FifoNext]_FifoVars
  PROVE  FifoInv'
<1>1. FifoTypeOK'
  BY Zenon, FifoTypes DEF FifoInv
<1>2. CASE WClk
  BY Zenon, <1>1, <1>2, WClkTracks DEF FifoInv
<1>3. CASE RClk
  BY Zenon, <1>1, <1>3, RClkTracks DEF FifoInv
<1>4. CASE BothClk
  BY Zenon, <1>1, <1>4, BothClkTracks DEF FifoInv
<1>5. CASE Reset
  <2>1. Cleared.bin = 0 /\ Cleared.ptr = Gray[0]
    BY DEF Cleared
  <2>2. Cleared.full = FALSE /\ Cleared.empty = TRUE
    BY DEF Cleared
  <2>3. 0 \in Pointers /\ InOrder(0, 0, 0, 0, 0, 0) /\ Dist(0, 0) = 0
    BY Zenon, ZeroTracks
  <2>4. 0 < Depth /\ 0 < ALMOST_FULL_SIZE
    BY Lengths
  <2>5. Tracks(0, 0, 0, 0)'
    BY Zenon, <1>5, <2>1, <2>2, <2>3, <2>4 DEF Reset, Tracks
  <2>6. QED
    BY Zenon, <1>1, <2>3, <2>5 DEF FifoInv
<1>6. CASE UNCHANGED FifoVars
  <2>1. PICK r1 \in Pointers, r2 \in Pointers,
             w1 \in Pointers, w2 \in Pointers : Tracks(r1, r2, w1, w2)
    BY Zenon DEF FifoInv
  <2>2. Tracks(r1, r2, w1, w2)'
    BY Zenon, <1>6, <2>1 DEF Tracks, FifoVars, wVars, rVars
  <2>3. QED
    BY Zenon, <1>1, <2>2 DEF FifoInv
<1>7. QED
  BY Zenon, <1>2, <1>3, <1>4, <1>5, <1>6 DEF FifoNext

(* The invariant of the FIFO.                                              *)
THEOREM FifoInvHolds == FifoSpec => []FifoInv
<1>0. Sizes
  BY FifoSizes
<1>1. FifoInit => FifoInv
  BY <1>0, FifoInitInv
<1>2. FifoInv /\ [FifoNext]_FifoVars => FifoInv'
  BY <1>0, FifoStep
<1>3. QED
  BY <1>1, <1>2, PTL DEF FifoSpec

(* What the invariant says of the pointers.                                *)
LEMMA FifoPointers ==
  ASSUME Sizes, FifoInv
  PROVE  PointersSound
<1>1. PICK r1 \in Pointers, r2 \in Pointers, w1 \in Pointers, w2 \in Pointers :
        Tracks(r1, r2, w1, w2)
  BY Zenon DEF FifoInv
<1>2. FifoTypeOK /\ wbin \in Pointers /\ rbin \in Pointers
  BY Zenon, NextPointers DEF FifoInv
<1>3. /\ Binary[wq1_rptr] = r1 /\ Binary[wq2_rptr] = r2
      /\ Binary[rq1_wptr] = w1 /\ Binary[rq2_wptr] = w2
  BY Zenon, <1>1, BinaryOfGray DEF Tracks, Pointers
<1>4. \A a, b \in Pointers : (a - b) % Span = Dist(a, b)
  BY Circle
<1>5. InOrder(wbin, rbin, r1, r2, w1, w2)
  BY Zenon, <1>1 DEF Tracks
<1>6. /\ Dist(wbin, r1) <= Depth /\ Dist(wbin, r2) <= Depth
      /\ Dist(w1, rbin) <= Dist(wbin, rbin)
      /\ Dist(w2, rbin) <= Dist(wbin, rbin)
  BY Zenon, <1>2, <1>5, OrderBounds
<1>7. SeenIsPast
  <2>1. /\ (wbin - r1) % Span <= Depth
        /\ (wbin - r2) % Span <= Depth
    BY Zenon, <1>2, <1>4, <1>6
  <2>2. /\ (w1 - rbin) % Span <= Count
        /\ (w2 - rbin) % Span <= Count
    BY Zenon, <1>2, <1>4, <1>6 DEF Count
  <2>3. \A g \in {wq1_rptr, wq2_rptr} :
          (wbin - Binary[g]) % Span <= Depth
    BY Zenon, <1>3, <2>1
  <2>4. \A g \in {rq1_wptr, rq2_wptr} :
          (Binary[g] - rbin) % Span <= Count
    BY Zenon, <1>3, <2>2
  <2>5. QED
    BY Zenon, <2>3, <2>4 DEF SeenIsPast
<1>8. QED
  BY Zenon, <1>2, <1>7 DEF PointersSound

(* What it says of the flags.                                              *)
LEMMA FifoFlags ==
  ASSUME Sizes, FifoInv
  PROVE  FlagsSafe
<1>1. PICK r1 \in Pointers, r2 \in Pointers, w1 \in Pointers, w2 \in Pointers :
        Tracks(r1, r2, w1, w2)
  BY Zenon DEF FifoInv
<1>2. wbin \in Pointers /\ rbin \in Pointers
  BY Zenon, NextPointers DEF FifoInv
<1> DEFINE n == Dist(wbin, rbin)
           a == Dist(wbin, r2)
           b == Dist(w2, rbin)
<1>3. Count = n
  BY Circle, <1>2 DEF Count
<1>4. InOrder(wbin, rbin, r1, r2, w1, w2)
  BY Zenon, <1>1 DEF Tracks
<1>5. n <= Depth /\ n <= a /\ b <= n
  BY Zenon, <1>2, <1>4, OrderBounds
<1>6. /\ n \in Nat /\ a \in Nat /\ b \in Nat /\ Depth \in Nat
      /\ ALMOST_FULL_SIZE \in Nat /\ ALMOST_EMPTY_SIZE \in Nat
  BY <1>2, Lengths
<1>7. /\ ~wfull => a < Depth
      /\ ~w_almost_full => a < ALMOST_FULL_SIZE
      /\ ~rempty => b > 0
      /\ ~r_almost_empty => b > ALMOST_EMPTY_SIZE
  BY Zenon, <1>1 DEF Tracks
<1> HIDE DEF n, a, b
<1>8. /\ n = Depth => ~(a < Depth)
      /\ n = 0 => ~(b > 0)
      /\ n >= ALMOST_FULL_SIZE => ~(a < ALMOST_FULL_SIZE)
      /\ n <= ALMOST_EMPTY_SIZE => ~(b > ALMOST_EMPTY_SIZE)
  BY <1>5, <1>6
<1>9. QED
  BY Zenon, <1>3, <1>5, <1>7, <1>8
     DEF FlagsSafe, NeverOverrun, AlmostSafe

(* Whatever the depth, and however the edges of the two clocks fall, each  *)
(* side of small_async_fifo holds in its flip-flops a pointer the other    *)
(* side had.                                                               *)
THEOREM FifoPointersSound == FifoSpec => []PointersSound
<1>0. Sizes
  BY FifoSizes
<1>1. FifoInv => PointersSound
  BY <1>0, FifoPointers
<1>2. QED
  BY <1>1, FifoInvHolds, PTL

(* And its flags err on the safe side: no word is written to a full FIFO   *)
(* or read from an empty one, and the almost flags come in time.           *)
THEOREM FifoFlagsSafe == FifoSpec => []FlagsSafe
<1>0. Sizes
  BY FifoSizes
<1>1. FifoInv => FlagsSafe
  BY <1>0, FifoFlags
<1>2. QED
  BY <1>1, FifoInvHolds, PTL

-----------------------------------------------------------------------------
(* The words in the FIFO.                                                  *)

(* The words of the memory m from read pointer r to write pointer w.       *)
Stored(w, r, m) == [i \in 1 .. Dist(w, r) |-> m[(r + i - 1) % Depth]]

Memory == [0 .. Depth - 1 -> Data]

(* Once round the pointers' span is twice round the memory.                *)
LEMMA TwiceRound ==
  ASSUME Sizes, NEW a \in Int
  PROVE  (a + Span) % Depth = a % Depth
<1> DEFINE D == Depth
<1>1. D \in Nat \ {0} /\ a + Span = D + (D + a) /\ D + a \in Int
  BY Lengths
<1> HIDE DEF D
<1>2. (D + (D + a)) % D = (D + a) % D
  BY Zenon, <1>1, WholeTurn
<1>3. (D + a) % D = a % D
  BY Zenon, <1>1, WholeTurn
<1>4. QED
  BY Zenon, <1>1, <1>2, <1>3 DEF D

(* Places less than a round apart are different.                           *)
LEMMA Apart ==
  ASSUME NEW D \in Nat \ {0}, NEW a \in Int, NEW e \in 1 .. D - 1
  PROVE  a % D # (a + e) % D
<1>1. SUFFICES ASSUME a % D = (a + e) % D PROVE FALSE
  OBVIOUS
<1>2. PICK q \in Int : a = q * D + (a % D)
  BY Divided
<1>3. a + e \in Int /\ a % D \in 0 .. D - 1
  BY Divided
<1>4. PICK p \in Int : a + e = p * D + ((a + e) % D)
  BY <1>3, Divided
<1> DEFINE x == a % D
<1>5. a = q * D + x /\ a + e = p * D + x /\ x \in Int
  BY <1>1, <1>2, <1>3, <1>4
<1> HIDE DEF x
<1>6. e = (p - q) * D + 0
  BY <1>5
<1>7. /\ (p - q) * D + 0 = 0 * D + e /\ p - q \in Int /\ 0 \in Int
      /\ 0 \in 0 .. D - 1 /\ e \in 0 .. D - 1 /\ e # 0
  BY <1>6
<1>8. 0 = e
  BY Zenon, <1>7, OneRemainder
<1>9. QED
  BY Zenon, <1>7, <1>8

(* The words in the FIFO are a sequence.                                   *)
LEMMA StoredType ==
  ASSUME Sizes, NEW w \in Pointers, NEW r \in Pointers, NEW m \in Memory
  PROVE  /\ Stored(w, r, m) \in Seq(Data)
         /\ Len(Stored(w, r, m)) = Dist(w, r)
         /\ \A i \in 1 .. Dist(w, r) :
              Stored(w, r, m)[i] = m[(r + i - 1) % Depth]
<1> DEFINE n == Dist(w, r)
<1>1. n \in Nat /\ Depth \in Nat \ {0} /\ Pointers \subseteq Int
  BY Lengths
<1>2. ASSUME NEW i \in 1 .. n
      PROVE  m[(r + i - 1) % Depth] \in Data
  <2>1. r + i - 1 \in Int
    BY <1>1
  <2>2. (r + i - 1) % Depth \in 0 .. Depth - 1
    BY Zenon, <1>1, <2>1, Divided
  <2>3. QED
    BY <2>2 DEF Memory
<1>3. Stored(w, r, m) \in [1 .. n -> Data]
  BY Zenon, <1>2 DEF Stored
<1>4. Stored(w, r, m) \in Seq(Data) /\ Len(Stored(w, r, m)) = n
  BY <1>1, <1>3
<1>5. QED
  BY Zenon, <1>4 DEF Stored

(* Reading takes the first word.                                           *)
LEMMA ReadTakes ==
  ASSUME Sizes, NEW w \in Pointers, NEW r \in Pointers, NEW m \in Memory,
         Dist(w, r) > 0
  PROVE  Stored(w, Advance(r, 1), m) = Tail(Stored(w, r, m))
<1> DEFINE n == Dist(w, r)
           u == Advance(r, 1)
           q == Stored(w, r, m)
           p == Stored(w, u, m)
<1>1. /\ n \in Nat /\ n >= 1 /\ Depth \in Nat \ {0} /\ r \in Int
      /\ Span \in Int
  BY Lengths
<1>2. u \in Pointers /\ Dist(w, u) = n - 1
  <2>1. 1 \in {0, 1} /\ n >= 1
    BY <1>1
  <2>2. QED
    BY Zenon, <2>1, Circle, Moved
<1>3. /\ q \in Seq(Data) /\ Len(q) = n
      /\ \A i \in 1 .. n : q[i] = m[(r + i - 1) % Depth]
  BY Zenon, StoredType
<1>4. /\ p \in Seq(Data) /\ Len(p) = n - 1
      /\ \A i \in 1 .. n - 1 : p[i] = m[(u + i - 1) % Depth]
  <2>1. /\ p \in Seq(Data) /\ Len(p) = Dist(w, u)
        /\ \A i \in 1 .. Dist(w, u) : p[i] = m[(u + i - 1) % Depth]
    BY Zenon, <1>2, StoredType
  <2> HIDE DEF p, n
  <2>2. QED
    BY Zenon, <1>2, <2>1
<1>5. q # << >>
  <2> HIDE DEF q
  <2>1. QED
    BY <1>1, <1>3
<1>6. /\ Tail(q) \in Seq(Data) /\ Len(Tail(q)) = n - 1
      /\ \A i \in 1 .. n - 1 : Tail(q)[i] = q[i + 1]
  <2> HIDE DEF q, n
  <2>1. QED
    BY Zenon, <1>3, <1>5, HeadTailProperties
<1>7. ASSUME NEW i \in 1 .. n - 1 PROVE p[i] = Tail(q)[i]
  <2>1. /\ i + 1 \in 1 .. n /\ r + (i + 1) - 1 \in Int
        /\ u + i - 1 \in Int /\ r + (i + 1) - 1 = r + i
    <3>1. u \in Int
      BY <1>2, Lengths
    <3> HIDE DEF u, n
    <3>2. QED
      BY <1>1, <3>1
  <2>2. u + i - 1 = r + i \/ (u + i - 1) + Span = r + i
    BY <1>1, <2>1 DEF Advance
  <2>3. (u + i - 1) % Depth = (r + i) % Depth
    BY Zenon, <2>1, <2>2, TwiceRound
  <2> HIDE DEF p, q, u, n
  <2>4. q[i + 1] = m[(r + i) % Depth]
    BY Zenon, <1>3, <2>1
  <2>5. QED
    BY Zenon, <1>4, <1>6, <2>3, <2>4
<1> HIDE DEF p, q, n
<1>8. p = Tail(q)
  <2>1. Len(p) = Len(Tail(q)) /\ \A i \in 1 .. Len(p) : p[i] = Tail(q)[i]
    BY Zenon, <1>4, <1>6, <1>7
  <2>2. QED
    BY Zenon, <1>4, <1>6, <2>1, SeqEqual
<1>9. QED
  BY Zenon, <1>8 DEF p, q

(* Writing appends a word, and overwrites none that is to be read.         *)
LEMMA WriteAppends ==
  ASSUME Sizes, NEW w \in Pointers, NEW r \in Pointers, NEW m \in Memory,
         NEW d \in Data, Dist(w, r) < Depth
  PROVE  /\ [m EXCEPT ![w % Depth] = d] \in Memory
         /\ Stored(Advance(w, 1), r, [m EXCEPT ![w % Depth] = d])
              = Append(Stored(w, r, m), d)
<1> DEFINE n == Dist(w, r)
           v == Advance(w, 1)
           l == [m EXCEPT ![w % Depth] = d]
           q == Stored(w, r, m)
           p == Stored(v, r, l)
<1>1. /\ n \in Nat /\ n < Depth /\ Depth \in Nat \ {0} /\ r \in Int
      /\ w \in Int /\ Span \in Int /\ Span = 2 * Depth
  BY Lengths
<1>2. v \in Pointers /\ Dist(v, r) = n + 1
  <2>1. 1 \in {0, 1} /\ n + 1 < Span
    BY <1>1
  <2>2. QED
    BY Zenon, <2>1, Circle, Moved
<1>3. w % Depth \in 0 .. Depth - 1
  BY Zenon, <1>1, Divided
<1>4. l \in Memory /\ l[w % Depth] = d
      /\ \A a \in 0 .. Depth - 1 : a # w % Depth => l[a] = m[a]
  BY Zenon, <1>3 DEF Memory
<1> HIDE DEF l
<1>5. /\ q \in Seq(Data) /\ Len(q) = n
      /\ \A i \in 1 .. n : q[i] = m[(r + i - 1) % Depth]
  BY Zenon, StoredType
<1>6. /\ p \in Seq(Data) /\ Len(p) = n + 1
      /\ \A i \in 1 .. n + 1 : p[i] = l[(r + i - 1) % Depth]
  <2>1. /\ p \in Seq(Data) /\ Len(p) = Dist(v, r)
        /\ \A i \in 1 .. Dist(v, r) : p[i] = l[(r + i - 1) % Depth]
    BY Zenon, <1>2, <1>4, StoredType
  <2> HIDE DEF p, n
  <2>2. QED
    BY Zenon, <1>2, <2>1
<1>7. /\ Append(q, d) \in Seq(Data) /\ Len(Append(q, d)) = n + 1
      /\ \A i \in 1 .. n : Append(q, d)[i] = q[i]
      /\ Append(q, d)[n + 1] = d
  <2> HIDE DEF q, n
  <2>1. /\ Append(q, d) \in Seq(Data) /\ Len(Append(q, d)) = Len(q) + 1
        /\ \A i \in 1 .. Len(q) : Append(q, d)[i] = q[i]
        /\ Append(q, d)[Len(q) + 1] = d
    BY <1>5
  <2>2. QED
    BY Zenon, <1>5, <2>1
<1>8. (r + n) % Depth = w % Depth
  <2>1. w = r + n \/ w + Span = r + n
    BY <1>1 DEF Dist
  <2>2. QED
    BY Zenon, <1>1, <2>1, TwiceRound
<1>9. ASSUME NEW i \in 1 .. n PROVE p[i] = Append(q, d)[i]
  <2> DEFINE a == r + i - 1
             e == n - (i - 1)
  <2>1. /\ a \in Int /\ e \in 1 .. Depth - 1 /\ a + e = r + n
        /\ i \in 1 .. n + 1
    BY <1>1
  <2>2. a % Depth \in 0 .. Depth - 1
    BY Zenon, <1>1, <2>1, Divided
  <2>3. a % Depth # w % Depth
    <3> HIDE DEF a, e, n
    <3>1. a % Depth # (a + e) % Depth
      BY Zenon, <1>1, <2>1, Apart
    <3>2. QED
      BY Zenon, <1>8, <2>1, <3>1
  <2>4. l[a % Depth] = m[a % Depth]
    BY Zenon, <1>4, <2>2, <2>3
  <2> HIDE DEF p, q, n
  <2>5. QED
    BY Zenon, <1>5, <1>6, <1>7, <2>1, <2>4
<1>10. p[n + 1] = Append(q, d)[n + 1]
  <2>1. n + 1 \in 1 .. n + 1 /\ r + (n + 1) - 1 = r + n
    BY <1>1
  <2>2. p[n + 1] = l[(r + n) % Depth]
    <3> HIDE DEF p, n
    <3>1. QED
      BY Zenon, <1>6, <2>1
  <2>3. QED
    BY Zenon, <1>4, <1>7, <1>8, <2>2
<1>11. \A i \in 1 .. n + 1 : i \in 1 .. n \/ i = n + 1
  BY <1>1
<1> HIDE DEF p, q, n
<1>12. p = Append(q, d)
  <2>1. \A i \in 1 .. n + 1 : p[i] = Append(q, d)[i]
    BY Zenon, <1>9, <1>10, <1>11
  <2>2. Len(p) = Len(Append(q, d))
        /\ \A i \in 1 .. Len(p) : p[i] = Append(q, d)[i]
    BY Zenon, <1>6, <1>7, <2>1
  <2>3. QED
    BY Zenon, <1>6, <1>7, <2>2, SeqEqual
<1>13. QED
  BY Zenon, <1>4, <1>12 DEF p, q, l

(* What the edges of a step do to the pointers and the memory.             *)
LEMMA FifoMoves ==
  ASSUME Sizes, FifoInv, WClk \/ RClk \/ BothClk
  PROVE  \E c, k \in {0, 1}, d \in Data :
           /\ wbin' = Advance(wbin, c) /\ rbin' = Advance(rbin, k)
           /\ c = 1 => /\ Dist(wbin, rbin) < Depth
                       /\ mem' = [mem EXCEPT ![wbin % Depth] = d]
           /\ c = 0 => mem' = mem
           /\ k = 1 => Dist(wbin, rbin) > 0
<1>1. PICK r1 \in Pointers, r2 \in Pointers, w1 \in Pointers, w2 \in Pointers :
        Tracks(r1, r2, w1, w2)
  BY Zenon DEF FifoInv
<1>2. FifoTypeOK /\ wbin \in Pointers /\ rbin \in Pointers
  BY Zenon, NextPointers DEF FifoInv
<1>3. PICK n \in Nat, a \in Nat, b \in Nat :
        n = Dist(wbin, rbin) /\ a = Dist(wbin, r2) /\ b = Dist(w2, rbin)
  BY <1>2, Lengths
<1>4. n <= a /\ b <= n /\ Depth \in Nat
  <2>1. InOrder(wbin, rbin, r1, r2, w1, w2)
    BY Zenon, <1>1 DEF Tracks
  <2>2. Dist(wbin, rbin) <= Dist(wbin, r2) /\ Dist(w2, rbin) <= Dist(wbin, rbin)
    BY Zenon, <1>2, <2>1, OrderBounds
  <2>3. Depth \in Nat
    BY Lengths
  <2>4. QED
    BY Zenon, <1>3, <2>2, <2>3
<1>5. (a < Depth => n < Depth) /\ (b > 0 => n > 0) /\ 0 # 1
  BY <1>4
<1>6. (~wfull => n < Depth) /\ (~rempty => n > 0)
  BY Zenon, <1>1, <1>3, <1>5 DEF Tracks
<1>7. ASSUME NEW wr \in BOOLEAN, NEW d \in Data, NEW g,
             WEdge(wr, d, g)
      PROVE  \E c \in {0, 1} :
               /\ wbin' = Advance(wbin, c)
               /\ c = 1 => /\ n < Depth
                           /\ mem' = [mem EXCEPT ![wbin % Depth] = d]
               /\ c = 0 => mem' = mem
  <2>1. PICK c \in {0, 1} : c = One(wr /\ ~wfull)
    BY Zenon, <1>2, NextPointers
  <2>2. wbin' = Advance(wbin, c)
    BY Zenon, <1>2, <1>7, <2>1, NextPointers DEF WEdge
  <2>3. CASE wr /\ ~wfull
    <3>1. c = 1 /\ mem' = [mem EXCEPT ![wbin % Depth] = d]
      BY Zenon, <1>7, <2>1, <2>3 DEF One, WEdge, fifo_mem
    <3>2. QED
      BY Zenon, <1>5, <1>6, <2>2, <2>3, <3>1
  <2>4. CASE ~(wr /\ ~wfull)
    <3>1. c = 0 /\ mem' = mem
      BY Zenon, <1>7, <2>1, <2>4 DEF One, WEdge, fifo_mem
    <3>2. QED
      BY Zenon, <1>5, <2>2, <3>1
  <2>5. QED
    BY Zenon, <2>3, <2>4
<1>8. ASSUME NEW rd \in BOOLEAN, NEW h, REdge(rd, h)
      PROVE  \E k \in {0, 1} : rbin' = Advance(rbin, k) /\ (k = 1 => n > 0)
  <2>1. PICK k \in {0, 1} : k = One(rd /\ ~rempty)
    BY Zenon, <1>2, NextPointers
  <2>2. rbin' = Advance(rbin, k)
    BY Zenon, <1>2, <1>8, <2>1, NextPointers DEF REdge
  <2>3. k = 1 => n > 0
    BY Zenon, <1>5, <1>6, <2>1 DEF One
  <2>4. QED
    BY Zenon, <2>2, <2>3
<1>9. Advance(wbin, 0) = wbin /\ Advance(rbin, 0) = rbin
  BY <1>2, NoAdvance
<1>10. CASE WClk
  <2>1. PICK wr \in BOOLEAN, d \in Data : WEdge(wr, d, rptr)
    BY Zenon, <1>10 DEF WClk
  <2>2. rbin' = Advance(rbin, 0)
    BY Zenon, <1>9, <1>10 DEF WClk, rVars
  <2>3. QED
    BY Zenon, <1>3, <1>5, <1>7, <2>1, <2>2
<1>11. CASE RClk
  <2>1. PICK rd \in BOOLEAN : REdge(rd, wptr)
    BY Zenon, <1>11 DEF RClk
  <2>2. wbin' = Advance(wbin, 0) /\ mem' = mem
    BY Zenon, <1>9, <1>11 DEF RClk, wVars
  <2>3. \E d : d \in Data
    BY DEF Sizes
  <2>4. QED
    BY Zenon, <1>3, <1>5, <1>8, <2>1, <2>2, <2>3
<1>12. CASE BothClk
  <2>1. PICK wr \in BOOLEAN, rd \in BOOLEAN, d \in Data :
          \E g, h : WEdge(wr, d, g) /\ REdge(rd, h)
    BY Zenon, <1>12 DEF BothClk
  <2>2. PICK g, h : WEdge(wr, d, g) /\ REdge(rd, h)
    BY Zenon, <2>1
  <2>3. PICK c \in {0, 1} :
           /\ wbin' = Advance(wbin, c)
           /\ c = 1 => /\ n < Depth
                       /\ mem' = [mem EXCEPT ![wbin % Depth] = d]
           /\ c = 0 => mem' = mem
    BY Zenon, <1>7, <2>2
  <2>4. PICK k \in {0, 1} : rbin' = Advance(rbin, k) /\ (k = 1 => n > 0)
    BY Zenon, <1>8, <2>2
  <2>5. QED
    BY Zenon, <1>3, <2>3, <2>4
<1>13. QED
  BY Zenon, <1>10, <1>11, <1>12

(* The words in the FIFO, before and after a step.                         *)
LEMMA ContentsStored ==
  ASSUME Sizes, wbin \in Pointers, rbin \in Pointers
  PROVE  Contents = Stored(wbin, rbin, mem)
<1>1. Count = Dist(wbin, rbin)
  BY Circle DEF Count
<1>2. QED
  BY Zenon, <1>1 DEF Contents, Stored

(* The same for the next state.                                            *)
LEMMA ContentsStoredNext ==
  ASSUME Sizes, (wbin \in Pointers)', (rbin \in Pointers)'
  PROVE  Contents' = Stored(wbin', rbin', mem')
<1>1. \A a, b \in Pointers : (a - b) % Span = Dist(a, b)
  BY Circle
<1>2. Count' = Dist(wbin', rbin')
  BY Zenon, <1>1 DEF Count
<1>3. QED
  BY Zenon, <1>2 DEF Contents, Stored

(* With words written and read at once, a FIFO that was neither empty nor  *)
(* full loses its first word and gets one more.                            *)
LEMMA WriteAndRead ==
  ASSUME Sizes, NEW w \in Pointers, NEW r \in Pointers, NEW m \in Memory,
         NEW d \in Data, Dist(w, r) < Depth, Dist(w, r) > 0
  PROVE  Stored(Advance(w, 1), Advance(r, 1), [m EXCEPT ![w % Depth] = d])
           = Append(Tail(Stored(w, r, m)), d)
<1> DEFINE v == Advance(w, 1)
           l == [m EXCEPT ![w % Depth] = d]
           q == Stored(w, r, m)
<1>1. l \in Memory /\ Stored(v, r, l) = Append(q, d)
  BY Zenon, WriteAppends
<1>2. v \in Pointers /\ Dist(v, r) > 0
  <2>1. /\ Dist(w, r) \in Nat /\ Span = 2 * Depth
        /\ Depth \in Nat \ {0} /\ 1 \in {0, 1}
    BY Lengths
  <2>2. Dist(w, r) + 1 < Span
    BY <2>1
  <2>3. v \in Pointers /\ Dist(v, r) = Dist(w, r) + 1
    BY Zenon, <2>1, <2>2, Circle, Moved
  <2>4. QED
    BY <2>1, <2>3
<1> HIDE DEF v, l
<1>3. Stored(v, Advance(r, 1), l) = Tail(Append(q, d))
  <2> HIDE DEF q
  <2>1. Stored(v, Advance(r, 1), l) = Tail(Stored(v, r, l))
    BY Zenon, <1>1, <1>2, ReadTakes
  <2>2. QED
    BY Zenon, <1>1, <2>1
<1>4. q \in Seq(Data) /\ Len(q) > 0
  <2>1. q \in Seq(Data) /\ Len(q) = Dist(w, r)
    BY Zenon, StoredType
  <2> HIDE DEF q
  <2>2. QED
    BY <2>1
<1>5. Tail(Append(q, d)) = Append(Tail(q), d)
  <2> HIDE DEF q
  <2>1. q # << >>
    BY <1>4
  <2>2. QED
    BY <1>4, <2>1, HeadTailAppend
<1>6. QED
  BY Zenon, <1>3, <1>5 DEF v, l

(* What a step may do to the words in the FIFO.                            *)
LEMMA FifoContents ==
  ASSUME Sizes, FifoInv, FifoInv', [FifoNext]_FifoVars
  PROVE  [PF!Next \/ PutAndGet \/ Contents' = << >>]_Contents
<1>1. /\ wbin \in Pointers /\ rbin \in Pointers /\ mem \in Memory
      /\ wbin' \in Pointers /\ rbin' \in Pointers
  BY Zenon DEF FifoInv, FifoTypeOK, Pointers, Memory
<1>2. PICK w \in Pointers, r \in Pointers, m \in Memory :
        w = wbin /\ r = rbin /\ m = mem
  BY Zenon, <1>1
<1>3. Contents = Stored(w, r, m)
  BY Zenon, <1>2, ContentsStored
<1>4. Contents' = Stored(wbin', rbin', mem')
  BY Zenon, <1>1, ContentsStoredNext
<1>5. Contents \in Seq(Data) /\ Len(Contents) = Dist(w, r)
  BY Zenon, <1>3, StoredType
<1>6. Dist(w, r) > 0 => Contents # << >>
  <2>1. ASSUME Dist(w, r) > 0 PROVE Contents # << >>
    BY <1>5, <2>1
  <2>2. QED
    BY Zenon, <2>1
<1>7. CASE WClk \/ RClk \/ BothClk
  <2>1. PICK c \in {0, 1}, k \in {0, 1}, d \in Data :
          /\ wbin' = Advance(w, c) /\ rbin' = Advance(r, k)
          /\ c = 1 => /\ Dist(w, r) < Depth
                      /\ mem' = [m EXCEPT ![w % Depth] = d]
          /\ c = 0 => mem' = m
          /\ k = 1 => Dist(w, r) > 0
    BY Zenon, <1>2, <1>7, FifoMoves
  <2>2. Advance(w, 0) = w /\ Advance(r, 0) = r
    BY NoAdvance
  <2>3. CASE c = 0 /\ k = 0
    BY Zenon, <1>3, <1>4, <2>1, <2>2, <2>3
  <2>4. CASE c = 0 /\ k = 1
    <3>1. Contents' = Tail(Contents)
      BY Zenon, <1>3, <1>4, <2>1, <2>2, <2>4, ReadTakes
    <3>2. QED
      BY Zenon, <1>6, <2>1, <2>4, <3>1 DEF PF!Next, PF!Get
  <2>5. CASE c = 1 /\ k = 0
    <3>1. Contents' = Append(Contents, d)
      <4>1. /\ wbin' = Advance(w, 1) /\ rbin' = r /\ Dist(w, r) < Depth
            /\ mem' = [m EXCEPT ![w % Depth] = d]
        BY Zenon, <2>1, <2>2, <2>5
      <4>2. Contents' = Append(Stored(w, r, m), d)
        BY Zenon, <1>4, <4>1, WriteAppends
      <4>3. QED
        BY Zenon, <1>3, <4>2
    <3>2. Len(Contents) < Depth
      BY Zenon, <1>5, <2>1, <2>5
    <3>3. QED
      BY Zenon, <3>1, <3>2 DEF PF!Next, PF!Put
  <2>6. CASE c = 1 /\ k = 1
    <3>1. Contents' = Append(Tail(Contents), d)
      <4>1. /\ wbin' = Advance(w, 1) /\ rbin' = Advance(r, 1)
            /\ mem' = [m EXCEPT ![w % Depth] = d]
            /\ Dist(w, r) < Depth /\ Dist(w, r) > 0
        BY Zenon, <2>1, <2>6
      <4>2. Contents' = Append(Tail(Stored(w, r, m)), d)
        BY Zenon, <1>4, <4>1, WriteAndRead
      <4>3. QED
        BY Zenon, <1>3, <4>2
    <3>2. Len(Contents) < Depth /\ Contents # << >>
      BY Zenon, <1>5, <1>6, <2>1, <2>6
    <3>3. QED
      BY Zenon, <3>1, <3>2 DEF PutAndGet
  <2>7. QED
    BY Zenon, <2>3, <2>4, <2>5, <2>6
<1>8. CASE Reset
  <2>1. Cleared.bin = 0
    BY DEF Cleared
  <2>2. wbin' = 0 /\ rbin' = 0
    BY Zenon, <1>8, <2>1 DEF Reset
  <2>3. Dist(0, 0) = 0
    BY Zenon, ZeroTracks
  <2>4. Contents' = [i \in 1 .. 0 |-> mem'[(0 + i - 1) % Depth]]
    BY Zenon, <1>4, <2>2, <2>3 DEF Stored
  <2>5. Contents' = << >>
    BY <2>4
  <2>6. QED
    BY Zenon, <2>5
<1>9. CASE UNCHANGED FifoVars
  <2>1. wbin' = w /\ rbin' = r /\ mem' = m
    BY Zenon, <1>2, <1>9 DEF FifoVars, wVars, rVars
  <2>2. QED
    BY Zenon, <1>3, <1>4, <2>1
<1>10. QED
  BY Zenon, <1>7, <1>8, <1>9 DEF FifoNext

(* The words come out whole and in the order they went in, whatever the    *)
(* depth and the clocks: the pointers, the flags and the memory of         *)
(* small_async_fifo implement a FIFO.                                      *)
THEOREM FifoIsFifo == FifoSpec => IsFifo
<1>0. Sizes
  BY FifoSizes
<1>1. FifoInit => PF!Init
  <2>1. SUFFICES ASSUME FifoInit PROVE Contents = << >>
    BY Zenon DEF PF!Init
  <2>2. Cleared.bin = 0
    BY DEF Cleared
  <2>3. wbin = 0 /\ rbin = 0 /\ 0 \in Pointers /\ Dist(0, 0) = 0
    BY Zenon, <1>0, <2>1, <2>2, ZeroTracks DEF FifoInit
  <2>4. Contents = [i \in 1 .. 0 |-> mem[(0 + i - 1) % Depth]]
    BY Zenon, <1>0, <2>3, ContentsStored DEF Stored
  <2>5. QED
    BY <2>4
<1>2. FifoInv /\ FifoInv' /\ [FifoNext]_FifoVars
        => [PF!Next \/ PutAndGet \/ Contents' = << >>]_Contents
  BY <1>0, FifoContents
<1>3. QED
  BY <1>1, <1>2, FifoInvHolds, PTL DEF FifoSpec, IsFifo
=============================================================================
