------------------------------ MODULE TxQueue -------------------------------
(***************************************************************************)
(* tx_queue.v of the 10G and 1G interfaces: packets from the AXI stream    *)
(* cross, one word at a time, through a FIFO into the MAC's clock domain.  *)
(* The MAC cannot pause inside a packet, so a packet is only started once  *)
(* an entry in a second FIFO (AsyncFifo) says that its last word is in.    *)
(*                                                                         *)
(* A step is an edge of the AXI clock or of the MAC's clock.  A word is    *)
(* abstracted to its packet, its place in it and its end-of-packet bit.    *)
(***************************************************************************)
EXTENDS Integers, Sequences, SequencesExt, FiniteSets

CONSTANTS
  DEPTH,               \* words in tx_fifo (FIFO36_72, FIFO18)
  ALMOST_FULL_OFFSET,  \* tx_fifo is almost full with this many words free
  INFO_DEPTH,          \* entries in tx_info_fifo
  Lens,                \* packet lengths, in words
  Speeds               \* the queues modelled: a subset of {"10G", "1G"}

ASSUME SizeAssumption ==
  /\ DEPTH \in Nat /\ INFO_DEPTH \in Nat \ {0}
  /\ ALMOST_FULL_OFFSET \in 0 .. DEPTH
  /\ Lens \subseteq Nat \ {0, 1}   \* an Ethernet packet has 60 bytes or more
  /\ Speeds \subseteq {"10G", "1G"}

(* tx_info_fifo has an entry for every packet that tready lets into        *)
(* tx_fifo: 512 entries, for 384 words (10G) or 896 (1G).                  *)
ASSUME InfoAssumption == DEPTH - ALMOST_FULL_OFFSET < 2 * INFO_DEPTH

VARIABLES
  speed,            \* which of the two queues this is
  axi,              \* the AXI master: its packet, the next word, tvalid
  tx_fifo,          \* words between the two clocks
  info_fifo_wr_en,  \* register of the 10G queue
  info,             \* number of entries in tx_info_fifo
  state,            \* MAC side: IDLE, WAIT_FOR_ACK, SEND_PKT, IFG
  tx_data,          \* the word last given to the MAC
  stalled           \* tlast was offered on an edge without tready

axiVars == <<axi, info_fifo_wr_en, stalled>>
macVars == <<state, tx_data>>
vars == <<speed, axiVars, tx_fifo, info, macVars>>

Ids == {0, 1}   \* tell a packet from the next
Word(id, nth, eop) == [id |-> id, nth |-> nth, eop |-> eop]

-----------------------------------------------------------------------------
(* The AXI master (external): once it offers a word it holds it until it   *)
(* is taken; between words it may pause.                                   *)
tlast == axi.valid /\ axi.nth = axi.len

Offers(m) ==
  IF m.nth = 1 THEN {[m EXCEPT !.valid = FALSE]} \cup
                    {[m EXCEPT !.valid = TRUE, !.len = n] : n \in Lens}
               ELSE {[m EXCEPT !.valid = v] : v \in BOOLEAN}

Taken == IF tlast THEN [id |-> 1 - axi.id, len |-> 0, nth |-> 1,
                        valid |-> FALSE]
                  ELSE [axi EXCEPT !.nth = @ + 1]

-----------------------------------------------------------------------------
(* Defect: ready only when tx_fifo is empty. *)
treadyWhenEmpty == tx_fifo = << >>

tready == DEPTH - Len(tx_fifo) > ALMOST_FULL_OFFSET

(* tx_info_fifo.winc: the 10G queue delays it by one edge.  Neither queue  *)
(* looks at tready.                                                        *)
winc == IF speed = "10G" THEN info_fifo_wr_en ELSE tlast

AxiClk ==
  /\ \E m \in IF axi.valid /\ ~tready THEN {axi}
              ELSE Offers(IF axi.valid THEN Taken ELSE axi) : axi' = m
  /\ tx_fifo' = IF axi.valid /\ tready
                THEN Append(tx_fifo, Word(axi.id, axi.nth, tlast))
                ELSE tx_fifo
  /\ info' = IF winc /\ info < INFO_DEPTH THEN info + 1 ELSE info
  /\ info_fifo_wr_en' = (speed = "10G" /\ tlast)
  /\ stalled' = (stalled \/ (tlast /\ ~tready))
  /\ UNCHANGED <<speed, macVars>>

-----------------------------------------------------------------------------
(* Defect: the entry is left in tx_info_fifo. *)
StartKeepsInfo ==
  /\ state = "IDLE" /\ info > 0
  /\ state' = "WAIT_FOR_ACK"
  /\ UNCHANGED <<speed, axiVars, tx_fifo, info, tx_data>>

(* An entry or a word that shows late on this side is an idle edge of this *)
(* clock, which changes nothing.  That an entry does not show before the   *)
(* last word of its packet is assumed of the FIFO primitives (external).   *)
Start ==
  /\ state = "IDLE" /\ info > 0
  /\ info' = info - 1
  /\ state' = "WAIT_FOR_ACK"
  /\ UNCHANGED <<speed, axiVars, tx_fifo, tx_data>>

(* fifo_rd_en; reading an empty FIFO (external) changes nothing.           *)
ReadFifo ==
  IF tx_fifo = << >> THEN UNCHANGED <<tx_fifo, tx_data>>
  ELSE /\ tx_data' = Head(tx_fifo)
       /\ tx_fifo' = Tail(tx_fifo)

(* Defect: the acknowledged packet waits for the next entry.               *)
AckedLate ==
  /\ state = "WAIT_FOR_ACK" /\ info > 0
  /\ ReadFifo
  /\ state' = "SEND_PKT"
  /\ UNCHANGED <<speed, axiVars, info>>

(* tx_ack: the first word has been taken. *)
Acked ==
  /\ state = "WAIT_FOR_ACK"
  /\ ReadFifo
  /\ state' = "SEND_PKT"
  /\ UNCHANGED <<speed, axiVars, info>>

(* Defect: the last word is not read from tx_fifo.                         *)
SendPktKeepsLast ==
  /\ state = "SEND_PKT"
  /\ \E eop_mac \in IF tx_fifo = << >> THEN BOOLEAN ELSE {Head(tx_fifo).eop} :
       \/ /\ eop_mac
          /\ state' = "IDLE"
          /\ UNCHANGED <<tx_fifo, tx_data>>
       \/ /\ ~eop_mac
          /\ ReadFifo
          /\ UNCHANGED state
  /\ UNCHANGED <<speed, axiVars, info>>

(* One word per edge up to the end of the packet; the outputs of an empty  *)
(* FIFO may show anything.                                                 *)
SendPkt ==
  /\ state = "SEND_PKT"
  /\ ReadFifo
  /\ \E eop_mac \in IF tx_fifo = << >> THEN BOOLEAN ELSE {Head(tx_fifo).eop} :
       state' = CASE ~eop_mac -> "SEND_PKT"
                  [] eop_mac /\ speed = "10G" -> "IDLE"
                  [] OTHER -> "IFG"
  /\ UNCHANGED <<speed, axiVars, info>>

Gap ==
  /\ state = "IFG"
  /\ state' = "IDLE"
  /\ UNCHANGED <<speed, axiVars, tx_fifo, info, tx_data>>

MacClk == Start \/ Acked \/ SendPkt \/ Gap

Init ==
  /\ speed \in Speeds
  /\ axi = [id |-> 0, len |-> 0, nth |-> 1, valid |-> FALSE]
  /\ tx_fifo = << >> /\ info_fifo_wr_en = FALSE /\ info = 0
  /\ state = "IDLE" /\ tx_data = Word(1, 0, TRUE)
  /\ stalled = FALSE

Next == AxiClk \/ MacClk
Spec == Init /\ [][Next]_vars

(* Both clocks run and the MAC acknowledges every packet.  The master need *)
(* not go on: only edges with a word offered or an entry under way count.  *)
FairSpec == /\ Spec
            /\ WF_vars(MacClk)
            /\ WF_vars(AxiClk /\ (axi.valid \/ info_fifo_wr_en))

-----------------------------------------------------------------------------
(* Complete packets in tx_fifo. *)
Eops == Cardinality({i \in 1 .. Len(tx_fifo) : tx_fifo[i].eop})

(* The packet being given to the MAC; its entry is no longer in the FIFO.  *)
InHand == IF state \in {"WAIT_FOR_ACK", "SEND_PKT"} THEN 1 ELSE 0

(* Entries for packets, the one about to be written included.              *)
Entries == info + InHand + IF info_fifo_wr_en THEN 1 ELSE 0

(* Types; tready keeps tx_fifo below the almost-full mark.                 *)
TypeOK ==
  /\ speed \in Speeds
  /\ axi \in [id : Ids, len : {0} \cup Lens, nth : Nat, valid : BOOLEAN]
  /\ Range(tx_fifo) \subseteq [id : Ids, nth : Nat, eop : BOOLEAN]
  /\ Len(tx_fifo) <= DEPTH - ALMOST_FULL_OFFSET
  /\ info_fifo_wr_en \in BOOLEAN /\ stalled \in BOOLEAN
  /\ info \in 0 .. INFO_DEPTH
  /\ state \in {"IDLE", "WAIT_FOR_ACK", "SEND_PKT", "IFG"}
  /\ tx_data \in [id : Ids, nth : Nat, eop : BOOLEAN]

(* While the MAC is given a packet its last word is already in tx_fifo, so *)
(* the MAC never runs dry inside it.  This, and the next two, hold until   *)
(* the last word of a packet is offered on an edge without tready.         *)
WholePacketWaits == ~stalled /\ InHand = 1 => Eops > 0

(* There is one entry for every complete packet, no more and no fewer.     *)
InfoMatches == ~stalled => Entries = Eops

(* The two FIFOs are sound together: types, one entry per packet, and the  *)
(* MAC never runs dry.                                                     *)
EntriesSound == TypeOK /\ InfoMatches /\ WholePacketWaits

(* The MAC gets whole packets, in order: a transmission starts with a      *)
(* packet's first word, goes on word after word and stops after its last.  *)
PacketsInOrder ==
  [][~stalled =>
       /\ state = "WAIT_FOR_ACK" /\ state' = "SEND_PKT" =>
            tx_data' = Word(1 - tx_data.id, 1, FALSE)
       /\ state = "SEND_PKT" /\ tx_data' # tx_data =>
            tx_data' = Word(tx_data.id, tx_data.nth + 1, tx_data'.eop)
       /\ state = "SEND_PKT" /\ state' # "SEND_PKT" => tx_data'.eop]_vars

(* "Only 1 cycle per packet!" (tx_queue.v:102): never more entries than    *)
(* complete packets.                                                       *)
OneInfoPerPacket == Entries <= Eops

(* A complete packet is started, and a packet started is finished.         *)
PacketsLeave == /\ Eops > 0 ~> state = "SEND_PKT"
                /\ state = "SEND_PKT" /\ ~stalled ~> state = "IDLE"

(* A master with a packet that fits below the almost-full mark does not    *)
(* wait for tready forever (a longer one does: its last word is never in). *)
ReadyAgain ==
  axi.valid /\ axi.len <= DEPTH - ALMOST_FULL_OFFSET /\ ~tready ~> tready
=============================================================================
