------------------------------ MODULE RxQueue -------------------------------
(***************************************************************************)
(* rx_queue.v of the 10G and 1G interfaces: frames from the MAC cross, one *)
(* word at a time, through a FIFO into the AXI clock domain; a word with   *)
(* no valid byte marks the end of a frame, and the MAC's verdict on the    *)
(* frame follows through a second FIFO (AsyncFifo), to be given with the   *)
(* frame's last word.                                                      *)
(*                                                                         *)
(* A step is an edge of the MAC's clock or of the AXI clock.  A word is    *)
(* abstracted to its frame and its place in it.  The 1G queue carries one  *)
(* byte per word: its words are never partly valid, and where the 10G      *)
(* queue asks for FF or 0 it asks for 1 or 0.                              *)
(***************************************************************************)
EXTENDS Integers, Sequences, SequencesExt, FiniteSets

CONSTANTS
  DEPTH,               \* words in rx_fifo (FIFO36_72, FIFO18)
  ALMOST_FULL_OFFSET,  \* rx_fifo is almost full with this many words free
  INFO_DEPTH,          \* entries in rx_info_fifo
  Lens,                \* frame lengths, in words
  LastValid,           \* valid bytes of a last word: "full" or "part"
  None                 \* no frame, no word

ASSUME SizeAssumption ==
  /\ DEPTH \in Nat /\ INFO_DEPTH \in Nat \ {0}
  /\ ALMOST_FULL_OFFSET \in 0 .. DEPTH
  /\ Lens \subseteq Nat \ {0, 1}   \* an Ethernet frame has 60 bytes or more
  /\ LastValid \subseteq {"full", "part"}

(* rx_info_fifo has an entry for every frame that fits in rx_fifo, end     *)
(* mark included: 512 entries, for 512 words of 8 bytes (10G) or 2048 of   *)
(* one byte (1G, where it asks for frames of 3 bytes or more).             *)
ASSUME InfoAssumption == \A n \in Lens : DEPTH <= (n + 1) * INFO_DEPTH

VARIABLES
  mac,        \* the MAC: current frame, words left of it, verdict owed
  state,      \* write side: IDLE, WAIT_FOR_EOP, DROP
  rx_fifo,    \* words between the two clocks
  info_fifo,  \* verdicts between the two clocks
  err_state,  \* read side: ERR_IDLE, ERR_WAIT, ERR_BUBBLE
  tdata,      \* the output register
  dropped,    \* some frame has been dropped
  lost        \* length of a frame that lost a word in a full rx_fifo, or 0

writeVars == <<mac, state, dropped, lost>>
readVars  == <<err_state, tdata>>
vars == <<writeVars, rx_fifo, info_fifo, readVars>>

-----------------------------------------------------------------------------
(* The MAC (external): words of a frame on consecutive edges, at least one *)
(* edge without data between frames, and one verdict per frame, before the *)
(* next frame ends.                                                        *)
Ids == {0, 1}   \* tell a frame from the next
Word(id, nth, last) == [end |-> FALSE, id |-> id, nth |-> nth, last |-> last]
EndMark(id) == [end |-> TRUE, id |-> id, nth |-> 0, last |-> FALSE]

Words == [end : BOOLEAN, id : Ids, nth : Nat, last : BOOLEAN]
ASSUME NoneAssumption == None \notin Ids \cup Words

Quiet == [valid |-> "none", word |-> EndMark(mac.id),
          next |-> [mac EXCEPT !.gap = TRUE]]

StartFrame ==
  {[valid |-> "full", word |-> Word(1 - mac.id, 1, FALSE),
    next |-> [mac EXCEPT !.id = 1 - @, !.len = n, !.left = n - 1,
                         !.gap = FALSE]] : n \in Lens}

GoOnFrame ==
  {[valid |-> v, word |-> Word(mac.id, mac.len - mac.left + 1, mac.left = 1),
    next |-> [mac EXCEPT !.left = @ - 1]]
     : v \in IF mac.left = 1 THEN LastValid ELSE {"full"}}

(* What the MAC may put on its outputs on this edge.                       *)
Inputs == IF mac.left > 0 THEN GoOnFrame
          ELSE {Quiet} \cup IF mac.gap THEN StartFrame ELSE {}

(* rx_good_frame or rx_bad_frame for the frame a verdict is owed for.      *)
Verdicts == {[id |-> mac.owed, bad |-> b] : b \in BOOLEAN}

-----------------------------------------------------------------------------
(* Write side, on an edge of the MAC's clock. *)
fifo_almost_full == DEPTH - Len(rx_fifo) <= ALMOST_FULL_OFFSET

(* Defect: a frame in progress is not written when rx_fifo is almost full. *)
fifo_wr_en_Almost(valid) ==
  ~fifo_almost_full /\ (state = "WAIT_FOR_EOP" \/ valid = "full")

(* Defect: almost full is not looked at. *)
fifo_wr_en_Always(valid) ==
  state # "DROP" /\ (state = "WAIT_FOR_EOP" \/ valid = "full")

fifo_wr_en(valid) ==
  \/ state = "IDLE" /\ valid = "full" /\ ~fifo_almost_full
  \/ state = "WAIT_FOR_EOP"

state_next(valid) ==
  CASE state = "IDLE" /\ valid = "full" ->
         IF fifo_almost_full THEN "DROP" ELSE "WAIT_FOR_EOP"
    [] state = "WAIT_FOR_EOP" /\ valid = "none" -> "IDLE"
    [] state = "DROP" /\ valid # "full" -> "IDLE"
    [] OTHER -> state

(* The FIFOs (FIFO36_72 external) lose what is written when they are full. *)
Push(fifo, x, depth) == IF Len(fifo) < depth THEN Append(fifo, x) ELSE fifo

(* Defect: only the verdict on a bad frame is passed on.                   *)
PushVerdictBadOnly ==
  /\ mac.owed # None
  /\ \E v \in Verdicts : info_fifo' = IF v.bad
                                       THEN Push(info_fifo, v, INFO_DEPTH)
                                       ELSE info_fifo

(* winc(rx_good_frame | rx_bad_frame): whatever became of the frame.       *)
PushVerdict ==
  /\ mac.owed # None
  /\ \E v \in Verdicts : info_fifo' = Push(info_fifo, v, INFO_DEPTH)

MacEdge(verdict) ==
  /\ \E in \in Inputs :
       /\ in.word.last => (mac.owed = None \/ verdict)
       /\ mac' = [in.next EXCEPT !.owed =
                    CASE in.word.last -> in.next.id
                      [] verdict /\ ~in.word.last -> None
                      [] OTHER -> @]
       /\ state' = state_next(in.valid)
       /\ rx_fifo' = IF fifo_wr_en(in.valid)
                     THEN Push(rx_fifo, in.word, DEPTH) ELSE rx_fifo
       /\ lost' = IF fifo_wr_en(in.valid) /\ Len(rx_fifo) = DEPTH
                  THEN in.next.len ELSE lost
       /\ dropped' = (dropped \/ (state # "DROP" /\ state' = "DROP"))
  /\ UNCHANGED readVars

MacClk == \/ /\ MacEdge(FALSE)
             /\ UNCHANGED info_fifo
          \/ /\ MacEdge(TRUE)
             /\ PushVerdict

-----------------------------------------------------------------------------
(* Read side, on an edge of the AXI clock.                                 *)

(* rx_fifo_rd_en: the first word of rx_fifo moves to the output register.  *)
ReadFifo == /\ tdata' = Head(rx_fifo)
            /\ rx_fifo' = Tail(rx_fifo)

(* ERR_BUBBLE: the head of the next frame. *)
FirstWord ==
  /\ err_state = "ERR_BUBBLE" /\ rx_fifo # << >>
  /\ ReadFifo
  /\ err_state' = "ERR_IDLE"
  /\ UNCHANGED <<writeVars, info_fifo>>

(* ERR_IDLE: the register is handed over as the next word replaces it.     *)
NextWord ==
  /\ err_state = "ERR_IDLE" /\ rx_fifo # << >> /\ ~Head(rx_fifo).end
  /\ ReadFifo
  /\ UNCHANGED <<writeVars, info_fifo, err_state>>

(* ERR_IDLE: the end mark shows that the register holds the last word.     *)
EndOfFrame ==
  /\ err_state = "ERR_IDLE" /\ rx_fifo # << >> /\ Head(rx_fifo).end
  /\ err_state' = "ERR_WAIT"
  /\ UNCHANGED <<writeVars, rx_fifo, info_fifo, tdata>>

(* Defect: the last word waits for the next frame to begin.                *)
LastWordNeedsNext ==
  /\ err_state = "ERR_WAIT" /\ info_fifo # << >> /\ Len(rx_fifo) > 1
  /\ ReadFifo
  /\ info_fifo' = Tail(info_fifo)
  /\ err_state' = "ERR_BUBBLE"
  /\ UNCHANGED writeVars

(* ERR_WAIT: the last word is handed over with the verdict.                *)
LastWord ==
  /\ err_state = "ERR_WAIT" /\ info_fifo # << >>
  /\ ReadFifo
  /\ info_fifo' = Tail(info_fifo)
  /\ err_state' = "ERR_BUBBLE"
  /\ UNCHANGED writeVars

(* NextWord and LastWord need tready.                                      *)
AxiClk == FirstWord \/ NextWord \/ EndOfFrame \/ LastWord

Init ==
  /\ mac = [id |-> 0, len |-> 0, left |-> 0, gap |-> TRUE, owed |-> None]
  /\ state = "IDLE"
  /\ rx_fifo = << >> /\ info_fifo = << >>
  /\ err_state = "ERR_BUBBLE"
  /\ tdata = None
  /\ dropped = FALSE /\ lost = 0

Next == MacClk \/ AxiClk
Spec == Init /\ [][Next]_vars

(* Both clocks run, the AXI side is ready again and again, and the MAC     *)
(* goes on with a frame it has begun and gives its verdict on every frame. *)
FairSpec == /\ Spec
            /\ WF_vars(AxiClk)
            /\ WF_vars(MacClk /\ ~(mac.left = 0 /\ mac.gap))
            /\ WF_vars(MacEdge(TRUE) /\ PushVerdict)

-----------------------------------------------------------------------------
(* Types of the registers and of what is in the FIFOs.                     *)
TypeOK ==
  /\ mac \in [id : Ids, len : {0} \cup Lens, left : Nat, gap : BOOLEAN,
              owed : Ids \cup {None}]
  /\ state \in {"IDLE", "WAIT_FOR_EOP", "DROP"}
  /\ Range(rx_fifo) \subseteq Words /\ Len(rx_fifo) <= DEPTH
  /\ Range(info_fifo) \subseteq [id : Ids, bad : BOOLEAN]
  /\ Len(info_fifo) <= INFO_DEPTH
  /\ err_state \in {"ERR_IDLE", "ERR_WAIT", "ERR_BUBBLE"}
  /\ tdata \in Words \cup {None}
  /\ dropped \in BOOLEAN /\ lost \in {0} \cup Lens

(* A frame, once begun, is written without looking at rx_fifo; still it    *)
(* loses no word unless it is longer than the almost-full mark leaves room *)
(* for (rx_queue.v:68,145).                                                *)
NoWordLost == lost = 0 \/ lost > ALMOST_FULL_OFFSET

(* Registers and FIFOs have their types, and no word is lost but of a      *)
(* frame that is too long.                                                 *)
FifoSound == TypeOK /\ NoWordLost

(* Until a word is lost, the AXI side gets the words of one frame after    *)
(* another, each from its first word to its last and none twice, however   *)
(* far the clocks drift.                                                   *)
WordsInOrder ==
  [][lost = 0 =>
       /\ err_state = "ERR_BUBBLE" /\ err_state' = "ERR_IDLE" =>
            ~tdata'.end /\ tdata'.nth = 1
       /\ err_state = "ERR_IDLE" /\ tdata' # tdata =>
            tdata' = Word(tdata.id, tdata.nth + 1, tdata'.last)
       /\ err_state = "ERR_WAIT" /\ err_state' = "ERR_BUBBLE" =>
            tdata.last /\ tdata' = EndMark(tdata.id)]_vars

(* The end marks in rx_fifo, and how many there are up to position p.      *)
Ends == {i \in 1 .. Len(rx_fifo) : rx_fifo[i].end}
EndsUpTo(p) == Cardinality({i \in Ends : i <= p})

(* Until a frame is dropped or a word is lost, the verdict given with a    *)
(* frame's last word is the MAC's verdict on that frame.                   *)
VerdictIsOwn ==
  ~dropped /\ lost = 0 =>
    /\ Len(info_fifo) <= Cardinality(Ends)
    /\ \A p \in Ends : EndsUpTo(p) <= Len(info_fifo) =>
         info_fifo[EndsUpTo(p)].id = rx_fifo[p].id

(* Every frame that was written leaves: its last word is handed over.      *)
FramesLeave == Ends # {} ~> err_state = "ERR_BUBBLE"
=============================================================================
