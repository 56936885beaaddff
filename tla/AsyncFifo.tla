----------------------------- MODULE AsyncFifo ------------------------------
(***************************************************************************)
(* small_async_fifo.v: the FIFO that carries the end-of-frame information  *)
(* of the interface queues from one clock to another.  The write side and  *)
(* the read side each keep a pointer of ASIZE + 1 bits and see the other's *)
(* pointer, in Gray code, through two flip-flops.                          *)
(*                                                                         *)
(* A step is an edge of wclk, an edge of rclk, or both at once.  A         *)
(* flip-flop that samples a word while the word changes takes each of its  *)
(* bits from before or from after the change: with both edges at once the  *)
(* first flip-flop of each side takes any such mixture.                    *)
(*                                                                         *)
(* The parts of the specification have names with Fifo, so that a module   *)
(* can use them beside those of the queue this FIFO is in.                 *)
(***************************************************************************)
EXTENDS Integers, Sequences, FiniteSets

CONSTANTS
  ASIZE,              \* address bits; the memory holds 2^ASIZE words
  ALMOST_FULL_SIZE,
  ALMOST_EMPTY_SIZE,
  Data                \* the words written

(* The sizes, and what 2^i means: the provers do not know that.            *)
Sizes ==
  /\ ASIZE \in Nat \ {0, 1}
  /\ ALMOST_FULL_SIZE \in 1 .. 2^ASIZE
  /\ ALMOST_EMPTY_SIZE \in 0 .. 2^ASIZE - 1
  /\ Data # {}
  /\ 2^0 = 1 /\ \A i \in 0 .. ASIZE : 2^(i + 1) = 2 * 2^i
ASSUME FifoSizes == Sizes

VARIABLES
  wbin, rbin,              \* the pointers in binary
  wq1_rptr, wq2_rptr,      \* the read pointer as the write side gets it
  rq1_wptr, rq2_wptr,      \* the write pointer as the read side gets it
  wfull, w_almost_full,    \* registered outputs of the write side
  rempty, r_almost_empty,  \* registered outputs of the read side
  mem                      \* fifo_mem

wVars == <<wbin, wq1_rptr, wq2_rptr, wfull, w_almost_full, mem>>
rVars == <<rbin, rq1_wptr, rq2_wptr, rempty, r_almost_empty>>
FifoVars == <<wVars, rVars>>

Depth == 2^ASIZE
Span  == 2^(ASIZE + 1)
Bits  == 0 .. ASIZE
Words == [Bits -> BOOLEAN]

Bit(n, i) == (n \div 2^i) % 2 = 1

(* Defect: the pointers cross in binary. *)
Plain == [n \in 0 .. Span - 1 |-> [i \in Bits |-> Bit(n, i)]]

(* (n >> 1) ^ n *)
Gray == [n \in 0 .. Span - 1 |-> [i \in Bits |-> Bit(n, i) # Bit(n, i + 1)]]

(* ^ (g >> i) for each bit i *)
Binary == [g \in Words |->
  LET bit(i) == Cardinality({j \in i .. ASIZE : g[j]}) % 2 = 1
  IN  CHOOSE n \in 0 .. Span - 1 : \A i \in Bits : Bit(n, i) <=> bit(i)]

wptr == Gray[wbin]
rptr == Gray[rbin]

(* What a flip-flop can take from a word that goes from old to new.        *)
Sampled(old, new) ==
  {g \in Words : \A i \in Bits : g[i] \in {old[i], new[i]}}

-----------------------------------------------------------------------------
(* wptr_full *)
wbinnext(winc) == (wbin + IF winc /\ ~wfull THEN 1 ELSE 0) % Span

(* Defect: full is decided by the pointer before the write.                *)
wfull_val_Late(next) ==
  Gray[wbin] = [i \in Bits |-> IF i >= ASIZE - 1 THEN ~wq2_rptr[i]
                               ELSE wq2_rptr[i]]

(* Full when the next write pointer is the read pointer with its two upper *)
(* bits inverted.                                                          *)
wfull_val(next) ==
  Gray[next] = [i \in Bits |-> IF i >= ASIZE - 1 THEN ~wq2_rptr[i]
                               ELSE wq2_rptr[i]]

w_almost_full_val(next) ==
  ~Bit((next - Binary[wq2_rptr] - ALMOST_FULL_SIZE) % Span, ASIZE)

(* Defect: a write to a full FIFO reaches the memory.                      *)
fifo_mem_Unguarded(winc, d) ==
  mem' = IF winc THEN [mem EXCEPT ![wbin % Depth] = d] ELSE mem

fifo_mem(winc, d) ==
  mem' = IF winc /\ ~wfull THEN [mem EXCEPT ![wbin % Depth] = d] ELSE mem

(* An edge of wclk, on which the first flip-flop takes the word seen.      *)
WEdge(winc, d, seen) ==
  /\ wbin' = wbinnext(winc)
  /\ wfull' = wfull_val(wbinnext(winc))
  /\ w_almost_full' = w_almost_full_val(wbinnext(winc))
  /\ wq1_rptr' = seen
  /\ wq2_rptr' = wq1_rptr
  /\ fifo_mem(winc, d)

(* rptr_empty *)
rbinnext(rinc) == (rbin + IF rinc /\ ~rempty THEN 1 ELSE 0) % Span

(* Empty when the next read pointer is the write pointer.                  *)
rempty_val(next) == Gray[next] = rq2_wptr

r_almost_empty_val(next) ==
  ~Bit((next + ALMOST_EMPTY_SIZE - Binary[rq2_wptr]) % Span, ASIZE)

(* Defect: the second flip-flop does not follow the first.                 *)
REdgeStuck(rinc, seen) ==
  /\ rbin' = rbinnext(rinc)
  /\ rempty' = rempty_val(rbinnext(rinc))
  /\ r_almost_empty' = r_almost_empty_val(rbinnext(rinc))
  /\ rq1_wptr' = seen
  /\ rq2_wptr' = rq2_wptr

REdge(rinc, seen) ==
  /\ rbin' = rbinnext(rinc)
  /\ rempty' = rempty_val(rbinnext(rinc))
  /\ r_almost_empty' = r_almost_empty_val(rbinnext(rinc))
  /\ rq1_wptr' = seen
  /\ rq2_wptr' = rq1_wptr

-----------------------------------------------------------------------------
WClk == /\ \E winc \in BOOLEAN, d \in Data : WEdge(winc, d, rptr)
        /\ UNCHANGED rVars
RClk == /\ \E rinc \in BOOLEAN : REdge(rinc, wptr)
        /\ UNCHANGED wVars
BothClk ==
  \E winc, rinc \in BOOLEAN, d \in Data :
    \E r \in Sampled(rptr, Gray[rbinnext(rinc)]),
       w \in Sampled(wptr, Gray[wbinnext(winc)]) :
         WEdge(winc, d, r) /\ REdge(rinc, w)

(* reset drives wrst_n and rrst_n of both sides; it leaves fifo_mem alone. *)
Cleared ==
  [bin |-> 0, ptr |-> Gray[0], full |-> FALSE, empty |-> TRUE]
Reset ==
  /\ wbin' = Cleared.bin /\ rbin' = Cleared.bin
  /\ wq1_rptr' = Cleared.ptr /\ wq2_rptr' = Cleared.ptr
  /\ rq1_wptr' = Cleared.ptr /\ rq2_wptr' = Cleared.ptr
  /\ wfull' = Cleared.full /\ w_almost_full' = Cleared.full
  /\ rempty' = Cleared.empty /\ r_almost_empty' = Cleared.empty
  /\ UNCHANGED mem

FifoInit ==
  /\ wbin = Cleared.bin /\ rbin = Cleared.bin
  /\ wq1_rptr = Cleared.ptr /\ wq2_rptr = Cleared.ptr
  /\ rq1_wptr = Cleared.ptr /\ rq2_wptr = Cleared.ptr
  /\ wfull = Cleared.full /\ w_almost_full = Cleared.full
  /\ rempty = Cleared.empty /\ r_almost_empty = Cleared.empty
  /\ mem \in [0 .. Depth - 1 -> Data]

FifoNext == WClk \/ RClk \/ BothClk \/ Reset
FifoSpec == FifoInit /\ [][FifoNext]_FifoVars

(* Both clocks keep running. *)
FairFifoSpec == /\ FifoSpec
                /\ WF_FifoVars(WClk \/ BothClk)
                /\ WF_FifoVars(RClk \/ BothClk)

-----------------------------------------------------------------------------
(* Words in the FIFO, modulo the span of the pointers.                     *)
Count == (wbin - rbin) % Span

(* Types of the registers. *)
FifoTypeOK ==
  /\ wbin \in 0 .. Span - 1 /\ rbin \in 0 .. Span - 1
  /\ {wq1_rptr, wq2_rptr, rq1_wptr, rq2_wptr} \subseteq Words
  /\ {wfull, w_almost_full, rempty, r_almost_empty} \subseteq BOOLEAN
  /\ mem \in [0 .. Depth - 1 -> Data]

(* However the two clocks interleave, and whatever a flip-flop makes of a  *)
(* pointer that changes under it, the writer never runs over the reader    *)
(* and each side's flag errs only on the safe side.                        *)
NeverOverrun == /\ Count <= Depth
                /\ Count = Depth => wfull
                /\ Count = 0 => rempty

(* The almost flags err on the safe side too: they are raised whenever the *)
(* FIFO really holds that many, or that few, words.                        *)
AlmostSafe == /\ Count >= ALMOST_FULL_SIZE => w_almost_full
              /\ Count <= ALMOST_EMPTY_SIZE => r_almost_empty

(* All four flags of the FIFO err on the safe side only.                   *)
FlagsSafe == NeverOverrun /\ AlmostSafe

(* What each side believes of the other's pointer is a value it had: the   *)
(* Gray code keeps the mixture taken while it changes from being another.  *)
SeenIsPast ==
  /\ \A g \in {wq1_rptr, wq2_rptr} : (wbin - Binary[g]) % Span <= Depth
  /\ \A g \in {rq1_wptr, rq2_wptr} : (Binary[g] - rbin) % Span <= Count

(* The registers have their types and hold pointers that really were.      *)
PointersSound == FifoTypeOK /\ SeenIsPast

(* The words come out whole and in the order they went in: the FIFO        *)
(* implements PacketFifo, but for a put and a get on edges at the same     *)
(* time and the reset that empties it.                                     *)
Contents == [i \in 1 .. Count |-> mem[(rbin + i - 1) % Depth]]
PF == INSTANCE PacketFifo WITH Frame <- Data, Capacity <- Depth,
                               queue <- Contents
PutAndGet == /\ Contents # << >> /\ Len(Contents) < Depth
             /\ \E d \in Data : Contents' = Append(Tail(Contents), d)
IsFifo == PF!Init /\ [][PF!Next \/ PutAndGet \/ Contents' = << >>]_Contents

(* A word that is written shows on the read side, and room that is made    *)
(* shows on the write side, after some edges of the clocks.                *)
NewsArrives == /\ Count > 0 ~> ~rempty \/ Count = 0
               /\ Count < Depth ~> ~wfull
=============================================================================
