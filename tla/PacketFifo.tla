----------------------------- MODULE PacketFifo -----------------------------
(***************************************************************************)
(* What one direction of the DMA engine promises: a bounded FIFO of        *)
(* frames.  A frame is handed over whole, leaves in the order it entered,  *)
(* leaves exactly once, and never more than Capacity frames are under way. *)
(* The transmit ring (TxDma) and the receive ring (RxDma) are both shown   *)
(* to implement this specification.                                        *)
(***************************************************************************)
EXTENDS Naturals, Sequences

CONSTANTS
  Frame,     \* the frames that can be handed over
  Capacity   \* struct dma_stream holds dma_cpu_bufs buffers

VARIABLE queue   \* the frames under way, oldest first

Init == queue = << >>

(* The producer hands over one frame. *)
Put == /\ Len(queue) < Capacity
       /\ \E f \in Frame : queue' = Append(queue, f)

(* The consumer takes the oldest frame. *)
Get == /\ queue # << >>
       /\ queue' = Tail(queue)

Next == Put \/ Get

Spec == Init /\ [][Next]_queue
=============================================================================
