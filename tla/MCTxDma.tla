------------------------------ MODULE MCTxDma -------------------------------
(* Instances of TxDma for TLC. *)
EXTENDS TxDma

(* One sendable length, and one that is above both the hardware's maximum  *)
(* and DMA_BUF_SIZE.                                                       *)
MCLengths == {60, 2049}
MCOpcodes == {5}
=============================================================================
