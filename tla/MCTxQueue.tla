----------------------------- MODULE MCTxQueue ------------------------------
(* TxQueue for TLC; its constants are given in the cfg. *)
EXTENDS TxQueue
=============================================================================
