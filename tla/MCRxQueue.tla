----------------------------- MODULE MCRxQueue ------------------------------
(* RxQueue for TLC; its constants are given in the cfg. *)
EXTENDS RxQueue
=============================================================================
