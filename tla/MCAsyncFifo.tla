---------------------------- MODULE MCAsyncFifo -----------------------------
(* AsyncFifo for TLC; its constants are given in the cfg. *)
EXTENDS AsyncFifo
=============================================================================
