---------------------------- MODULE MCDriverLife ----------------------------
(* DriverLife for TLC; its constants are numbers, given in the cfg. *)
EXTENDS DriverLife
=============================================================================
