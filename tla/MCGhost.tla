------------------------------ MODULE MCGhost -------------------------------
(* Instances of Ghost for TLC. *)
EXTENDS Ghost

(* Interface 0 sends both kinds of packet, interface 1 one kind.           *)
MCProtos == [i \in {0, 1} |-> IF i = 0 THEN {"ip", "other"} ELSE {"ip"}]
=============================================================================
