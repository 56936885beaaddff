------------------------------ MODULE MCRxDma -------------------------------
(* Instances of RxDma for TLC. *)
EXTENDS RxDma

(* Destination interfaces 0 and 3 (which also has the MAC0 bit set), and   *)
(* an opcode that names no destination.                                    *)
MCOpcodes == {2, 129, 1}
=============================================================================
