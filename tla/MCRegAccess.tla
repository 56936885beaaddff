---------------------------- MODULE MCRegAccess -----------------------------
(* Instances of RegAccess for TLC: pages of 8 bytes, so that addresses 0   *)
(* and 8 have the same offset in two pages and 2 is not word aligned.      *)
EXTENDS RegAccess

Req(op, addr, val) == [op |-> op, addr |-> addr, val |-> val]

MCReads  == {Req("REG_RD", a, 0) : a \in {2, 8}}
MCWrites == {Req("REG_WR", a, 1) : a \in {0, 8}}
MCOthers == {Req("ECHO", 0, 0), Req("NAPI_ENABLE", 0, 0)}

MCRequests == MCReads \cup MCWrites \cup MCOthers

(* Writes to an address that is not word aligned as well.                  *)
MCUnaligned == MCRequests \cup {Req("REG_WR", 2, 1)}
=============================================================================
