------------------------------ MODULE RegFile -------------------------------
(***************************************************************************)
(* What register access promises to the programs that use it: a memory of  *)
(* words in which every call takes effect at one instant between its       *)
(* invocation and its return.  A call that returns 0 has had its effect,   *)
(* and a read that returns 0 returns the word as it was at that instant; a *)
(* call that returns an error may have had its effect or not.              *)
(***************************************************************************)
CONSTANTS Clients, Calls, Cells, Values, NoCall, NotYet, Error, Done

VARIABLES mem,    \* the words of the card
          call,   \* per client: the call in progress, or NoCall
          got,    \* per client: the word read or written, or NotYet
          result  \* per client: what its last call returned

vars == <<mem, call, got, result>>

Init == /\ mem \in [Cells -> Values]
        /\ call = [c \in Clients |-> NoCall]
        /\ got = [c \in Clients |-> NotYet]
        /\ result = [c \in Clients |-> Error]

Invoke(c) == /\ call[c] = NoCall
             /\ \E r \in Calls : call' = [call EXCEPT ![c] = r]
             /\ result' = [result EXCEPT ![c] = Error]
             /\ UNCHANGED <<mem, got>>

Read(c) == /\ call[c] # NoCall /\ call[c].op = "REG_RD"
           /\ call[c].addr \in Cells /\ got[c] = NotYet
           /\ got' = [got EXCEPT ![c] = mem[call[c].addr]]
           /\ UNCHANGED <<mem, call, result>>

Write(c) == /\ call[c] # NoCall /\ call[c].op = "REG_WR"
            /\ call[c].addr \in Cells /\ got[c] = NotYet
            /\ mem' = [mem EXCEPT ![call[c].addr] = call[c].val]
            /\ got' = [got EXCEPT ![c] = call[c].val]
            /\ UNCHANGED <<call, result>>

Return(c) == /\ call[c] # NoCall
             /\ call' = [call EXCEPT ![c] = NoCall]
             /\ got' = [got EXCEPT ![c] = NotYet]
             /\ \/ result' = [result EXCEPT ![c] = Error]
                \/ /\ got[c] # NotYet /\ call[c].op = "REG_RD"
                   /\ result' = [result EXCEPT ![c] = got[c]]
                \/ /\ got[c] # NotYet /\ call[c].op = "REG_WR"
                   /\ result' = [result EXCEPT ![c] = Done]
             /\ UNCHANGED mem

(* The client goes on to something else. *)
Forget(c) == /\ call[c] = NoCall
             /\ result' = [result EXCEPT ![c] = Error]
             /\ UNCHANGED <<mem, call, got>>

Next == \E c \in Clients : \/ Invoke(c) \/ Read(c) \/ Write(c)
                          \/ Return(c) \/ Forget(c)

Spec == Init /\ [][Next]_vars
=============================================================================
