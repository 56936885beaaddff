--------------------------- MODULE RegAccessProofs --------------------------
(***************************************************************************)
(* Proofs about RegAccess, for any number of processes, any set of calls   *)
(* and any page size that is a multiple of four: a handler is alone with   *)
(* the page window and its family, sockets are sound, and the calls are    *)
(* linearizable.                                                           *)
(***************************************************************************)
EXTENDS RegAccess, SequenceTheorems, TLAPS

-----------------------------------------------------------------------------
(* The inductive invariant.                                                *)

(* Types: loaded, the only Boolean variable, and the rest.                 *)
Flags == loaded \in BOOLEAN

Words == Values \cup {NotYet}
Socks == [open : BOOLEAN, next : Nat, expect : Nat, queue : Seq(Msgs)]
Types ==
  /\ regs \in [Cells -> Values]
  /\ pageWindow \in Nat
  /\ genl_mutex \in Clients \cup {NoOne}
  /\ pc \in [Clients -> PCs]
  /\ req \in [Clients -> Requests \cup {NoRequest}]
  /\ sock \in [Clients -> Socks]
  /\ reply \in [Clients -> [errno : Errnos \cup {"none"}, val : Words]]
  /\ out \in [Clients -> [err : Errnos \cup {"none"}, val : Words]]

(* A call is under way exactly when its process is not idle; the registers *)
(* are reached for an aligned register call only.                          *)
Called(c) ==
  /\ pc[c] = "idle" => req[c] = NoRequest
  /\ pc[c] # "idle" => req[c] \in Requests
  /\ pc[c] = "access" => req[c].op \in RegOps /\ Aligned(req[c].addr)

(* Message i of the queue answers the request that was sent last.          *)
Mine(c, i) == /\ sock[c].queue[i].seq = sock[c].expect
              /\ sock[c].queue[i].err # "SEQ_MISMATCH"

Unsent == {"idle", "connect", "resolve", "alloc"}
Empty  == Unsent \cup {"kernel", "handler", "access", "reply", "nack"}

(* The two sequence numbers are equal or one apart, and the queue holds    *)
(* what the kernel answers at this point of the call.                      *)
Exchange(c) ==
  /\ pc[c] \in {"idle", "connect"} => sock[c] = Closed
  /\ sock[c].next = IF pc[c] \in Unsent THEN sock[c].expect
                                       ELSE sock[c].expect + 1
  /\ pc[c] \in Empty => sock[c].queue = << >>
  /\ pc[c] = "pickup" =>
       /\ Len(sock[c].queue) = 2
       /\ Mine(c, 1) /\ sock[c].queue[1].type = "multi"
       /\ Mine(c, 2) /\ sock[c].queue[2].type = "done"
  /\ pc[c] \in {"known", "unknown"} =>
       /\ Len(sock[c].queue) = 1
       /\ Mine(c, 1) /\ sock[c].queue[1].type = "done"
  /\ pc[c] = "ack" => Len(sock[c].queue) <= 1
  /\ pc[c] = "recv" => Len(sock[c].queue) <= 2
  /\ pc[c] \in {"ack", "recv"} =>
       /\ \A i \in 1 .. Len(sock[c].queue) : Mine(c, i)
       /\ sock[c].queue # << >> => sock[c].queue[1].type \in {"valid", "error"}

(* The first message of an answer tells what the handler did: a reply      *)
(* carries its errno and its value, and a bare ACK without error is the    *)
(* answer to a command that has no reply.                                  *)
Answered(c) ==
  /\ pc[c] \notin {"reply", "ack", "nack", "recv"} => reply[c] = NoReply
  /\ reply[c].errno # "SEQ_MISMATCH"
  /\ req[c].op \in RegOps /\ reply[c].errno = "OK" => reply[c].val # NotYet
  /\ reply[c].errno = "EDRIVER" => ~Aligned(req[c].addr)
  /\ pc[c] = "reply" => reply[c].errno \in {"OK", "EDRIVER"}
  /\ pc[c] = "ack" /\ sock[c].queue = << >> =>
       reply[c].errno = "ENOMEM" \/ req[c].op = "NAPI_ENABLE"
  /\ pc[c] = "ack" /\ sock[c].queue # << >> => sock[c].queue[1].type = "valid"
  /\ pc[c] \in {"ack", "recv"} /\ sock[c].queue # << >> =>
       LET m == sock[c].queue[1] IN
       /\ m.type = "valid" => /\ m.err = reply[c].errno /\ m.val = reply[c].val
                              /\ reply[c].errno \in {"OK", "EDRIVER"}
       /\ m.type = "error" /\ m.err = "OK" => req[c].op \notin RegOps

ClientInv(c) == /\ Called(c) /\ Exchange(c) /\ Answered(c)
                /\ out[c].err # "SEQ_MISMATCH"

IInv == /\ Flags
        /\ Types
        /\ HandlerAlone
        /\ \A c \in Clients : ClientInv(c)

-----------------------------------------------------------------------------
(* The operators of the model. *)

(* A page number is a natural number. *)
LEMMA PageType == ASSUME NEW a \in Nat PROVE Page(a) \in Nat
BY RequestAssumption DEF Page

(* The address, page and word of a call: its register is one of the cells. *)
LEMMA CellOf ==
  ASSUME NEW r \in Requests
  PROVE  r.addr \in Nat /\ r.addr \in Addrs /\ r.val \in Values /\ r.op \in Ops
         /\ <<Page(r.addr), Word(r.addr)>> \in Cells
BY RequestAssumption DEF Addrs, Cells

(* A closed socket, and one just opened. *)
LEMMA ClosedType == Closed \in Socks /\ [Closed EXCEPT !.open = TRUE] \in Socks
BY Zenon, EmptySeq DEF Closed, Socks

(* Queues of one message and of two. *)
LEMMA TailOne ==
  ASSUME NEW q \in Seq(Msgs), Len(q) = 1
  PROVE  Tail(q) = << >>
<1>1. q # << >>
  BY EmptySeq
<1> DEFINE t == Tail(q)
<1>2. t \in Seq(Msgs) /\ Len(t) = 0
  BY <1>1, HeadTailProperties
<1> HIDE DEF t
<1>3. t = << >>
  BY <1>2, EmptySeq
<1> QED BY <1>3 DEF t

(* A socket stays a socket when its numbers or its queue change. *)
LEMMA SockType ==
  ASSUME NEW s \in Socks, NEW n \in Nat, NEW q \in Seq(Msgs)
  PROVE  /\ [s EXCEPT !.next = n] \in Socks
         /\ [s EXCEPT !.queue = q] \in Socks
         /\ [s EXCEPT !.next = n, !.queue = q] \in Socks
         /\ [s EXCEPT !.queue = q, !.expect = n] \in Socks
BY Zenon DEF Socks

(* What Finish does to the types. *)
LEMMA FinishTypes ==
  ASSUME NEW c \in Clients, NEW err \in Errnos, NEW val \in Words,
         Types, Finish(c, err, val)
  PROVE  /\ pc' \in [Clients -> PCs]
         /\ req' \in [Clients -> Requests \cup {NoRequest}]
         /\ sock' \in [Clients -> Socks]
         /\ reply' \in [Clients -> [errno : Errnos \cup {"none"}, val : Words]]
         /\ out' \in [Clients -> [err : Errnos \cup {"none"}, val : Words]]
         /\ pc'[c] = "idle" /\ sock'[c] = Closed /\ req'[c] = NoRequest
         /\ reply'[c] = NoReply
         /\ out'[c] \in {[err |-> err, val |-> val], out[c]}
<1>1. sock' \in [Clients -> Socks] /\ sock'[c] = Closed
  BY ClosedType DEF Finish, Types
<1>2. pc' \in [Clients -> PCs] /\ pc'[c] = "idle"
  BY DEF Finish, Types, Goto, PCs
<1>3. reply' \in [Clients -> [errno : Errnos \cup {"none"}, val : Words]]
      /\ reply'[c] = NoReply
  BY DEF Finish, Types, NoReply, Words
<1>4. out' \in [Clients -> [err : Errnos \cup {"none"}, val : Words]]
      /\ out'[c] \in {[err |-> err, val |-> val], out[c]}
  BY DEF Finish, Types
<1>5. req' \in [Clients -> Requests \cup {NoRequest}] /\ req'[c] = NoRequest
  BY DEF Finish, Types
<1> QED BY <1>1, <1>2, <1>3, <1>4, <1>5

(* Nothing of process d's call changes. *)
Still(d) ==
  /\ pc'[d] = pc[d] /\ req'[d] = req[d] /\ sock'[d] = sock[d]
  /\ reply'[d] = reply[d] /\ out'[d] = out[d]

(* A step of process c leaves the calls of the others as they are. *)
LEMMA OneClient ==
  ASSUME NEW c \in Clients, \A d \in Clients : ClientInv(d),
         \A d \in Clients \ {c} : Still(d), ClientInv(c)'
  PROVE  \A d \in Clients : ClientInv(d)'
<1> SUFFICES ASSUME NEW d \in Clients, d # c PROVE ClientInv(d)'
  OBVIOUS
<1>1. ClientInv(d) /\ Still(d)
  OBVIOUS
<1> QED BY <1>1 DEF ClientInv, Still, Called, Exchange, Answered, Mine,
                    Unsent, Empty

(* What a step that ends the call of c has to show. *)
LEMMA FinishKeeps ==
  ASSUME NEW c \in Clients, NEW err \in Errnos \ {"SEQ_MISMATCH"},
         NEW val \in Words, IInv, Finish(c, err, val),
         UNCHANGED <<loaded, cardVars, genl_mutex>>
  PROVE  IInv'
<1> USE DEF IInv
<1>1. Types'
  BY FinishTypes DEF Types, cardVars
<1>2. Flags'
  BY Zenon DEF Flags
<1>3. HandlerAlone'
  BY DEF HandlerAlone, HandlerHasFamily, PageMine, Finish, Goto, Types,
         cardVars, Handling, Page
<1>4. ClientInv(c)'
  <2>1. Called(c)'
    BY FinishTypes DEF Called
  <2>2. Exchange(c)'
    BY FinishTypes DEF Exchange, Unsent, Empty, Closed
  <2>3. Answered(c)'
    BY FinishTypes DEF Answered, NoReply
  <2>4. out'[c].err # "SEQ_MISMATCH"
    BY FinishTypes DEF ClientInv
  <2> QED BY <2>1, <2>2, <2>3, <2>4 DEF ClientInv
<1>5. \A d \in Clients \ {c} : Still(d)
  BY DEF Still, Finish, Goto, Types
<1> QED BY <1>1, <1>2, <1>3, <1>4, <1>5, OneClient

(* The initial state satisfies the invariant. *)
LEMMA InitIInv == Init => IInv
<1> SUFFICES ASSUME Init PROVE IInv
  OBVIOUS
<1>1. Types
  <2>1. ASSUME Cells # {} PROVE (CHOOSE v \in Values : TRUE) \in Values
    <3>1. PICK r \in Requests : TRUE
      BY <2>1 DEF Cells, Addrs
    <3>2. r.val \in Values
      BY RequestAssumption
    <3> QED BY <3>2
  <2>2. regs \in [Cells -> Values]
    BY <2>1 DEF Init
  <2>3. sock \in [Clients -> Socks]
    BY ClosedType DEF Init
  <2>4. /\ pageWindow \in Nat /\ genl_mutex \in Clients \cup {NoOne}
        /\ pc \in [Clients -> PCs]
        /\ req \in [Clients -> Requests \cup {NoRequest}]
        /\ reply \in [Clients -> [errno : Errnos \cup {"none"}, val : Words]]
        /\ out \in [Clients -> [err : Errnos \cup {"none"}, val : Words]]
    BY DEF Init, PCs, NoReply, NoResult, Words
  <2> QED BY <2>2, <2>3, <2>4 DEF Types
<1>2. Flags
  BY Zenon DEF Flags, Init
<1>3. HandlerAlone
  BY DEF HandlerAlone, HandlerHasFamily, PageMine, Init, Handling
<1>4. ASSUME NEW c \in Clients PROVE ClientInv(c)
  BY DEF Init, ClientInv, Called, Exchange, Answered, NoReply, NoResult,
         Closed, Unsent, Empty
<1> QED BY <1>1, <1>2, <1>3, <1>4 DEF IInv

-----------------------------------------------------------------------------
(* Steps of a process. *)

(* A call begins. *)
LEMMA CallKeeps ==
  ASSUME NEW c \in Clients, IInv, Call(c) PROVE IInv'
<1> USE DEF IInv
<1>1. Types'
  BY DEF Types, Call, Goto, cardVars, NoResult, Words, PCs
<1>2. Flags'
  BY Zenon DEF Flags, Call
<1>3. HandlerAlone'
  BY DEF HandlerAlone, HandlerHasFamily, PageMine, Call, Goto, Types,
         cardVars, Handling, Page
<1>4. ClientInv(c)'
  <2>1. /\ pc[c] = "idle" /\ pc'[c] = "connect" /\ req'[c] \in Requests
        /\ sock'[c] = sock[c] /\ reply'[c] = reply[c]
        /\ out'[c] = NoResult
    BY DEF Call, Goto, Types
  <2>2. Called(c)'
    BY <2>1 DEF Called
  <2>3. Exchange(c)'
    BY <2>1 DEF Exchange, ClientInv, Unsent, Empty
  <2>4. Answered(c)'
    BY <2>1 DEF Answered, ClientInv, NoReply
  <2> QED BY <2>1, <2>2, <2>3, <2>4 DEF ClientInv, NoResult
<1>5. \A d \in Clients \ {c} : Still(d)
  BY DEF Still, Call, Goto, Types
<1> QED BY <1>1, <1>2, <1>3, <1>4, <1>5, OneClient

(* The socket is opened, or cannot be. *)
LEMMA ConnectKeeps ==
  ASSUME NEW c \in Clients, IInv, Connect(c) PROVE IInv'
<1> USE DEF IInv
<1>1. CASE Finish(c, "ENOMEM", NotYet)
  BY <1>1, FinishKeeps DEF Connect, Errnos, Words
<1>2. CASE /\ sock' = [sock EXCEPT ![c] = [Closed EXCEPT !.open = TRUE]]
           /\ Goto(c, "resolve")
           /\ UNCHANGED <<req, reply, out>>
  <2>1. Types'
    BY <1>2, ClosedType DEF Types, Connect, Goto, cardVars, PCs
  <2>2. Flags'
    BY Zenon DEF Flags, Connect
  <2>3. HandlerAlone'
    BY <1>2 DEF HandlerAlone, HandlerHasFamily, PageMine, Connect, Goto, Types,
           cardVars, Handling, Page
  <2>4. ClientInv(c)'
    BY <1>2 DEF ClientInv, Called, Exchange, Answered, NoReply, Types,
           Closed, Unsent, Empty, Connect, Goto
  <2>5. \A d \in Clients \ {c} : Still(d)
    BY <1>2 DEF Still, Goto, Types
  <2> QED BY <2>1, <2>2, <2>3, <2>4, <2>5, OneClient
<1> QED BY <1>1, <1>2 DEF Connect

(* The dump of the families is asked for, and queued at once. *)
LEMMA ResolveSendKeeps ==
  ASSUME NEW c \in Clients, IInv, ResolveSend(c) PROVE IInv'
<1> USE DEF IInv
<1> DEFINE n == sock[c].next
           q == << Families(n), Msg("done", n, "OK", NotYet) >>
<1>0. sock[c] \in Socks
  BY DEF Types
<1>a. Families(n) \in Msgs /\ Msg("done", n, "OK", NotYet) \in Msgs
  BY <1>0 DEF Msgs, Msg, Families, Socks, Errnos
<1>b. q \in Seq(Msgs) /\ Len(q) = 2
  BY <1>a
<1>c. sock' = [sock EXCEPT ![c] = [sock[c] EXCEPT !.next = n + 1, !.queue = q]]
  BY DEF ResolveSend, Types
<1>d. sock'[c] = [sock[c] EXCEPT !.next = n + 1, !.queue = q]
  BY <1>c DEF Types
<1> HIDE DEF q
<1>e. sock'[c] \in Socks
  <2> DEFINE k == n + 1
  <2>1. k \in Nat
    BY <1>0 DEF Socks
  <2> HIDE DEF k
  <2>2. [sock[c] EXCEPT !.next = k, !.queue = q] \in Socks
    BY ONLY <1>0, <1>b, <2>1, SockType
  <2> QED BY <1>d, <2>2 DEF k
<1>1. Types'
  BY <1>c, <1>d, <1>e DEF Types, ResolveSend, Goto, cardVars, PCs
<1>2. Flags'
  BY Zenon DEF Flags, ResolveSend
<1>3. HandlerAlone'
  BY DEF HandlerAlone, HandlerHasFamily, PageMine, ResolveSend, Goto, Types,
         cardVars, Handling, Page
<1>4. ClientInv(c)'
  <2>1. /\ q[1].type = "multi" /\ q[1].seq = n /\ q[1].err # "SEQ_MISMATCH"
        /\ q[2].type = "done" /\ q[2].seq = n /\ q[2].err # "SEQ_MISMATCH"
    BY DEF q, Families, Msg
  <2>2. /\ sock'[c].next = n + 1 /\ sock'[c].queue = q
        /\ sock'[c].expect = sock[c].expect /\ pc'[c] = "pickup"
        /\ req'[c] = req[c] /\ reply'[c] = reply[c] /\ out'[c] = out[c]
    BY <1>0, <1>d DEF ResolveSend, Goto, Types, Socks
  <2>3. n = sock[c].expect /\ pc[c] = "resolve"
    BY DEF ResolveSend, ClientInv, Exchange, Unsent
  <2>4. Called(c)'
    BY <2>2, <2>3 DEF Called, ClientInv
  <2>5. Exchange(c)'
    BY <2>1, <2>2, <2>3, <1>b DEF Exchange, Unsent, Empty, Mine
  <2>6. Answered(c)'
    BY <2>2, <2>3 DEF Answered, ClientInv, Called
  <2> QED BY <2>2, <2>4, <2>5, <2>6 DEF ClientInv
<1>5. \A d \in Clients \ {c} : Still(d)
  BY <1>c DEF Still, ResolveSend, Goto, Types
<1> QED BY <1>1, <1>2, <1>3, <1>4, <1>5, OneClient

(* What recvmsgs() makes of the first message when it answers the request. *)
LEMMA RecvInStep ==
  ASSUME NEW sk \in Socks, NEW op, sk.queue # << >>,
         sk.queue[1].seq = sk.expect, sk.queue[1].err # "SEQ_MISMATCH"
  PROVE  /\ recvmsgs(sk, op) \in [err : Errnos \ {"SEQ_MISMATCH"}, val : Words]
         /\ sk.queue[1].type \in {"multi", "done"} => recvmsgs(sk, op) = Ok
<1> DEFINE m == sk.queue[1]
<1>1. Head(sk.queue) = m /\ m \in Msgs
  BY DEF Socks
<1> HIDE DEF m
<1>2. m.err \in Errnos \ {"SEQ_MISMATCH"} /\ m.val \in Words
  BY <1>1 DEF Msgs, Words, m
<1>3. Ok \in [err : Errnos \ {"SEQ_MISMATCH"}, val : Words]
  BY DEF Ok, Errnos, Words
<1>4. Callback(op, m) \in [err : Errnos \ {"SEQ_MISMATCH"}, val : Words]
  BY <1>2, <1>3 DEF Callback, nf10_reg_rd_recv_msg_cb,
     nf10_reg_wr_recv_ack_cb, Errnos, Words
<1>5. m.type \in {"multi", "done"} => Callback(op, m) = Ok
  BY DEF Callback
<1>6. m.seq = sk.expect
  BY DEF m
<1>7. recvmsgs(sk, op) \in
        {Callback(op, m), [err |-> m.err, val |-> NotYet]}
  BY <1>1, <1>6 DEF recvmsgs
<1>8. m.type \in {"multi", "done"} => recvmsgs(sk, op) = Callback(op, m)
  BY <1>1, <1>6 DEF recvmsgs
<1>9. [err |-> m.err, val |-> NotYet]
        \in [err : Errnos \ {"SEQ_MISMATCH"}, val : Words]
  BY <1>2 DEF Words
<1> QED BY <1>4, <1>5, <1>7, <1>8, <1>9 DEF m

(* Taking a message that is in step leaves the rest of the queue. *)
LEMMA TakeInStep ==
  ASSUME NEW sk \in Socks, sk.queue # << >>, sk.queue[1].seq = sk.expect
  PROVE  /\ TakeMsg(sk) \in Socks
         /\ TakeMsg(sk).next = sk.next
         /\ TakeMsg(sk).queue = Tail(sk.queue)
         /\ TakeMsg(sk).expect = IF sk.queue[1].type \in {"done", "error"}
                                 THEN sk.expect + 1 ELSE sk.expect
<1> DEFINE e == IF sk.queue[1].type \in {"done", "error"}
                THEN sk.expect + 1 ELSE sk.expect
<1>1. Head(sk.queue) = sk.queue[1] /\ Tail(sk.queue) \in Seq(Msgs)
  BY DEF Socks
<1>2. e \in Nat
  BY DEF Socks
<1>3. TakeMsg(sk) = [sk EXCEPT !.queue = Tail(sk.queue), !.expect = e]
  BY <1>1 DEF TakeMsg
<1> HIDE DEF e
<1>4. TakeMsg(sk) \in Socks
  <2>1. [sk EXCEPT !.queue = Tail(sk.queue), !.expect = e] \in Socks
    BY ONLY sk \in Socks, <1>1, <1>2, SockType
  <2> QED BY <1>3, <2>1
<1>5. /\ TakeMsg(sk).next = sk.next
      /\ TakeMsg(sk).queue = Tail(sk.queue)
      /\ TakeMsg(sk).expect = e
  BY <1>3 DEF Socks
<1> QED BY <1>4, <1>5 DEF e

(* The dump is read, message by message. *)
LEMMA PickupKeeps ==
  ASSUME NEW c \in Clients, IInv, Pickup(c) PROVE IInv'
<1> USE DEF IInv
<1> DEFINE m == sock[c].queue[1]
           r == recvmsgs(sock[c], "dump")
<1>0. sock[c] \in Socks
  BY DEF Types
<1>a. /\ pc[c] \in {"pickup", "known", "unknown"}
      /\ sock[c].queue # << >> /\ Mine(c, 1)
      /\ pc[c] = "pickup" => m.type = "multi" /\ Len(sock[c].queue) = 2
      /\ pc[c] # "pickup" => m.type = "done" /\ Len(sock[c].queue) = 1
  BY <1>0 DEF Pickup, ClientInv, Exchange, Socks
<1>b. r = Ok /\ Head(sock[c].queue) = m
  BY <1>0, <1>a, RecvInStep DEF Mine, Socks
<1>c. UNCHANGED <<loaded, cardVars, genl_mutex>>
  BY DEF Pickup
<1>1. CASE Finish(c, "NOTFOUND", NotYet)
  BY <1>1, <1>c, FinishKeeps DEF Errnos, Words
<1>2. CASE /\ sock' = [sock EXCEPT ![c] = TakeMsg(sock[c])]
           /\ UNCHANGED <<req, reply, out>>
           /\ \/ pc[c] = "pickup" /\ (Goto(c, "known") \/ Goto(c, "unknown"))
              \/ pc[c] = "known" /\ Goto(c, "alloc")
  <2>a. /\ sock'[c] = TakeMsg(sock[c]) /\ req'[c] = req[c]
        /\ reply'[c] = reply[c] /\ out'[c] = out[c]
        /\ pc'[c] \in IF pc[c] = "pickup" THEN {"known", "unknown"}
                                          ELSE {"alloc"}
    BY <1>2 DEF Types, Goto
  <2>b. sock'[c] \in Socks
    BY <2>a, <1>0, <1>a, TakeInStep DEF Mine
  <2>1. Types'
    BY <1>2, <1>c, <2>a, <2>b DEF Types, Goto, cardVars, PCs
  <2>2. Flags'
    BY Zenon, <1>c DEF Flags
  <2>3. HandlerAlone'
    BY <1>2, <1>c DEF HandlerAlone, HandlerHasFamily, PageMine, Goto,
       Types, cardVars, Handling, Page
  <2>4. ClientInv(c)'
    <3>1. Called(c)'
      BY <2>a, <1>a DEF Called, ClientInv
    <3>2. Answered(c)'
      BY <2>a, <1>a DEF Answered, ClientInv, Called
    <3>3. /\ sock'[c].next = sock[c].next
          /\ sock'[c].queue = Tail(sock[c].queue)
          /\ sock'[c].expect = IF pc[c] = "pickup" THEN sock[c].expect
                                                   ELSE sock[c].expect + 1
      BY <2>a, <1>0, <1>a, TakeInStep DEF Mine
    <3>4. CASE pc[c] = "pickup"
      <4>1. /\ Len(sock'[c].queue) = 1
            /\ sock'[c].queue[1] = sock[c].queue[2]
        BY <3>3, <3>4, <1>0, <1>a DEF Socks
      <4>2. Exchange(c)'
        BY <2>a, <3>3, <3>4, <4>1 DEF Exchange, ClientInv, Mine, Unsent, Empty
      <4> QED BY <2>a, <3>1, <3>2, <4>2 DEF ClientInv
    <3>5. CASE pc[c] = "known"
      <4>1. sock'[c].queue = << >>
        <5>1. sock[c].queue \in Seq(Msgs) /\ Len(sock[c].queue) = 1
          BY <3>5, <1>0, <1>a DEF Socks
        <5> QED BY <5>1, <3>3, TailOne
      <4>2. Exchange(c)'
        BY <2>a, <3>3, <3>5, <4>1 DEF Exchange, ClientInv, Mine, Unsent, Empty
      <4> QED BY <2>a, <3>1, <3>2, <4>2 DEF ClientInv
    <3> QED BY <1>2, <3>4, <3>5
  <2>5. \A d \in Clients \ {c} : Still(d)
    BY <1>2 DEF Still, Goto, Types
  <2> QED BY <2>1, <2>2, <2>3, <2>4, <2>5, OneClient
<1>3. \/ Finish(c, "NOTFOUND", NotYet)
      \/ /\ sock' = [sock EXCEPT ![c] = TakeMsg(sock[c])]
         /\ UNCHANGED <<req, reply, out>>
         /\ \/ pc[c] = "pickup" /\ (Goto(c, "known") \/ Goto(c, "unknown"))
            \/ pc[c] = "known" /\ Goto(c, "alloc")
  BY <1>a, <1>b DEF Pickup, Ok, Types
<1> QED BY <1>1, <1>2, <1>3

(* The request cannot be built or sent, and the call ends. *)
LEMMA FailsKeep ==
  ASSUME NEW c \in Clients, IInv, AllocFails(c) \/ SendFails(c) PROVE IInv'
BY FinishKeeps DEF AllocFails, SendFails, Errnos, Words

(* The request is numbered, and sent or not. *)
LEMMA SendKeeps ==
  ASSUME NEW c \in Clients, IInv, Send(c) \/ SendFailsUnseen(c) PROVE IInv'
<1> USE DEF IInv
<1> DEFINE n == sock[c].next + 1
<1>0. sock[c] \in Socks /\ n \in Nat
  BY DEF Types, Socks
<1>a. /\ sock' = [sock EXCEPT ![c] = [sock[c] EXCEPT !.next = n]]
      /\ Goto(c, "kernel") \/ Goto(c, "recv")
      /\ pc[c] = "alloc"
      /\ UNCHANGED <<loaded, cardVars, genl_mutex, req, reply, out>>
  BY DEF Send, SendFailsUnseen
<1>b. /\ sock'[c] = [sock[c] EXCEPT !.next = n]
      /\ pc'[c] \in {"kernel", "recv"} /\ req'[c] = req[c]
      /\ reply'[c] = reply[c] /\ out'[c] = out[c]
  BY <1>a DEF Types, Goto
<1>c. sock'[c] \in Socks
  <2> HIDE DEF n
  <2>1. [sock[c] EXCEPT !.next = n] \in Socks
    BY ONLY <1>0, SockType, EmptySeq
  <2> QED BY <2>1, <1>b
<1>1. Types'
  BY <1>a, <1>b, <1>c DEF Types, Goto, cardVars, PCs
<1>2. Flags'
  BY Zenon, <1>a DEF Flags
<1>3. HandlerAlone'
  BY <1>a DEF HandlerAlone, HandlerHasFamily, PageMine, Goto, Types,
     cardVars, Handling, Page
<1>4. ClientInv(c)'
  <2>1. /\ sock'[c].next = n /\ sock'[c].expect = sock[c].expect
        /\ sock'[c].queue = sock[c].queue
    BY <1>0, <1>b DEF Socks
  <2>2. sock[c].next = sock[c].expect /\ sock[c].queue = << >>
    BY <1>a DEF ClientInv, Exchange, Unsent, Empty
  <2>3. Called(c)'
    BY <1>a, <1>b DEF Called, ClientInv
  <2>4. Exchange(c)'
    BY <1>b, <2>1, <2>2, EmptySeq DEF Exchange, Unsent, Empty
  <2>5. Answered(c)'
    BY <1>a, <1>b, <2>1, <2>2 DEF Answered, ClientInv, Called
  <2> QED BY <1>b, <2>3, <2>4, <2>5 DEF ClientInv
<1>5. \A d \in Clients \ {c} : Still(d)
  BY <1>a DEF Still, Goto, Types
<1> QED BY <1>1, <1>2, <1>3, <1>4, <1>5, OneClient

(* The answer is read, and the call ends. *)
LEMMA RecvKeeps ==
  ASSUME NEW c \in Clients, IInv, Recv(c) PROVE IInv'
<1> DEFINE r == recvmsgs(sock[c], req[c].op)
<1>0. sock[c] \in Socks
  BY DEF IInv, Types
<1>1. sock[c].queue # << >> /\ Mine(c, 1)
  <2>1. 1 \in 1 .. Len(sock[c].queue)
    BY <1>0, EmptySeq DEF Recv, Socks
  <2> QED BY <2>1 DEF Recv, IInv, ClientInv, Exchange
<1>2. r \in [err : Errnos \ {"SEQ_MISMATCH"}, val : Words]
  BY <1>0, <1>1, RecvInStep DEF Mine
<1>3. Finish(c, r.err, r.val) /\ UNCHANGED <<loaded, cardVars, genl_mutex>>
  BY DEF Recv
<1> HIDE DEF r
<1>4. r.err \in Errnos \ {"SEQ_MISMATCH"} /\ r.val \in Words
  BY <1>2
<1> QED BY <1>3, <1>4, FinishKeeps

-----------------------------------------------------------------------------
(* Steps of the kernel and of the handlers. *)

(* A message is queued at the end. *)
LEMMA QueueFacts ==
  ASSUME NEW c \in Clients, NEW m \in Msgs, Types, Queue(c, m)
  PROVE  /\ sock' \in [Clients -> Socks]
         /\ sock'[c].next = sock[c].next
         /\ sock'[c].expect = sock[c].expect
         /\ sock'[c].queue \in Seq(Msgs) /\ sock'[c].queue # << >>
         /\ Len(sock'[c].queue) = Len(sock[c].queue) + 1
         /\ \A i \in 1 .. Len(sock[c].queue) :
              sock'[c].queue[i] = sock[c].queue[i]
         /\ sock'[c].queue[Len(sock[c].queue) + 1] = m
         /\ \A d \in Clients \ {c} : sock'[d] = sock[d]
<1> DEFINE q == sock[c].queue
           t == Append(q, m)
<1>0. sock[c] \in Socks
  BY DEF Types
<1>1. q \in Seq(Msgs)
  BY <1>0 DEF Socks
<1>2. /\ t \in Seq(Msgs) /\ t # << >> /\ Len(t) = Len(q) + 1
      /\ \A i \in 1 .. Len(q) : t[i] = q[i]
      /\ t[Len(q) + 1] = m
  BY <1>1, AppendProperties
<1>3. /\ sock' = [sock EXCEPT ![c] = [sock[c] EXCEPT !.queue = t]]
      /\ sock'[c] = [sock[c] EXCEPT !.queue = t]
  BY DEF Queue, Types
<1> HIDE DEF t
<1>4. [sock[c] EXCEPT !.queue = t] \in Socks
  BY ONLY <1>0, <1>2, SockType
<1>5. /\ sock'[c].next = sock[c].next /\ sock'[c].expect = sock[c].expect
      /\ sock'[c].queue = t
  BY <1>0, <1>3 DEF Socks
<1>6. sock' \in [Clients -> Socks]
  BY <1>3, <1>4 DEF Types
<1>7. \A d \in Clients \ {c} : sock'[d] = sock[d]
  BY <1>3 DEF Types
<1> QED BY <1>2, <1>5, <1>6, <1>7

(* The kernel takes the request: no such family, or a handler starts. *)
LEMMA DeliverKeeps ==
  ASSUME NEW c \in Clients, IInv, Deliver(c) PROVE IInv'
<1> USE DEF IInv
<1> DEFINE m == Msg("error", SeqOf(c), "ENOENT", NotYet)
<1>0. pc[c] = "kernel" /\ genl_mutex = NoOne /\ sock[c] \in Socks
      /\ sock[c].queue = << >> /\ SeqOf(c) = sock[c].expect
  <2>1. pc[c] = "kernel" /\ genl_mutex = NoOne /\ sock[c] \in Socks
    BY DEF Deliver, Types
  <2>2. sock[c].queue = << >> /\ sock[c].next = sock[c].expect + 1
    BY <2>1 DEF ClientInv, Exchange, Unsent, Empty
  <2>3. SeqOf(c) = sock[c].expect
    BY <2>1, <2>2 DEF SeqOf, Socks
  <2> QED BY <2>1, <2>2, <2>3
<1>a. m \in Msgs
  BY <1>0 DEF Msgs, Msg, Errnos, Socks
<1>b. UNCHANGED <<loaded, cardVars, req, reply, out>>
  BY DEF Deliver
<1>2. Flags'
  BY Zenon, <1>b DEF Flags
<1>c. \A d \in Clients : pc[d] \notin Handling
  BY <1>0, RequestAssumption DEF HandlerAlone, HandlerHasFamily
<1>3. CASE Queue(c, m) /\ Goto(c, "recv") /\ UNCHANGED genl_mutex
  <2>1. Types'
    BY <1>3, <1>a, <1>b, QueueFacts DEF Types, Goto, cardVars, PCs
  <2>2. HandlerAlone'
    BY <1>3, <1>b, <1>c DEF HandlerAlone, HandlerHasFamily, PageMine, Goto,
       Types, Handling
  <2>3. /\ Len(sock'[c].queue) = 1 /\ sock'[c].queue[1] = m
        /\ sock'[c].next = sock[c].next /\ sock'[c].expect = sock[c].expect
    <3>1. Len(sock[c].queue) = 0
      BY <1>0, EmptySeq
    <3> HIDE DEF m
    <3>2. /\ sock'[c].next = sock[c].next
          /\ sock'[c].expect = sock[c].expect
          /\ Len(sock'[c].queue) = Len(sock[c].queue) + 1
          /\ sock'[c].queue[Len(sock[c].queue) + 1] = m
      BY <1>3, <1>a, QueueFacts
    <3> QED BY <3>1, <3>2
  <2>4. pc'[c] = "recv" /\ req'[c] = req[c] /\ reply'[c] = reply[c]
        /\ out'[c] = out[c]
    BY <1>3, <1>b DEF Types, Goto
  <2>5. ClientInv(c)'
    <3>1. Called(c)'
      BY <1>0, <2>4 DEF Called, ClientInv
    <3>2. Exchange(c)'
      <4>1. m.seq = sock[c].expect /\ m.err = "ENOENT" /\ m.type = "error"
        BY <1>0 DEF Msg
      <4>2. sock[c].next = sock[c].expect + 1
        BY <1>0 DEF ClientInv, Exchange, Unsent
      <4> HIDE DEF m
      <4> QED BY <2>3, <2>4, <4>1, <4>2 DEF Exchange, Unsent, Empty, Mine
    <3>3. Answered(c)'
      <4>1. reply[c] = NoReply
        BY <1>0 DEF ClientInv, Answered
      <4>2. m.err = "ENOENT" /\ m.type = "error"
        BY DEF Msg
      <4> HIDE DEF m
      <4> QED BY <2>3, <2>4, <4>1, <4>2 DEF Answered, NoReply
    <3> QED BY <2>4, <3>1, <3>2, <3>3 DEF ClientInv
  <2>6. \A d \in Clients \ {c} : Still(d)
    BY <1>3, <1>a, <1>b, QueueFacts DEF Still, Goto, Types
  <2> QED BY <1>2, <2>1, <2>2, <2>5, <2>6, OneClient
<1>4. CASE loaded /\ genl_mutex' = c /\ Goto(c, "handler") /\ UNCHANGED sock
  <2>1. Types'
    BY <1>4, <1>b DEF Types, Goto, cardVars, PCs, Handling
  <2>2. HandlerAlone'
    <3>1. \A d \in Clients : pc'[d] \in Handling => d = c /\ pc'[d] = "handler"
      BY <1>4, <1>c DEF Goto, Types
    <3>2. loaded'
      BY Zenon, <1>4, <1>b
    <3>3. HandlerHasFamily'
      BY Zenon, <1>4, <3>1, <3>2 DEF HandlerHasFamily
    <3>4. PageMine'
      BY <3>1 DEF PageMine, Handling
    <3> QED BY <3>3, <3>4 DEF HandlerAlone
  <2>4. pc'[c] = "handler" /\ req'[c] = req[c] /\ reply'[c] = reply[c]
        /\ out'[c] = out[c] /\ sock'[c] = sock[c]
    BY <1>4, <1>b DEF Types, Goto
  <2>5. ClientInv(c)'
    BY <1>0, <2>4 DEF ClientInv, Called, Exchange, Answered, Unsent, Empty
  <2>6. \A d \in Clients \ {c} : Still(d)
    BY <1>4, <1>b DEF Still, Goto, Types
  <2> QED BY <1>2, <2>1, <2>2, <2>5, <2>6, OneClient
<1> QED BY <1>3, <1>4 DEF Deliver

(* While c's handler runs no other does, so what it does to the page       *)
(* window does not disturb HandlerAlone.                                   *)
LEMMA HandlerStays ==
  ASSUME NEW c \in Clients, NEW l \in PCs, Types, HandlerAlone,
         pc[c] \in Handling, Goto(c, l), UNCHANGED <<loaded, req>>,
         l \in Handling => UNCHANGED genl_mutex,
         l = "access" => pageWindow' = Page(req[c].addr)
  PROVE  HandlerAlone'
<1>1. \A d \in Clients \ {c} : pc[d] \notin Handling
  BY DEF HandlerAlone, HandlerHasFamily
<1>2. \A d \in Clients : pc'[d] \in Handling => d = c /\ pc'[d] = l
  BY <1>1 DEF Goto, Types
<1>3. loaded'
  BY Zenon DEF HandlerAlone, HandlerHasFamily
<1>4. genl_mutex = c
  BY DEF HandlerAlone, HandlerHasFamily
<1> QED BY <1>2, <1>3, <1>4 DEF HandlerAlone, HandlerHasFamily, PageMine,
           Page, Handling

(* A handler sets its answer and goes on; sockets are not touched. *)
LEMMA AnswerKeeps ==
  ASSUME NEW c \in Clients, IInv, NEW l \in {"reply", "ack"},
         NEW errno \in {"OK", "EDRIVER", "ENOMEM"}, NEW val \in Words,
         pc[c] \in {"handler", "access"}, Goto(c, l),
         reply' = [reply EXCEPT ![c] = [errno |-> errno, val |-> val]],
         regs' \in [Cells -> Values],
         UNCHANGED <<loaded, pageWindow, genl_mutex, req, sock, out>>,
         req[c].op \in RegOps /\ errno = "OK" => val # NotYet,
         errno = "EDRIVER" => ~Aligned(req[c].addr),
         l = "reply" => errno \in {"OK", "EDRIVER"},
         l = "ack" => errno = "ENOMEM" \/ req[c].op = "NAPI_ENABLE"
  PROVE  IInv'
<1> USE DEF IInv
<1>1. Types'
  BY DEF Types, Goto, PCs, Handling, Errnos
<1>2. Flags'
  BY Zenon DEF Flags
<1>3. HandlerAlone'
  BY HandlerStays DEF Handling, PCs
<1>4. ClientInv(c)'
  <2>1. /\ pc'[c] = l /\ req'[c] = req[c] /\ sock'[c] = sock[c]
        /\ out'[c] = out[c] /\ reply'[c] = [errno |-> errno, val |-> val]
    BY DEF Types, Goto
  <2>2. sock[c].queue = << >> /\ sock[c].next = sock[c].expect + 1
        /\ req[c] \in Requests
    BY DEF ClientInv, Called, Exchange, Unsent, Empty
  <2>3. Called(c)'
    BY <2>1, <2>2 DEF Called
  <2>4. Exchange(c)'
    BY <2>1, <2>2, EmptySeq DEF Exchange, Unsent, Empty
  <2>5. Answered(c)'
    BY <2>1, <2>2 DEF Answered
  <2> QED BY <2>1, <2>3, <2>4, <2>5 DEF ClientInv
<1>5. \A d \in Clients \ {c} : Still(d)
  BY DEF Still, Goto, Types
<1> QED BY <1>1, <1>2, <1>3, <1>4, <1>5, OneClient

(* The handlers that only set an answer. *)
LEMMA HandlersKeep ==
  ASSUME NEW c \in Clients, IInv,
         genl_cmd_echo(c) \/ genl_cmd_napi_enable(c) \/ NoReplySkb(c)
  PROVE  IInv'
<1>0. regs \in [Cells -> Values] /\ NotYet \in Words
  BY DEF IInv, Types, Words
<1>1. CASE genl_cmd_echo(c)
  BY <1>0, <1>1, AnswerKeeps DEF genl_cmd_echo, Answer, cardVars, RegOps
<1>2. CASE genl_cmd_napi_enable(c)
  BY <1>0, <1>2, AnswerKeeps DEF genl_cmd_napi_enable, cardVars, RegOps
<1>3. CASE NoReplySkb(c)
  BY <1>0, <1>3, AnswerKeeps DEF NoReplySkb, cardVars
<1> QED BY <1>1, <1>2, <1>3

(* The address is refused, or the page window set. *)
LEMMA SetPageKeeps ==
  ASSUME NEW c \in Clients, IInv, SetPage(c) PROVE IInv'
<1> USE DEF IInv
<1>0. regs \in [Cells -> Values] /\ NotYet \in Words /\ regs' = regs
      /\ pc[c] = "handler" /\ req[c].op \in RegOps
  BY DEF Types, Words, SetPage
<1>1. CASE ~Aligned(req[c].addr)
  BY <1>0, <1>1, AnswerKeeps DEF SetPage, Answer, RegOps
<1>2. CASE Aligned(req[c].addr)
  <2>0. req[c] \in Requests
    BY <1>0 DEF ClientInv, Called
  <2>a. /\ pageWindow' = Page(req[c].addr) /\ Goto(c, "access")
        /\ UNCHANGED <<loaded, regs, genl_mutex, req, sock, reply, out>>
    BY <1>2 DEF SetPage
  <2>1. Types'
    BY <2>0, <2>a, CellOf, PageType DEF Types, Goto, PCs, Handling
  <2>2. Flags'
    BY Zenon, <2>a DEF Flags
  <2>3. HandlerAlone'
    BY <1>0, <2>a, HandlerStays DEF Handling, PCs
  <2>4. ClientInv(c)'
    <3>1. /\ pc'[c] = "access" /\ req'[c] = req[c] /\ sock'[c] = sock[c]
          /\ out'[c] = out[c] /\ reply'[c] = reply[c]
      BY <2>a DEF Types, Goto
    <3>2. Called(c)'
      BY <3>1, <1>0, <1>2, <2>0 DEF Called, Aligned
    <3>3. Exchange(c)' /\ Answered(c)'
      BY <3>1, <1>0 DEF Exchange, Answered, ClientInv, Unsent, Empty
    <3> QED BY <3>1, <3>2, <3>3 DEF ClientInv
  <2>5. \A d \in Clients \ {c} : Still(d)
    BY <2>a DEF Still, Goto, Types
  <2> QED BY <2>1, <2>2, <2>3, <2>4, <2>5, OneClient
<1> QED BY <1>1, <1>2

(* In the access the window shows the register of the call. *)
LEMMA SelectedIsMine ==
  ASSUME NEW c \in Clients, IInv, pc[c] = "access"
  PROVE  /\ req[c] \in Requests /\ req[c].op \in RegOps
         /\ Aligned(req[c].addr)
         /\ Selected(c) = <<Page(req[c].addr), Word(req[c].addr)>>
         /\ Selected(c) \in Cells /\ req[c].val \in Values
<1>1. req[c] \in Requests /\ req[c].op \in RegOps /\ Aligned(req[c].addr)
  BY DEF IInv, ClientInv, Called
<1>2. pageWindow = Page(req[c].addr)
  BY DEF IInv, HandlerAlone, PageMine
<1> QED BY <1>1, <1>2, CellOf DEF Selected

(* The register is read or written. *)
LEMMA AccessKeeps ==
  ASSUME NEW c \in Clients, IInv, ReadReg(c) \/ WriteReg(c) PROVE IInv'
<1>0. pc[c] = "access" /\ regs \in [Cells -> Values]
  BY DEF ReadReg, WriteReg, IInv, Types
<1>1. CASE ReadReg(c)
  <2>1. regs[Selected(c)] \in Values /\ regs[Selected(c)] # NotYet
    BY <1>0, SelectedIsMine, RequestAssumption
  <2> QED BY <1>0, <1>1, <2>1, AnswerKeeps DEF ReadReg, Answer, cardVars, Words
<1>2. CASE WriteReg(c)
  <2>1. req[c].val \in Values /\ req[c].val # NotYet
    BY <1>0, SelectedIsMine, RequestAssumption
  <2>2. regs' \in [Cells -> Values]
    BY <1>0, <1>2, <2>1 DEF WriteReg
  <2> QED BY <1>0, <1>2, <2>1, <2>2, AnswerKeeps DEF WriteReg, Answer, Words
<1> QED BY <1>1, <1>2

(* genlmsg_reply() queues the reply. *)
LEMMA ReplyKeeps ==
  ASSUME NEW c \in Clients, IInv, Reply(c) PROVE IInv'
<1> USE DEF IInv
<1> DEFINE m == Msg("valid", SeqOf(c), reply[c].errno, reply[c].val)
<1>a. /\ pc[c] = "reply" /\ Queue(c, m) /\ Goto(c, "ack")
      /\ UNCHANGED <<loaded, cardVars, genl_mutex, req, reply, out>>
  BY DEF Reply
<1>b. /\ sock[c] \in Socks /\ sock[c].queue = << >>
      /\ sock[c].next = sock[c].expect + 1 /\ req[c] \in Requests
      /\ reply[c].errno \in {"OK", "EDRIVER"} /\ reply[c].val \in Words
  BY <1>a DEF Types, ClientInv, Called, Exchange, Answered, Unsent, Empty
<1>c. SeqOf(c) = sock[c].expect /\ Len(sock[c].queue) = 0
  BY <1>b, EmptySeq DEF SeqOf, Socks
<1>d. /\ m \in Msgs /\ m.seq = sock[c].expect /\ m.type = "valid"
      /\ m.err = reply[c].errno /\ m.val = reply[c].val
  BY <1>b, <1>c DEF Msg, Msgs, Errnos, Words, Socks
<1> HIDE DEF m
<1>1. Types'
  BY <1>a, <1>d, QueueFacts DEF Types, Goto, cardVars, PCs, Handling
<1>2. Flags'
  BY Zenon, <1>a DEF Flags
<1>3. HandlerAlone'
  BY <1>a, HandlerStays DEF Handling, PCs
<1>4. ClientInv(c)'
  <2>1. /\ pc'[c] = "ack" /\ req'[c] = req[c] /\ out'[c] = out[c]
        /\ reply'[c] = reply[c]
    BY <1>a DEF Types, Goto
  <2>2. /\ sock'[c].next = sock[c].next
        /\ sock'[c].expect = sock[c].expect
        /\ sock'[c].queue # << >>
        /\ Len(sock'[c].queue) = Len(sock[c].queue) + 1
        /\ sock'[c].queue[Len(sock[c].queue) + 1] = m
    BY <1>a, <1>d, QueueFacts
  <2>3. Len(sock'[c].queue) = 1 /\ sock'[c].queue[1] = m
    BY <2>2, <1>c
  <2>4. Called(c)'
    BY <2>1, <1>a DEF Called, ClientInv
  <2>5. Exchange(c)'
    BY <2>1, <2>2, <2>3, <1>b, <1>d DEF Exchange, Unsent, Empty, Mine
  <2>6. Answered(c)'
    BY <2>1, <2>2, <2>3, <1>a, <1>b, <1>d DEF Answered, ClientInv
  <2> QED BY <2>1, <2>4, <2>5, <2>6 DEF ClientInv
<1>5. \A d \in Clients \ {c} : Still(d)
  BY <1>a, <1>d, QueueFacts DEF Still, Goto, Types
<1> QED BY <1>1, <1>2, <1>3, <1>4, <1>5, OneClient

(* It fails, and nothing is queued. *)
LEMMA ReplyFailsKeeps ==
  ASSUME NEW c \in Clients, IInv, ReplyFails(c) PROVE IInv'
<1> USE DEF IInv
<1>a. /\ pc[c] = "reply" /\ Goto(c, "nack")
      /\ UNCHANGED <<loaded, cardVars, genl_mutex, req, sock, reply, out>>
  BY DEF ReplyFails
<1>1. Types'
  BY <1>a DEF Types, Goto, cardVars, PCs, Handling
<1>2. Flags'
  BY Zenon, <1>a DEF Flags
<1>3. HandlerAlone'
  BY <1>a, HandlerStays DEF Handling, PCs
<1>4. ClientInv(c)'
  <2>1. /\ pc'[c] = "nack" /\ req'[c] = req[c] /\ out'[c] = out[c]
        /\ reply'[c] = reply[c] /\ sock'[c] = sock[c]
    BY <1>a DEF Types, Goto
  <2> QED BY <1>a, <2>1 DEF ClientInv, Called, Exchange, Answered, Unsent,
             Empty
<1>5. \A d \in Clients \ {c} : Still(d)
  BY <1>a DEF Still, Goto, Types
<1> QED BY <1>1, <1>2, <1>3, <1>4, <1>5, OneClient

(* netlink_ack(), behind the reply if there is one. *)
LEMMA AckKeeps ==
  ASSUME NEW c \in Clients, IInv, Ack(c) PROVE IInv'
<1> USE DEF IInv
<1> DEFINE err == CASE pc[c] = "nack" -> "EREPLY"
                    [] reply[c].errno = "ENOMEM" -> "ENOMEM"
                    [] OTHER -> "OK"
           m == Msg("error", SeqOf(c), err, NotYet)
           q == sock[c].queue
<1>a. /\ pc[c] \in {"ack", "nack"} /\ Queue(c, m) /\ Goto(c, "recv")
      /\ genl_mutex' = NoOne
      /\ UNCHANGED <<loaded, cardVars, req, reply, out>>
  BY DEF Ack
<1>b. /\ sock[c] \in Socks /\ sock[c].next = sock[c].expect + 1
      /\ req[c] \in Requests
  BY <1>a DEF Types, ClientInv, Called, Exchange, Unsent
<1>c. SeqOf(c) = sock[c].expect /\ q \in Seq(Msgs)
  BY <1>b DEF SeqOf, Socks
<1>d. err \in {"EREPLY", "ENOMEM", "OK"}
  OBVIOUS
<1>e. /\ Len(q) \in {0, 1} /\ \A i \in 1 .. Len(q) : Mine(c, i)
      /\ Len(q) = 1 => q[1].type = "valid"
      /\ Len(q) = 0 /\ err = "OK" => req[c].op = "NAPI_ENABLE"
  <2>1. CASE pc[c] = "nack"
    BY <1>a, <2>1, EmptySeq DEF ClientInv, Exchange, Empty
  <2>2. CASE pc[c] = "ack"
    <3>1. Len(q) \in {0, 1}
      <4> DEFINE k == Len(q)
      <4>1. k <= 1
        BY <2>2 DEF ClientInv, Exchange
      <4>2. k \in Nat
        BY <1>c, LenProperties
      <4> HIDE DEF k
      <4>3. k \in {0, 1}
        BY <4>1, <4>2
      <4> QED BY <4>3 DEF k
    <3>2. Len(q) = 0 <=> q = << >>
      BY <1>c, EmptySeq
    <3>3. err = "OK" => reply[c].errno # "ENOMEM"
      BY <2>2
    <3> HIDE DEF err
    <3> QED BY <2>2, <3>1, <3>2, <3>3 DEF ClientInv, Exchange, Answered
  <2> QED BY <1>a, <2>1, <2>2
<1> HIDE DEF err
<1>f. /\ m \in Msgs /\ m.seq = sock[c].expect /\ m.type = "error"
      /\ m.err = err
  BY <1>b, <1>c, <1>d DEF Msg, Msgs, Errnos, Socks
<1> HIDE DEF m
<1>1. Types'
  BY <1>a, <1>f, QueueFacts DEF Types, Goto, cardVars, PCs, Handling
<1>2. Flags'
  BY Zenon, <1>a DEF Flags
<1>3. HandlerAlone'
  BY <1>a, HandlerStays DEF Handling, PCs
<1>4. ClientInv(c)'
  <2>1. /\ pc'[c] = "recv" /\ req'[c] = req[c] /\ out'[c] = out[c]
        /\ reply'[c] = reply[c]
    BY <1>a DEF Types, Goto
  <2>2. /\ sock'[c].next = sock[c].next
        /\ sock'[c].expect = sock[c].expect
        /\ sock'[c].queue # << >>
        /\ Len(sock'[c].queue) = Len(q) + 1
        /\ \A i \in 1 .. Len(q) : sock'[c].queue[i] = q[i]
        /\ sock'[c].queue[Len(q) + 1] = m
    BY <1>a, <1>f, QueueFacts
  <2>3. Called(c)'
    BY <2>1, <1>a DEF Called, ClientInv
  <2>4. CASE Len(q) = 0
    <3>1. Len(sock'[c].queue) = 1 /\ sock'[c].queue[1] = m
      BY <2>2, <2>4
    <3>2. Exchange(c)'
      BY <2>1, <2>2, <3>1, <1>b, <1>d, <1>f DEF Exchange, Unsent, Empty, Mine
    <3>3. Answered(c)'
      BY <2>1, <2>2, <2>4, <3>1, <1>a, <1>e, <1>f
      DEF Answered, ClientInv, RegOps
    <3> QED BY <2>1, <2>3, <3>2, <3>3 DEF ClientInv
  <2>5. CASE Len(q) = 1
    <3>1. /\ Len(sock'[c].queue) = 2 /\ sock'[c].queue[1] = q[1]
          /\ sock'[c].queue[2] = m /\ Mine(c, 1)
      BY <2>2, <2>5, <1>e
    <3>2. Exchange(c)'
      BY <2>1, <2>2, <2>5, <3>1, <1>b, <1>d, <1>e, <1>f
      DEF Exchange, Unsent, Empty, Mine
    <3>3. pc[c] = "ack" /\ q # << >>
      BY <1>a, <2>5, EmptySeq DEF ClientInv, Exchange, Empty
    <3>4. Answered(c)'
      BY <2>1, <2>2, <3>1, <3>3, <2>5, <1>e
      DEF Answered, ClientInv
    <3> QED BY <2>1, <2>3, <3>2, <3>4 DEF ClientInv
  <2> QED BY <2>4, <2>5, <1>e
<1>5. \A d \in Clients \ {c} : Still(d)
  BY <1>a, <1>f, QueueFacts DEF Still, Goto, Types
<1> QED BY <1>1, <1>2, <1>3, <1>4, <1>5, OneClient

(* The module is loaded or unloaded, which no handler sees. *)
LEMMA ModuleKeeps ==
  ASSUME IInv, Module PROVE IInv'
<1> USE DEF IInv
<1>1. Types'
  BY DEF Types, Module, cardVars
<1>2. Flags'
  BY Zenon DEF Flags, Module
<1>3. HandlerAlone'
  <2>1. \A d \in Clients : pc[d] \notin Handling
    BY RequestAssumption DEF Module, HandlerAlone, HandlerHasFamily
  <2>2. pc' = pc
    BY DEF Module
  <2>3. HandlerHasFamily'
    BY Zenon, <2>1, <2>2 DEF HandlerHasFamily
  <2>4. PageMine'
    BY <2>1, <2>2 DEF PageMine, Handling
  <2> QED BY <2>3, <2>4 DEF HandlerAlone
<1>4. ASSUME NEW d \in Clients PROVE ClientInv(d)'
  <2>1. ClientInv(d) /\ Still(d)
    BY DEF Module, Still
  <2> QED BY <2>1 DEF ClientInv, Still, Called, Exchange, Answered, Mine,
                      Unsent, Empty
<1> QED BY <1>1, <1>2, <1>3, <1>4

-----------------------------------------------------------------------------
(* Every step keeps the invariant. *)
LEMMA NextIInv == IInv /\ [Next]_vars => IInv'
<1> SUFFICES ASSUME IInv, [Next]_vars PROVE IInv'
  OBVIOUS
<1>1. ASSUME NEW c \in Clients, Call(c) \/ ResolveSend(c) \/ Deliver(c)
      PROVE IInv'
  BY <1>1, CallKeeps, ResolveSendKeeps, DeliverKeeps
<1>2. ASSUME NEW c \in Clients, ClientStep(c) PROVE IInv'
  BY <1>2, ConnectKeeps, PickupKeeps, FailsKeep, SendKeeps, RecvKeeps
  DEF ClientStep
<1>3. ASSUME NEW c \in Clients, HandlerStep(c) PROVE IInv'
  BY <1>3, HandlersKeep, SetPageKeeps, AccessKeeps, ReplyKeeps,
     ReplyFailsKeeps, AckKeeps DEF HandlerStep
<1>4. ASSUME UNCHANGED vars PROVE IInv'
  <2> USE <1>4 DEF IInv, vars, cardVars
  <2>1. Types'
    BY DEF Types
  <2>2. Flags'
    BY Zenon DEF Flags
  <2>3. HandlerAlone'
    BY DEF HandlerAlone, HandlerHasFamily, PageMine, Page
  <2>4. ASSUME NEW d \in Clients PROVE ClientInv(d)'
    BY DEF ClientInv, Called, Exchange, Answered, Mine, Unsent, Empty
  <2> QED BY <2>1, <2>2, <2>3, <2>4
<1> QED BY <1>1, <1>2, <1>3, <1>4, ModuleKeeps DEF Next

(* The invariant holds in every behaviour. *)
THEOREM IInvHolds == Spec => []IInv
BY InitIInv, NextIInv, PTL DEF Spec

(* A handler of the driver is alone with its family, genl_mutex and the    *)
(* page window it has set, for any number of processes.                    *)
THEOREM HandlersAreAlone == Spec => []HandlerAlone
<1>1. IInv => HandlerAlone
  BY DEF IInv
<1> QED BY <1>1, IInvHolds, PTL

(* Sockets are sound: the two sequence numbers stay in step, so no call    *)
(* fails with a mismatch, and every way out closes the socket.             *)
THEOREM SocketsAreSound == Spec => []SocketsSound
<1>1. ASSUME IInv PROVE SocketsSound
  <2> USE <1>1 DEF IInv
  <2>1. InSequence
    BY DEF InSequence, ClientInv, Exchange, Unsent, Empty
  <2>2. SocketsClosed
    BY DEF SocketsClosed, ClientInv, Exchange
  <2>3. ASSUME NEW c \in Clients
        PROVE  /\ sock[c].next \in Nat /\ sock[c].expect \in Nat
               /\ Len(sock[c].queue) <= 2
               /\ \A i \in DOMAIN sock[c].queue : sock[c].queue[i] \in Msgs
               /\ reply[c].errno \in Errnos \cup {"none"}
               /\ reply[c].val \in Values \cup {NotYet}
               /\ out[c].err \in Errnos \cup {"none"}
               /\ out[c].val \in Values \cup {NotYet}
    <3>1. /\ sock[c].next \in Nat /\ sock[c].expect \in Nat
          /\ sock[c].queue \in Seq(Msgs)
      BY DEF Types, Socks
    <3>2. /\ reply[c].errno \in Errnos \cup {"none"}
          /\ reply[c].val \in Values \cup {NotYet}
          /\ out[c].err \in Errnos \cup {"none"}
          /\ out[c].val \in Values \cup {NotYet}
      BY DEF Types, Words
    <3>3. pc[c] \in Empty \/ pc[c] \in {"pickup", "known", "unknown", "ack",
                                        "recv"}
      BY DEF Types, PCs, Handling, Empty, Unsent
    <3>4. Len(sock[c].queue) <= 2
      <4>1. CASE pc[c] \in Empty
        BY <4>1, EmptySeq DEF ClientInv, Exchange
      <4>2. CASE pc[c] \in {"pickup", "known", "unknown", "ack", "recv"}
        <5> DEFINE k == Len(sock[c].queue)
        <5>1. k = 2 \/ k = 1 \/ k <= 1 \/ k <= 2
          BY <4>2 DEF ClientInv, Exchange
        <5>2. k \in Nat
          BY <3>1, LenProperties
        <5> HIDE DEF k
        <5>3. k <= 2
          BY <5>1, <5>2
        <5> QED BY <5>3 DEF k
      <4> QED BY <3>3, <4>1, <4>2
    <3> QED BY <3>1, <3>2, <3>4
  <2>4. ASSUME NEW c \in Clients PROVE sock[c].open \in BOOLEAN
    BY Zenon DEF Types, Socks
  <2>5. /\ regs \in [Cells -> Values] /\ pageWindow \in Nat
        /\ genl_mutex \in Clients \cup {NoOne} /\ pc \in [Clients -> PCs]
        /\ req \in [Clients -> Requests \cup {NoRequest}]
    BY DEF Types
  <2>6. TypeOK
    BY Zenon, <2>3, <2>4, <2>5 DEF TypeOK, Flags
  <2> QED BY <2>1, <2>2, <2>6 DEF SocketsSound
<1> QED BY <1>1, IInvHolds, PTL

-----------------------------------------------------------------------------
(* Register calls are linearizable, and report what the driver answered,   *)
(* unless words are written at addresses that are not word aligned: the    *)
(* run RegWriteLost shows what is reported then.                           *)
WritesAligned == \A r \in Requests : r.op = "REG_WR" => Aligned(r.addr)

(* Two aligned addresses with the same page and word are the same. *)
LEMMA CellInjective ==
  ASSUME NEW a \in Nat, NEW b \in Nat, Aligned(a), Aligned(b),
         <<Page(a), Word(a)>> = <<Page(b), Word(b)>>
  PROVE  a = b
<1> DEFINE S == OCCP_WORKER_CONFIG_SIZE
<1>1. S \in Nat /\ S > 0
  BY RequestAssumption
<1>2. Page(a) = Page(b) /\ Word(a) = Word(b)
  OBVIOUS
<1>3. a % S \in Nat /\ b % S \in Nat
  BY <1>1
<1>4. a % S = 4 * Word(a) /\ b % S = 4 * Word(b)
  <2> DEFINE x == a % S
             y == b % S
  <2>1. x \in Nat /\ y \in Nat /\ x % 4 = 0 /\ y % 4 = 0
    BY <1>3 DEF Aligned
  <2> HIDE DEF x, y
  <2>2. x = 4 * (x \div 4) /\ y = 4 * (y \div 4)
    BY <2>1
  <2> QED BY <2>2 DEF x, y, Word
<1>5. a % S = b % S /\ a \div S = b \div S
  BY <1>2, <1>4 DEF Page
<1> QED BY <1>1, <1>5

(* What a register call that succeeds has had done for it. *)
Outcome(c, val) ==
  /\ reply[c].errno = "OK" /\ reply[c].val # NotYet
  /\ req[c].op = "REG_RD" => val = reply[c].val
  /\ req[c].op = "REG_WR" => val = NotYet

(* The call of c ends, and only successfully with that outcome. *)
Ends(c) ==
  \E err \in Errnos, val \in Words :
    /\ Finish(c, err, val)
    /\ UNCHANGED <<loaded, cardVars, genl_mutex>>
    /\ req[c].op \in RegOps /\ err = "OK" => Outcome(c, val)

(* A successful answer is the handler's reply. *)
LEMMA RecvEnds ==
  ASSUME WritesAligned, NEW c \in Clients, IInv, Recv(c)
  PROVE  Ends(c)
<1> DEFINE r == recvmsgs(sock[c], req[c].op)
           m == sock[c].queue[1]
<1>0. sock[c] \in Socks /\ req[c] \in Requests /\ pc[c] = "recv"
  BY DEF IInv, Types, Recv, ClientInv, Called
<1>1. sock[c].queue # << >> /\ Mine(c, 1) /\ m.type \in {"valid", "error"}
  <2>1. 1 \in 1 .. Len(sock[c].queue)
    BY <1>0, EmptySeq DEF Recv, Socks
  <2> QED BY <2>1 DEF Recv, IInv, ClientInv, Exchange
<1>2. r \in [err : Errnos \ {"SEQ_MISMATCH"}, val : Words]
  BY <1>0, <1>1, RecvInStep DEF Mine
<1>3. ASSUME req[c].op \in RegOps, r.err = "OK" PROVE Outcome(c, r.val)
  <2>1. Head(sock[c].queue) = m /\ m.seq = sock[c].expect
    BY <1>0, <1>1 DEF Socks, Mine
  <2>2. Answered(c)
    BY DEF IInv, ClientInv
  <2>3. CASE m.type = "error"
    <3>1. m.err # "OK"
      BY <1>0, <1>1, <1>3, <2>2, <2>3 DEF Answered
    <3>2. r = [err |-> m.err, val |-> NotYet]
      BY <2>1, <2>3, <3>1 DEF recvmsgs
    <3> QED BY <1>3, <3>1, <3>2
  <2>4. CASE m.type = "valid"
    <3>1. /\ m.err = reply[c].errno /\ m.val = reply[c].val
          /\ reply[c].errno \in {"OK", "EDRIVER"}
          /\ reply[c].errno = "EDRIVER" => ~Aligned(req[c].addr)
          /\ reply[c].errno = "OK" => reply[c].val # NotYet
      BY <1>0, <1>1, <1>3, <2>2, <2>4 DEF Answered
    <3>2. r = Callback(req[c].op, m)
      BY <2>1, <2>4 DEF recvmsgs
    <3>3. CASE req[c].op = "REG_RD"
      <4>1. r = nf10_reg_rd_recv_msg_cb(m)
        BY <2>4, <3>2, <3>3 DEF Callback
      <4>2. m.err = "OK" /\ r.val = m.val
        BY <1>3, <4>1 DEF nf10_reg_rd_recv_msg_cb
      <4> QED BY <3>1, <3>3, <4>2 DEF Outcome
    <3>4. CASE req[c].op = "REG_WR"
      <4>1. r = Ok
        BY <2>4, <3>2, <3>4 DEF Callback
      <4>2. reply[c].errno = "OK"
        BY <1>0, <3>1, <3>4 DEF WritesAligned
      <4> QED BY <3>1, <3>4, <4>1, <4>2 DEF Outcome, Ok
    <3> QED BY <1>3, <3>3, <3>4 DEF RegOps
  <2> QED BY <1>1, <2>3, <2>4
<1>4. Finish(c, r.err, r.val) /\ UNCHANGED <<loaded, cardVars, genl_mutex>>
  BY DEF Recv
<1> HIDE DEF r
<1>5. r.err \in Errnos /\ r.val \in Words
  BY <1>2
<1> QED BY <1>3, <1>4, <1>5 DEF Ends

(* Nothing that the programs or the card can tell changes. *)
Quiet ==
  /\ regs' = regs /\ out' = out
  /\ \A d \in Clients :
       /\ pc'[d] = "idle" <=> pc[d] = "idle"
       /\ req'[d] = req[d]
       /\ req[d].op \in RegOps => reply'[d].val = reply[d].val

(* Every step is one of five kinds. *)
LEMMA StepKinds ==
  ASSUME WritesAligned, IInv, [Next]_vars
  PROVE  \/ Quiet
         \/ \E c \in Clients : \/ Call(c) \/ ReadReg(c) \/ WriteReg(c)
                               \/ pc[c] # "idle" /\ Ends(c)
<1> USE DEF IInv
<1>0. NotYet \in Words /\ {"ENOMEM", "NOTFOUND", "SEND"} \subseteq Errnos
  BY DEF Words, Errnos
<1>1. ASSUME NEW c \in Clients, ResolveSend(c) \/ Deliver(c) PROVE Quiet
  BY <1>1 DEF ResolveSend, Deliver, Quiet, Goto, Types, cardVars
<1>2. ASSUME NEW c \in Clients, Connect(c) PROVE Quiet \/ Ends(c)
  <2>1. CASE Finish(c, "ENOMEM", NotYet)
    BY <1>0, <1>2, <2>1 DEF Connect, Ends
  <2>2. CASE ~Finish(c, "ENOMEM", NotYet)
    BY <1>2, <2>2 DEF Connect, Quiet, Goto, Types, cardVars
  <2> QED BY <2>1, <2>2
<1>3. ASSUME NEW c \in Clients, Pickup(c) PROVE Quiet \/ Ends(c)
  <2> DEFINE m == sock[c].queue[1]
             r == recvmsgs(sock[c], "dump")
  <2>0. sock[c] \in Socks
    BY DEF Types
  <2>1. /\ sock[c].queue # << >> /\ Mine(c, 1)
        /\ m.type \in {"multi", "done"}
    BY <1>3, <2>0 DEF Pickup, ClientInv, Exchange, Socks
  <2>2. r = Ok
    BY <2>0, <2>1, RecvInStep DEF Mine
  <2>3. CASE Finish(c, "NOTFOUND", NotYet)
    BY <1>0, <1>3, <2>3 DEF Pickup, Ends
  <2>4. CASE ~Finish(c, "NOTFOUND", NotYet)
    <3>1. /\ Goto(c, "known") \/ Goto(c, "unknown") \/ Goto(c, "alloc")
          /\ pc[c] # "idle"
          /\ UNCHANGED <<cardVars, req, reply, out>>
      BY <1>3, <2>2, <2>4 DEF Pickup, Ok
    <3> QED BY <3>1 DEF Quiet, Goto, Types, cardVars
  <2> QED BY <2>3, <2>4
<1>4. ASSUME NEW c \in Clients, AllocFails(c) \/ SendFails(c) PROVE Ends(c)
  BY <1>0, <1>4 DEF AllocFails, SendFails, Ends
<1>5. ASSUME NEW c \in Clients, Send(c) \/ SendFailsUnseen(c) PROVE Quiet
  BY <1>5 DEF Send, SendFailsUnseen, Quiet, Goto, Types, cardVars
<1>6. ASSUME NEW c \in Clients, Recv(c) PROVE Ends(c)
  BY <1>6, RecvEnds
<1>7. ASSUME NEW c \in Clients, genl_cmd_echo(c) \/ genl_cmd_napi_enable(c)
      PROVE Quiet
  BY <1>7 DEF genl_cmd_echo, genl_cmd_napi_enable, Answer, Quiet, Goto, Types,
     cardVars, RegOps
<1>8. ASSUME NEW c \in Clients, NoReplySkb(c) \/ SetPage(c) PROVE Quiet
  <2>1. pc[c] = "handler" /\ reply[c] = NoReply
    BY <1>8 DEF NoReplySkb, SetPage, ClientInv, Answered
  <2> QED BY <1>8, <2>1 DEF NoReplySkb, SetPage, Answer, Quiet, Goto, Types,
             cardVars, NoReply
<1>9. ASSUME NEW c \in Clients, Reply(c) \/ ReplyFails(c) \/ Ack(c)
      PROVE Quiet
  BY <1>9 DEF Reply, ReplyFails, Ack, Quiet, Goto, Types, cardVars
<1>10. ASSUME Module PROVE Quiet
  BY <1>10 DEF Module, Quiet, cardVars
<1>11. ASSUME UNCHANGED vars PROVE Quiet
  BY <1>11 DEF vars, Quiet, cardVars
<1>12. \A c \in Clients : ClientStep(c) => pc[c] # "idle"
  BY DEF ClientStep, Connect, Pickup, AllocFails, Send, SendFails,
     SendFailsUnseen, Recv
<1>13. ASSUME NEW c \in Clients, ClientStep(c)
       PROVE  Quiet \/ (pc[c] # "idle" /\ Ends(c))
  <2>1. pc[c] # "idle"
    BY <1>12, <1>13
  <2>2. Quiet \/ Ends(c)
    <3> HIDE DEF IInv
    <3>1. CASE Connect(c)
      BY <1>2, <3>1
    <3>2. CASE Pickup(c)
      BY <1>3, <3>2
    <3>3. CASE AllocFails(c) \/ SendFails(c)
      BY <1>4, <3>3
    <3>4. CASE Send(c) \/ SendFailsUnseen(c)
      BY <1>5, <3>4
    <3>5. CASE Recv(c)
      BY <1>6, <3>5
    <3> QED BY <1>13, <3>1, <3>2, <3>3, <3>4, <3>5 DEF ClientStep
  <2> QED BY <2>1, <2>2
<1>14. ASSUME NEW c \in Clients, HandlerStep(c)
       PROVE  Quiet \/ ReadReg(c) \/ WriteReg(c)
  BY <1>7, <1>8, <1>9, <1>14 DEF HandlerStep
<1> QED BY <1>1, <1>10, <1>11, <1>13, <1>14 DEF Next

(* A register call that the driver answered with an error does not return  *)
(* success, however the calls interleave.                                  *)
THEOREM StatusIsReported ==
  ASSUME WritesAligned PROVE Spec => StatusReported
<1> DEFINE Reported(c) ==
      req[c].op \in RegOps /\ pc[c] # "idle" /\ pc'[c] = "idle"
        /\ out'[c].err = "OK" => reply[c].errno = "OK"
<1>1. ASSUME IInv, [Next]_vars, NEW c \in Clients PROVE Reported(c)
  <2>0. Types
    BY <1>1 DEF IInv
  <2>1. CASE Quiet
    BY <2>1 DEF Quiet
  <2>2. ASSUME NEW d \in Clients, Call(d) \/ ReadReg(d) \/ WriteReg(d)
        PROVE  Reported(c)
    BY <2>0, <2>2 DEF Call, ReadReg, WriteReg, Answer, Goto, Types
  <2>3. ASSUME NEW d \in Clients, Ends(d) PROVE Reported(c)
    <3>1. PICK err \in Errnos, val \in Words :
            /\ Finish(d, err, val)
            /\ req[d].op \in RegOps /\ err = "OK" => Outcome(d, val)
      BY <2>3 DEF Ends
    <3>2. CASE d = c
      BY <2>0, <3>1, <3>2 DEF Finish, Types, Outcome
    <3>3. CASE d # c
      BY <2>0, <3>1, <3>3 DEF Finish, Types, Goto
    <3> QED BY <3>2, <3>3
  <2> QED BY <1>1, <2>1, <2>2, <2>3, StepKinds
<1>2. IInv /\ [Next]_vars =>
        [\A c \in Clients :
           req[c].op \in RegOps /\ pc[c] # "idle" /\ pc'[c] = "idle"
             /\ out'[c].err = "OK" => reply[c].errno = "OK"]_vars
  BY <1>1
<1> QED BY <1>2, IInvHolds, PTL DEF Spec, StatusReported

-----------------------------------------------------------------------------
(* The refinement.  What the programs see of a state, as in RF.            *)
Mem      == [a \in AlignedAddrs |-> regs[<<Page(a), Word(a)>>]]
CallOf   == [c \in Clients |-> IF InCall(c) THEN req[c] ELSE NoOne]
GotOf    == [c \in Clients |-> IF InCall(c) THEN reply[c].val ELSE NotYet]
ResultOf == [c \in Clients |-> IF out[c].err = "OK" THEN out[c].val ELSE NoOne]
RegCalls == {r \in Requests : r.op \in RegOps}

(* The initial states are those of the register file. *)
LEMMA RefineInit == Init => RF!Init
<1> SUFFICES ASSUME Init PROVE RF!Init
  OBVIOUS
<1>1. IInv
  BY InitIInv
<1>2. ASSUME NEW a \in AlignedAddrs PROVE <<Page(a), Word(a)>> \in Cells
  BY DEF AlignedAddrs, Cells
<1>3. Mem \in [AlignedAddrs -> Values]
  BY <1>1, <1>2 DEF Mem, IInv, Types
<1>4. /\ CallOf = [c \in Clients |-> NoOne]
      /\ GotOf = [c \in Clients |-> NotYet]
      /\ ResultOf = [c \in Clients |-> NoOne]
  BY DEF Init, CallOf, GotOf, ResultOf, InCall, NoResult
<1> QED BY <1>3, <1>4 DEF RF!Init, Mem, CallOf, GotOf, ResultOf

(* A quiet step is a stutter of the register file. *)
LEMMA QuietStutters ==
  ASSUME Quiet
  PROVE  UNCHANGED <<Mem, CallOf, GotOf, ResultOf>>
<1>1. \A c \in Clients : InCall(c)' <=> InCall(c)
  BY DEF Quiet, InCall
<1>2. UNCHANGED Mem
  BY DEF Mem, Quiet, Page, Word
<1>3. UNCHANGED CallOf
  BY <1>1 DEF CallOf, Quiet
<1>4. UNCHANGED GotOf
  BY <1>1 DEF GotOf, Quiet, InCall
<1>5. UNCHANGED ResultOf
  BY DEF ResultOf, Quiet
<1> QED BY <1>2, <1>3, <1>4, <1>5

(* A call begins: Invoke for a register call, Forget for another. *)
LEMMA RefineCall ==
  ASSUME IInv, NEW c \in Clients, Call(c)
  PROVE  RF!Invoke(c) \/ RF!Forget(c)
<1>0. Types
  BY DEF IInv
<1>1. PICK r \in Requests : req' = [req EXCEPT ![c] = r]
  BY DEF Call
<1>2. UNCHANGED Mem
  BY DEF Mem, Call, cardVars, Page, Word
<1>3. \A d \in Clients \ {c} : (InCall(d)' <=> InCall(d)) /\ req'[d] = req[d]
  BY <1>0, <1>1 DEF InCall, Call, Goto, Types
<1>4. ~InCall(c) /\ (InCall(c)' <=> r.op \in RegOps) /\ req'[c] = r
  BY <1>0, <1>1 DEF InCall, Call, Goto, Types
<1>5. reply[c] = NoReply /\ reply' = reply
  BY DEF Call, IInv, ClientInv, Answered
<1>6. UNCHANGED GotOf
  BY <1>3, <1>4, <1>5 DEF GotOf, NoReply
<1>7. ResultOf' = [ResultOf EXCEPT ![c] = NoOne]
  BY <1>0 DEF ResultOf, Call, NoResult, Types
<1>8. CASE r.op \in RegOps
  <2>1. CallOf' = [CallOf EXCEPT ![c] = r] /\ r \in RegCalls
    BY <1>3, <1>4, <1>8 DEF CallOf, RegCalls
  <2>2. CallOf[c] = NoOne
    BY <1>4 DEF CallOf
  <2> QED BY <2>1, <2>2, <1>2, <1>6, <1>7
          DEF RF!Invoke, Mem, CallOf, GotOf, ResultOf, RegCalls
<1>9. CASE r.op \notin RegOps
  <2>1. UNCHANGED CallOf
    BY <1>3, <1>4, <1>9 DEF CallOf
  <2>2. CallOf[c] = NoOne
    BY <1>4 DEF CallOf
  <2> QED BY <2>1, <2>2, <1>2, <1>6, <1>7
          DEF RF!Forget, Mem, CallOf, GotOf, ResultOf
<1> QED BY <1>8, <1>9

(* At the access the call is under way and has had no effect yet. *)
LEMMA AtAccess ==
  ASSUME IInv, NEW c \in Clients, pc[c] = "access"
  PROVE  /\ InCall(c) /\ CallOf[c] = req[c] /\ req[c] # NoOne
         /\ req[c].addr \in AlignedAddrs /\ GotOf[c] = NotYet
         /\ Mem[req[c].addr] = regs[Selected(c)]
<1>1. /\ req[c] \in Requests /\ req[c].op \in RegOps
      /\ Aligned(req[c].addr)
      /\ Selected(c) = <<Page(req[c].addr), Word(req[c].addr)>>
  BY SelectedIsMine
<1>2. InCall(c) /\ reply[c] = NoReply
  BY <1>1 DEF InCall, IInv, ClientInv, Answered
<1>3. req[c].addr \in AlignedAddrs /\ req[c] # NoOne
  BY <1>1, CellOf, RequestAssumption DEF AlignedAddrs
<1> QED BY <1>1, <1>2, <1>3 DEF CallOf, GotOf, Mem, NoReply

(* The access is where a read takes effect. *)
LEMMA RefineRead ==
  ASSUME IInv, NEW c \in Clients, ReadReg(c) PROVE RF!Read(c)
<1>0. Types /\ pc[c] = "access" /\ req[c].op = "REG_RD"
  BY DEF IInv, ReadReg
<1>1. \A d \in Clients : (InCall(d)' <=> InCall(d)) /\ req'[d] = req[d]
  BY <1>0 DEF InCall, ReadReg, Answer, Goto, Types
<1>2. UNCHANGED Mem
  BY DEF Mem, ReadReg, cardVars, Page, Word
<1>3. UNCHANGED CallOf
  BY <1>1 DEF CallOf
<1>4. UNCHANGED ResultOf
  BY DEF ResultOf, ReadReg
<1>5. /\ reply'[c].val = regs[Selected(c)]
      /\ \A d \in Clients \ {c} : reply'[d] = reply[d]
  BY <1>0 DEF ReadReg, Answer, Types
<1>6. GotOf' = [GotOf EXCEPT ![c] = Mem[CallOf[c].addr]]
  <2>1. InCall(c) /\ Mem[CallOf[c].addr] = regs[Selected(c)]
    BY <1>0, AtAccess
  <2> DEFINE v == regs[Selected(c)]
  <2>2. reply'[c].val = v
    BY <1>5
  <2> HIDE DEF v
  <2>3. GotOf' = [GotOf EXCEPT ![c] = v]
    BY <1>1, <1>5, <2>1, <2>2 DEF GotOf
  <2> QED BY <2>1, <2>3 DEF v
<1>7. /\ CallOf[c] # NoOne /\ CallOf[c].op = "REG_RD"
      /\ CallOf[c].addr \in AlignedAddrs /\ GotOf[c] = NotYet
  BY <1>0, AtAccess
<1> QED BY <1>2, <1>3, <1>4, <1>6, <1>7
        DEF RF!Read, Mem, CallOf, GotOf, ResultOf

(* And a write: of all addresses, it changes what is read at its own. *)
LEMMA RefineWrite ==
  ASSUME IInv, NEW c \in Clients, WriteReg(c) PROVE RF!Write(c)
<1>0. Types /\ pc[c] = "access" /\ req[c].op = "REG_WR"
  BY DEF IInv, WriteReg
<1>1. \A d \in Clients : (InCall(d)' <=> InCall(d)) /\ req'[d] = req[d]
  BY <1>0 DEF InCall, WriteReg, Answer, Goto, Types
<1>2. UNCHANGED CallOf
  BY <1>1 DEF CallOf
<1>3. UNCHANGED ResultOf
  BY DEF ResultOf, WriteReg
<1>4. /\ reply'[c].val = req[c].val
      /\ \A d \in Clients \ {c} : reply'[d] = reply[d]
  BY <1>0 DEF WriteReg, Answer, Types
<1>5. GotOf' = [GotOf EXCEPT ![c] = CallOf[c].val]
  BY <1>0, <1>1, <1>4, AtAccess DEF GotOf
<1>6. /\ CallOf[c] # NoOne /\ CallOf[c].op = "REG_WR"
      /\ CallOf[c].addr \in AlignedAddrs /\ GotOf[c] = NotYet
  BY <1>0, AtAccess
<1>7. Mem' = [Mem EXCEPT ![CallOf[c].addr] = CallOf[c].val]
  <2> DEFINE b == req[c].addr
  <2>1. /\ b \in AlignedAddrs /\ CallOf[c] = req[c]
        /\ <<Page(b), Word(b)>> \in Cells
        /\ Selected(c) = <<Page(b), Word(b)>>
    BY <1>0, AtAccess, SelectedIsMine
  <2>2. \A a \in AlignedAddrs : a \in Nat /\ Aligned(a)
    BY RequestAssumption DEF AlignedAddrs, Addrs
  <2>3. ASSUME NEW a \in AlignedAddrs, a # b
        PROVE  <<Page(a), Word(a)>> # <<Page(b), Word(b)>>
    BY <2>1, <2>2, <2>3, CellInjective
  <2>4. ASSUME NEW a \in AlignedAddrs
        PROVE  regs'[<<Page(a), Word(a)>>]
                 = IF a = b THEN req[c].val ELSE regs[<<Page(a), Word(a)>>]
    <3>1. regs' = [regs EXCEPT ![<<Page(b), Word(b)>>] = req[c].val]
      BY <2>1 DEF WriteReg
    <3>2. <<Page(a), Word(a)>> \in Cells
      BY DEF AlignedAddrs, Cells
    <3> HIDE DEF b
    <3> DEFINE x == <<Page(a), Word(a)>>
               y == <<Page(b), Word(b)>>
    <3>3. a = b <=> x = y
      BY <2>3
    <3>4. /\ regs' = [regs EXCEPT ![y] = req[c].val] /\ x \in Cells
          /\ regs \in [Cells -> Values]
      BY <1>0, <3>1, <3>2 DEF Types
    <3> HIDE DEF x, y
    <3>5. regs'[x] = IF x = y THEN req[c].val ELSE regs[x]
      BY <3>4
    <3> QED BY <3>3, <3>5 DEF x, y
  <2>5. Mem' = [a \in AlignedAddrs |-> regs'[<<Page(a), Word(a)>>]]
    BY DEF Mem
  <2> QED BY <2>1, <2>4, <2>5 DEF Mem
<1> QED BY <1>2, <1>3, <1>5, <1>6, <1>7
        DEF RF!Write, Mem, CallOf, GotOf, ResultOf

(* The end of a call: Return, or a stutter for another command. *)
LEMMA RefineEnds ==
  ASSUME IInv, NEW c \in Clients, pc[c] # "idle", Ends(c)
  PROVE  RF!Return(c) \/ UNCHANGED <<Mem, CallOf, GotOf, ResultOf>>
<1>0. Types /\ req[c] \in Requests
  BY DEF IInv, ClientInv, Called
<1>1. PICK err \in Errnos, val \in Words :
        /\ Finish(c, err, val)
        /\ UNCHANGED <<loaded, cardVars, genl_mutex>>
        /\ req[c].op \in RegOps /\ err = "OK" => Outcome(c, val)
  BY DEF Ends
<1>2. UNCHANGED Mem
  BY <1>1 DEF Mem, cardVars, Page, Word
<1>3. ~InCall(c)' /\ (InCall(c) <=> req[c].op \in RegOps)
  BY <1>0, <1>1 DEF InCall, Finish, Goto, Types
<1>4. \A d \in Clients \ {c} :
        (InCall(d)' <=> InCall(d)) /\ req'[d] = req[d]
          /\ reply'[d] = reply[d] /\ out'[d] = out[d]
  BY <1>0, <1>1 DEF InCall, Finish, Goto, Types
<1>5. CASE req[c].op \notin RegOps
  <2>1. UNCHANGED CallOf
    BY <1>3, <1>4, <1>5 DEF CallOf
  <2>2. UNCHANGED GotOf
    BY <1>3, <1>4, <1>5 DEF GotOf
  <2>3. UNCHANGED ResultOf
    BY <1>1, <1>5 DEF ResultOf, Finish
  <2> QED BY <1>2, <2>1, <2>2, <2>3
<1>6. CASE req[c].op \in RegOps
  <2>1. CallOf' = [CallOf EXCEPT ![c] = NoOne]
        /\ CallOf[c] = req[c] /\ req[c] # NoOne
    BY <1>0, <1>3, <1>4, <1>6, RequestAssumption DEF CallOf
  <2>2. GotOf' = [GotOf EXCEPT ![c] = NotYet] /\ GotOf[c] = reply[c].val
    BY <1>3, <1>4, <1>6 DEF GotOf
  <2>3. out'[c].err = err /\ out'[c].val = val
    BY <1>0, <1>1, <1>6 DEF Finish, Types
  <2>4. ResultOf' = [ResultOf EXCEPT ![c] = IF err = "OK" THEN val ELSE NoOne]
    BY <1>4, <2>3 DEF ResultOf
  <2>5. CASE err # "OK"
    BY <1>2, <2>1, <2>2, <2>4, <2>5
    DEF RF!Return, Mem, CallOf, GotOf, ResultOf
  <2>6. CASE err = "OK"
    <3>1. GotOf[c] # NotYet /\ CallOf[c].op \in RegOps
      BY <1>1, <1>6, <2>1, <2>2, <2>6 DEF Outcome
    <3>2. ResultOf' = [ResultOf EXCEPT ![c] =
                         IF CallOf[c].op = "REG_RD" THEN GotOf[c] ELSE NotYet]
      BY <1>1, <1>6, <2>1, <2>2, <2>4, <2>6 DEF Outcome, RegOps
    <3> QED BY <1>2, <2>1, <2>2, <3>1, <3>2
            DEF RF!Return, Mem, CallOf, GotOf, ResultOf, RegOps
  <2> QED BY <2>5, <2>6
<1> QED BY <1>5, <1>6

(* Register calls are linearizable, for any number of processes, any calls *)
(* that write at aligned addresses only, and whatever fails.               *)
THEOREM RegistersAreLinearizable ==
  ASSUME WritesAligned PROVE Spec => IsRegFile
<1>1. IInv /\ [Next]_vars => [RF!Next]_(RF!vars)
  <2> SUFFICES ASSUME IInv, [Next]_vars
               PROVE  RF!Next \/ UNCHANGED <<Mem, CallOf, GotOf, ResultOf>>
    BY DEF RF!vars, Mem, CallOf, GotOf, ResultOf
  <2>1. CASE Quiet
    BY <2>1, QuietStutters
  <2>2. ASSUME NEW c \in Clients, Call(c) PROVE RF!Next
    BY <2>2, RefineCall DEF RF!Next
  <2>3. ASSUME NEW c \in Clients, ReadReg(c) PROVE RF!Next
    BY <2>3, RefineRead DEF RF!Next
  <2>4. ASSUME NEW c \in Clients, WriteReg(c) PROVE RF!Next
    BY <2>4, RefineWrite DEF RF!Next
  <2>5. ASSUME NEW c \in Clients, pc[c] # "idle", Ends(c)
        PROVE  RF!Next \/ UNCHANGED <<Mem, CallOf, GotOf, ResultOf>>
    BY <2>5, RefineEnds DEF RF!Next
  <2> QED BY <2>1, <2>2, <2>3, <2>4, <2>5, StepKinds
<1> QED BY <1>1, RefineInit, IInvHolds, PTL DEF Spec, IsRegFile, RF!Spec
=============================================================================
