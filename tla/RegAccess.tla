----------------------------- MODULE RegAccess ------------------------------
(***************************************************************************)
(* Register access and the other generic netlink commands, end to end:     *)
(*                                                                         *)
(*   the client   nf10_reg_rd, nf10_reg_wr (nf10_reg_lib.c) and the        *)
(*                commands of driver_ctrl.c, which open a socket, resolve  *)
(*                the family, send one request and read one answer;        *)
(*   libnl        sequence numbers, and recvmsgs() with its callbacks;     *)
(*   the kernel   (external) runs a request's handler inside the client's  *)
(*                sendmsg() under genl_mutex, then queues the ACK;         *)
(*   the driver   genl_cmd_echo, genl_cmd_reg_rd, genl_cmd_reg_wr, which   *)
(*                reach the card through its page window.                  *)
(*                                                                         *)
(* DMA_TX, NAPI_ENABLE and NAPI_DISABLE answer with the ACK alone, DMA_RX  *)
(* answers as ECHO does; what their handlers do to the rings is in TxDma   *)
(* and RxDma, so NAPI_ENABLE and ECHO stand for them here.                 *)
(***************************************************************************)
EXTENDS Integers, Sequences

CONSTANTS
  Clients,                  \* processes, one call at a time each
  OCCP_WORKER_CONFIG_SIZE,  \* bytes in one page of the register space
  Requests,                 \* op, addr and val of the calls they may make
  Values,                   \* register values
  NoOne,                    \* genl_mutex is free
  NotYet                    \* no register value yet

Ops == {"ECHO", "REG_RD", "REG_WR", "NAPI_ENABLE"}
RegOps == {"REG_RD", "REG_WR"}

ASSUME RequestAssumption ==
  /\ OCCP_WORKER_CONFIG_SIZE \in Nat /\ OCCP_WORKER_CONFIG_SIZE > 0
  /\ OCCP_WORKER_CONFIG_SIZE % 4 = 0
  /\ Requests \subseteq [op : Ops, addr : Nat, val : Values]
  /\ NoOne \notin Clients \cup Requests /\ NotYet \notin Values

VARIABLES
  loaded,      \* the generic netlink family is registered
  regs,        \* the card's registers, by page and word
  pageWindow,  \* nf10_ctrl->pageWindow
  genl_mutex,  \* its holder (external)
  pc,          \* where each client's call is
  req,         \* the call it makes
  sock,        \* nf10_genl_sock: s_seq_next, s_seq_expect, receive queue
  reply,       \* the handler's errno and the value it put in the reply
  out          \* what the client's last call returned

cardVars == <<regs, pageWindow>>
vars == <<loaded, cardVars, genl_mutex, pc, req, sock, reply, out>>

(* What a function returns; OK is 0. *)
Errnos == {"OK", "EDRIVER", "ENOENT", "ENOMEM", "EREPLY", "NOATTR",
           "NOTFOUND", "SEND", "SEQ_MISMATCH"}

Closed  == [open |-> FALSE, next |-> 0, expect |-> 0, queue |-> << >>]
NoReply == [errno |-> "none", val |-> NotYet]
NoResult == [err |-> "none", val |-> NotYet]
NoRequest == [op |-> "none", addr |-> 0, val |-> NotYet]
Ok      == [err |-> "OK", val |-> NotYet]

Page(addr) == addr \div OCCP_WORKER_CONFIG_SIZE
Word(addr) == (addr % OCCP_WORKER_CONFIG_SIZE) \div 4
Aligned(addr) == (addr % OCCP_WORKER_CONFIG_SIZE) % 4 = 0
Addrs == {r.addr : r \in Requests}
Cells == {<<Page(a), Word(a)>> : a \in Addrs}

Msg(type, seq, err, val) ==
  [type |-> type, seq |-> seq, err |-> err, val |-> val]

-----------------------------------------------------------------------------
(* The client's side: how a call starts and ends. *)

Goto(c, l) == pc' = [pc EXCEPT ![c] = l]

(* driver_disconnect(), then return err (and the value for a read); the    *)
(* other commands of driver_ctrl return nothing.                           *)
Finish(c, err, val) ==
  /\ Goto(c, "idle")
  /\ req' = [req EXCEPT ![c] = NoRequest]
  /\ reply' = [reply EXCEPT ![c] = NoReply]
  /\ sock' = [sock EXCEPT ![c] = Closed]
  /\ out' = IF req[c].op \in RegOps
            THEN [out EXCEPT ![c] = [err |-> err, val |-> val]]
            ELSE out

Call(c) ==
  /\ pc[c] = "idle"
  /\ \E r \in Requests : req' = [req EXCEPT ![c] = r]
  /\ out' = [out EXCEPT ![c] = NoResult]
  /\ Goto(c, "connect")
  /\ UNCHANGED <<loaded, cardVars, genl_mutex, sock, reply>>

(* nl_socket_alloc() and genl_connect(): both sequence numbers start from  *)
(* the same time(0).                                                       *)
Connect(c) ==
  /\ pc[c] = "connect"
  /\ \/ /\ sock' = [sock EXCEPT ![c] = [Closed EXCEPT !.open = TRUE]]
        /\ Goto(c, "resolve")
        /\ UNCHANGED <<req, reply, out>>
     \/ Finish(c, "ENOMEM", NotYet)
  /\ UNCHANGED <<loaded, cardVars, genl_mutex>>

(* The answer to a dump of the families, with ours or without it.          *)
Families(seq) ==
  Msg("multi", seq, IF loaded THEN "OK" ELSE "NOTFOUND", NotYet)

(* genl_ctrl_resolve() asks the kernel for all families: one multipart     *)
(* message that may hold ours, and NLMSG_DONE.                             *)
ResolveSend(c) ==
  /\ pc[c] = "resolve"
  /\ genl_mutex = NoOne
  /\ LET n == sock[c].next IN
     sock' = [sock EXCEPT ![c].next = n + 1,
                ![c].queue = << Families(n), Msg("done", n, "OK", NotYet) >>]
  /\ Goto(c, "pickup")
  /\ UNCHANGED <<loaded, cardVars, genl_mutex, req, reply, out>>

-----------------------------------------------------------------------------
(* libnl: recvmsgs() on the first message of the queue.                    *)

(* Defect: the end of a dump does not move the expected number on.         *)
TakeMsgDumpUncounted(sk) ==
  LET m == Head(sk.queue) IN
  [sk EXCEPT !.queue = Tail(@),
             !.expect = IF m.seq = @ /\ m.type = "error" THEN @ + 1 ELSE @]

(* The message is taken and, when it ends an answer, the expected sequence *)
(* number moves on; a number out of step ends the call before that.        *)
TakeMsg(sk) ==
  LET m == Head(sk.queue) IN
  [sk EXCEPT !.queue = Tail(@),
             !.expect = IF m.seq = @ /\ m.type \in {"done", "error"}
                        THEN @ + 1 ELSE @]

(* Defect: the callback of a read does not look at the errno.              *)
rd_cb_ErrnoIgnored(m) == [err |-> "OK", val |-> m.val]

(* nf10_reg_rd_recv_msg_cb: the errno the driver put in, or the value.     *)
nf10_reg_rd_recv_msg_cb(m) ==
  IF m.err = "OK" THEN [err |-> "OK", val |-> m.val]
                 ELSE [err |-> m.err, val |-> NotYet]

(* nf10_reg_wr_recv_ack_cb looks for an errno attribute in the ACK, which  *)
(* holds a copy of the request's header and no attributes.                 *)
nf10_reg_wr_recv_ack_cb == [err |-> "NOATTR", val |-> NotYet]

(* The callback that nl_socket_modify_cb() set for this kind of message:   *)
(* VALID for ECHO and REG_RD, ACK for REG_WR and NAPI_ENABLE.              *)
Callback(op, m) ==
  CASE m.type = "valid" /\ op = "REG_RD" -> nf10_reg_rd_recv_msg_cb(m)
    [] m.type = "error" /\ op = "REG_WR" -> nf10_reg_wr_recv_ack_cb
    [] OTHER -> Ok

recvmsgs(sk, op) ==
  LET m == Head(sk.queue) IN
  CASE m.seq # sk.expect -> [err |-> "SEQ_MISMATCH", val |-> NotYet]
    [] m.seq = sk.expect /\ m.type = "error" /\ m.err # "OK" ->
          [err |-> m.err, val |-> NotYet]
    [] OTHER -> Callback(op, m)

-----------------------------------------------------------------------------
(* The client's side again: it reads the dump, sends, reads the answer.    *)

(* nl_cache_pickup() reads to NLMSG_DONE, genl_ctrl_search_by_name() looks *)
(* whether our family was among the answers.                               *)
Pickup(c) ==
  /\ pc[c] \in {"pickup", "known", "unknown"}
  /\ LET m == Head(sock[c].queue)
         r == recvmsgs(sock[c], "dump")
     IN \/ /\ r.err # "OK"
           /\ Finish(c, r.err, NotYet)
        \/ /\ r.err = "OK" /\ m.type = "multi"
           /\ Goto(c, IF m.err = "OK" THEN "known" ELSE "unknown")
           /\ sock' = [sock EXCEPT ![c] = TakeMsg(@)]
           /\ UNCHANGED <<req, reply, out>>
        \/ /\ r.err = "OK" /\ m.type = "done" /\ pc[c] = "known"
           /\ Goto(c, "alloc")
           /\ sock' = [sock EXCEPT ![c] = TakeMsg(@)]
           /\ UNCHANGED <<req, reply, out>>
        \/ /\ r.err = "OK" /\ m.type = "done" /\ pc[c] = "unknown"
           /\ Finish(c, "NOTFOUND", NotYet)
  /\ UNCHANGED <<loaded, cardVars, genl_mutex>>

AllocFails(c) ==
  /\ pc[c] = "alloc"
  /\ Finish(c, "ENOMEM", NotYet)
  /\ UNCHANGED <<loaded, cardVars, genl_mutex>>

(* nl_send_auto() numbers the message whether it can be sent or not.       *)
Send(c) ==
  /\ pc[c] = "alloc"
  /\ sock' = [sock EXCEPT ![c].next = @ + 1]
  /\ Goto(c, "kernel")
  /\ UNCHANGED <<loaded, cardVars, genl_mutex, req, reply, out>>

(* Defect: a register call goes on to wait although sending failed.        *)
SendFailsWaits(c) ==
  /\ pc[c] = "alloc" /\ req[c].op \in RegOps
  /\ Goto(c, "recv")
  /\ UNCHANGED <<loaded, cardVars, genl_mutex, req, sock, reply, out>>

(* The register calls look at what nl_send_auto() returned.                *)
SendFails(c) ==
  /\ pc[c] = "alloc" /\ req[c].op \in RegOps
  /\ Finish(c, "SEND", NotYet)
  /\ UNCHANGED <<loaded, cardVars, genl_mutex>>

(* The other commands of driver_ctrl do not, and wait for an answer.       *)
SendFailsUnseen(c) ==
  /\ pc[c] = "alloc" /\ req[c].op \notin RegOps
  /\ sock' = [sock EXCEPT ![c].next = @ + 1]
  /\ Goto(c, "recv")
  /\ UNCHANGED <<loaded, cardVars, genl_mutex, req, reply, out>>

(* nl_recvmsgs_default() reads one message: none of the answers is part of *)
(* a multipart message.                                                    *)
Recv(c) ==
  /\ pc[c] = "recv" /\ sock[c].queue # << >>
  /\ LET r == recvmsgs(sock[c], req[c].op) IN Finish(c, r.err, r.val)
  /\ UNCHANGED <<loaded, cardVars, genl_mutex>>

-----------------------------------------------------------------------------
(* The kernel and the driver's handlers. *)

Queue(c, m) == sock' = [sock EXCEPT ![c].queue = Append(@, m)]
SeqOf(c) == sock[c].next - 1

(* Defect: handlers run without genl_mutex (parallel generic netlink ops). *)
DeliverParallel(c) ==
  /\ pc[c] = "kernel" /\ loaded
  /\ genl_mutex' = c
  /\ Goto(c, "handler")
  /\ UNCHANGED <<loaded, cardVars, req, sock, reply, out>>

(* genl_rcv_msg(): no such family, or its handler is called.               *)
Deliver(c) ==
  /\ pc[c] = "kernel" /\ genl_mutex = NoOne
  /\ \/ /\ ~loaded
        /\ Queue(c, Msg("error", SeqOf(c), "ENOENT", NotYet))
        /\ Goto(c, "recv")
        /\ UNCHANGED genl_mutex
     \/ /\ loaded
        /\ genl_mutex' = c
        /\ Goto(c, "handler")
        /\ UNCHANGED sock
  /\ UNCHANGED <<loaded, cardVars, req, reply, out>>

(* The handler has set the errno (and value) of its reply.                 *)
Answer(c, errno, val) ==
  /\ reply' = [reply EXCEPT ![c] = [errno |-> errno, val |-> val]]
  /\ Goto(c, "reply")

genl_cmd_echo(c) ==
  /\ pc[c] = "handler" /\ req[c].op = "ECHO"
  /\ Answer(c, "OK", NotYet)
  /\ UNCHANGED <<loaded, cardVars, genl_mutex, req, sock, out>>

(* The commands without a reply return 0 at once.                          *)
genl_cmd_napi_enable(c) ==
  /\ pc[c] = "handler" /\ req[c].op = "NAPI_ENABLE"
  /\ reply' = [reply EXCEPT ![c] = [errno |-> "OK", val |-> NotYet]]
  /\ Goto(c, "ack")
  /\ UNCHANGED <<loaded, cardVars, genl_mutex, req, sock, out>>

(* genlmsg_new() fails in a handler: it returns -ENOMEM.                   *)
NoReplySkb(c) ==
  /\ pc[c] = "handler" /\ req[c].op # "NAPI_ENABLE"
  /\ reply' = [reply EXCEPT ![c] = [errno |-> "ENOMEM", val |-> NotYet]]
  /\ Goto(c, "ack")
  /\ UNCHANGED <<loaded, cardVars, genl_mutex, req, sock, out>>

(* Defect: the page window is only set for pages above the first.          *)
SetPageAboveFirst(c) ==
  /\ pc[c] = "handler" /\ req[c].op \in RegOps
  /\ Aligned(req[c].addr)
  /\ pageWindow' = IF Page(req[c].addr) = 0 THEN pageWindow
                   ELSE Page(req[c].addr)
  /\ Goto(c, "access")
  /\ UNCHANGED <<loaded, regs, genl_mutex, req, sock, reply, out>>

(* genl_cmd_reg_rd, genl_cmd_reg_wr: the address is checked, then the page *)
(* window is set.                                                          *)
SetPage(c) ==
  /\ pc[c] = "handler" /\ req[c].op \in RegOps
  /\ \/ /\ ~Aligned(req[c].addr)
        /\ Answer(c, "EDRIVER", NotYet)
        /\ UNCHANGED pageWindow
     \/ /\ Aligned(req[c].addr)
        /\ pageWindow' = Page(req[c].addr)
        /\ Goto(c, "access")
        /\ UNCHANGED reply
  /\ UNCHANGED <<loaded, regs, genl_mutex, req, sock, out>>

(* The register the card's window shows at this offset.                    *)
Selected(c) == <<pageWindow, Word(req[c].addr)>>

ReadReg(c) ==
  /\ pc[c] = "access" /\ req[c].op = "REG_RD"
  /\ Answer(c, "OK", regs[Selected(c)])
  /\ UNCHANGED <<loaded, cardVars, genl_mutex, req, sock, out>>

WriteReg(c) ==
  /\ pc[c] = "access" /\ req[c].op = "REG_WR"
  /\ regs' = [regs EXCEPT ![Selected(c)] = req[c].val]
  /\ Answer(c, "OK", req[c].val)
  /\ UNCHANGED <<loaded, pageWindow, genl_mutex, req, sock, out>>

(* genlmsg_reply() queues the reply under the request's sequence number.   *)
Reply(c) ==
  /\ pc[c] = "reply"
  /\ Queue(c, Msg("valid", SeqOf(c), reply[c].errno, reply[c].val))
  /\ Goto(c, "ack")
  /\ UNCHANGED <<loaded, cardVars, genl_mutex, req, reply, out>>

(* It can fail; the handler then returns its error, after the access.      *)
ReplyFails(c) ==
  /\ pc[c] = "reply"
  /\ Goto(c, "nack")
  /\ UNCHANGED <<loaded, cardVars, genl_mutex, req, sock, reply, out>>

(* netlink_ack() with what the handler returned; the kernel is done.       *)
Ack(c) ==
  /\ pc[c] \in {"ack", "nack"}
  /\ LET err == CASE pc[c] = "nack" -> "EREPLY"
                  [] reply[c].errno = "ENOMEM" -> "ENOMEM"
                  [] OTHER -> "OK"
     IN Queue(c, Msg("error", SeqOf(c), err, NotYet))
  /\ genl_mutex' = NoOne
  /\ Goto(c, "recv")
  /\ UNCHANGED <<loaded, cardVars, req, reply, out>>

(* The module is loaded or unloaded; unregistering takes genl_mutex.       *)
Module ==
  /\ genl_mutex = NoOne
  /\ loaded' = ~loaded
  /\ UNCHANGED <<cardVars, genl_mutex, pc, req, sock, reply, out>>

-----------------------------------------------------------------------------
Init ==
  /\ loaded = TRUE
  /\ regs = [x \in Cells |-> CHOOSE v \in Values : TRUE]
  /\ pageWindow = 0
  /\ genl_mutex = NoOne
  /\ pc = [c \in Clients |-> "idle"]
  /\ req = [c \in Clients |-> NoRequest]
  /\ sock = [c \in Clients |-> Closed]
  /\ reply = [c \in Clients |-> NoReply]
  /\ out = [c \in Clients |-> NoResult]

(* What the process does, and what the kernel does for it.                 *)
ClientStep(c) ==
  \/ Connect(c) \/ Pickup(c) \/ AllocFails(c) \/ Send(c)
  \/ SendFails(c) \/ SendFailsUnseen(c) \/ Recv(c)
HandlerStep(c) ==
  \/ genl_cmd_echo(c) \/ genl_cmd_napi_enable(c) \/ NoReplySkb(c)
  \/ SetPage(c) \/ ReadReg(c) \/ WriteReg(c)
  \/ Reply(c) \/ ReplyFails(c) \/ Ack(c)

Next ==
  \/ \E c \in Clients : \/ Call(c) \/ ResolveSend(c) \/ Deliver(c)
                        \/ ClientStep(c) \/ HandlerStep(c)
  \/ Module

Spec == Init /\ [][Next]_vars

(* The scheduler runs the client and the handler it called; genl_mutex is  *)
(* a sleeping lock that serves those waiting for it.                       *)
FairSpec ==
  /\ Spec
  /\ \A c \in Clients : /\ WF_vars(ClientStep(c)) /\ WF_vars(HandlerStep(c))
                        /\ SF_vars(ResolveSend(c)) /\ SF_vars(Deliver(c))

-----------------------------------------------------------------------------
Handling == {"handler", "access", "reply", "ack", "nack"}
PCs == {"idle", "connect", "resolve", "pickup", "known", "unknown", "alloc",
        "kernel", "recv"} \cup Handling

(* Types: every message, reply and result has its fields; a queue holds at *)
(* most the two messages of one exchange.                                  *)
Msgs == [type : {"multi", "done", "error", "valid"}, seq : Nat,
         err : Errnos, val : Values \cup {NotYet}]
TypeOK ==
  /\ loaded \in BOOLEAN
  /\ regs \in [Cells -> Values]
  /\ pageWindow \in Nat
  /\ genl_mutex \in Clients \cup {NoOne}
  /\ pc \in [Clients -> PCs]
  /\ req \in [Clients -> Requests \cup {NoRequest}]
  /\ \A c \in Clients :
       /\ sock[c].open \in BOOLEAN /\ sock[c].next \in Nat
       /\ sock[c].expect \in Nat /\ Len(sock[c].queue) <= 2
       /\ \A i \in DOMAIN sock[c].queue : sock[c].queue[i] \in Msgs
       /\ reply[c].errno \in Errnos \cup {"none"}
       /\ reply[c].val \in Values \cup {NotYet}
       /\ out[c].err \in Errnos \cup {"none"}
       /\ out[c].val \in Values \cup {NotYet}

(* The page window a register is reached through is still the one its own  *)
(* handler set, although nothing but genl_mutex keeps other handlers from  *)
(* setting it between the two accesses (nf10_eth_driver_main.c:518-524).   *)
PageMine == \A c \in Clients :
              pc[c] = "access" => pageWindow = Page(req[c].addr)

(* No handler runs once its family is unregistered, so unloading never     *)
(* pulls the module from under a register access.                          *)
HandlerHasFamily ==
  \A c \in Clients : pc[c] \in Handling => loaded /\ genl_mutex = c

(* A handler of the driver is alone: with its family, with genl_mutex, and *)
(* with the page window it has set.                                        *)
HandlerAlone == HandlerHasFamily /\ PageMine

(* The socket's two sequence numbers stay in step over the dump and the    *)
(* request: no call ever fails with a sequence mismatch, and a read never  *)
(* takes the answer to another request for its own.                        *)
InSequence ==
  \A c \in Clients :
    /\ out[c].err # "SEQ_MISMATCH"
    /\ pc[c] = "alloc" => /\ sock[c].expect = sock[c].next
                          /\ sock[c].queue = << >>

(* Every way out of a call closes its socket, the error paths too.         *)
SocketsClosed == \A c \in Clients : pc[c] = "idle" => sock[c] = Closed

(* Sockets are sound: their messages have the right form, their sequence   *)
(* numbers stay in step and none is left open.                             *)
SocketsSound == TypeOK /\ InSequence /\ SocketsClosed

(* A register call that the driver answered with an error does not return  *)
(* success (nf10_eth_driver_main.c:543: the errno is sent back "to report  *)
(* back the status of the operation").                                     *)
StatusReported ==
  [][\A c \in Clients :
       req[c].op \in RegOps /\ pc[c] # "idle" /\ pc'[c] = "idle"
         /\ out'[c].err = "OK" => reply[c].errno = "OK"]_vars

(* Register calls are linearizable: seen from the programs, each of them   *)
(* reads or writes its own register at one instant during the call.        *)
InCall(c) == pc[c] # "idle" /\ req[c].op \in RegOps
AlignedAddrs == {a \in Addrs : Aligned(a)}
RF == INSTANCE RegFile WITH
  Calls <- {r \in Requests : r.op \in RegOps}, Cells <- AlignedAddrs,
  NoCall <- NoOne, Error <- NoOne, Done <- NotYet,
  mem <- [a \in AlignedAddrs |-> regs[<<Page(a), Word(a)>>]],
  call <- [c \in Clients |-> IF InCall(c) THEN req[c] ELSE NoOne],
  got <- [c \in Clients |-> IF InCall(c) THEN reply[c].val ELSE NotYet],
  result <- [c \in Clients |->
               IF out[c].err = "OK" THEN out[c].val ELSE NoOne]
IsRegFile == RF!Spec

(* Every register call returns, however the module is loaded and unloaded  *)
(* meanwhile and whatever fails on the way.                                *)
CallsReturn ==
  \A c \in Clients : pc[c] # "idle" /\ req[c].op \in RegOps ~> pc[c] = "idle"
=============================================================================
