# A TLA+ development for the NetFPGA-10G NIC driver

The repository holds a Linux driver for the NetFPGA-10G card
(`projects/reference_nic/sw/host/driver`), programs that talk to the driver or
to the card, and the hardware designs of several NetFPGA projects. This
development models the driver's own logic, the register access library on top
of it, and the queues between the card's MACs and its AXI streams. Below, *D* is
`src/projects/reference_nic/sw/host/driver/src/nf10_eth_driver_main.c`.

## 1. The system

### 1.1 Inventory

| Part | State it keeps | Operations | Module |
|---|---|---|---|
| Transmit path (D:295-369, 1059-1226) | `tx_dma_stream` (flags, buffers, metadata, `buf_index`), `tx_dma_region_spinlock`, `hw_state`, tx statistics | `nf10_ndo_start_xmit`, `genl_cmd_dma_tx` | `TxDma` |
| Receive path (D:373-454, 686-735, 1361-1516) | `rx_dma_stream`, `rx_poll_timer`, `nf10_napi_struct`, rx statistics | `rx_poll_timer_cb`, `nf10_napi_struct_poll`, `genl_cmd_dma_rx`, `genl_cmd_napi_enable`, `genl_cmd_napi_disable` | `RxDma` |
| Life cycle (D:1522-2184) | PCI resources, the two DMA regions, `hw_state`, netdevs, netlink family, the timer | module init and exit, `probe`, `remove` | `DriverLife` |
| Register access (D:230-292, 458-682, `nf10_reg_lib.c`, `driver_ctrl.c`, libnl's `nl.c` and `genl/ctrl.c`) | the page window of the OpenCPI control plane; the client's socket, its sequence numbers and callback data | `genl_cmd_echo`, `genl_cmd_reg_rd`, `genl_cmd_reg_wr`; `nf10_reg_rd`, `nf10_reg_wr`; sending and `recvmsgs()` | `RegAccess` |
| Ghost mode (D:738-817, 937-1057) | one ring in ordinary memory with two indices, the timer | `enable_ghosting`, `disable_ghosting`, `nf10_ghost_xmit`, timer callback, poll and NAPI commands over that ring | `Ghost` |
| Asynchronous FIFO (`small_async_fifo.v`) | two pointers, their copies on the other side, four flags, memory | one transition per clock edge; reset | `AsyncFifo` |
| 10G and 1G receive queue (`rx_queue.v`) | two FIFOs, one state machine per clock domain | one transition per clock edge | `RxQueue` |
| 10G and 1G transmit queue (`tx_queue.v`) | two FIFOs, one state machine per clock domain | one transition per clock edge | `TxQueue` |
| Opcode helpers (D:1284-1358) | none | eight functions on the 16-bit opcode | the three in use, in the ring modules |
| OpenCPI data plane (external hardware, `ocdp.h`) | a credit count and a ring position per worker | reads or fills the next buffer | external part of `TxDma`, `RxDma` |
| Everything else | | | section 6 |

### 1.2 How the parts interact

* The driver and the card share, per direction, a ring of `dma_cpu_bufs`
  buffers, each with metadata (length and opcode) and a 32-bit flag, and one
  doorbell register that counts. **Transmit**: a non-zero flag is a free buffer;
  the driver fills the buffer at `buf_index`, writes flag 0, rings the doorbell
  and advances the index; the card takes the next buffer in ring order for every
  doorbell and writes the flag back to 1. **Receive**: the card begins with
  one credit per buffer, fills buffers in ring order and writes flag 1; the
  driver empties the buffer at `buf_index`, writes flag 0 and rings the doorbell,
  which returns the credit.
* There is no interrupt. A timer callback looks at one flag; when it is set
  the callback schedules the NAPI poll and does not set the timer again; the
  poll sets it when it has emptied the ring. What keeps reception going is thus a
  single token that is handed from the timer to the callback to the poll and back.
* User processes reach the same rings and the same timer through generic
  netlink. The kernel's `genl_mutex` admits one command at a time; it is not
  taken by the network stack, the timer or the poll.
* The four network devices exist before any card is found, and share one
  pair of rings.
* A register access is a generic netlink exchange: the client library opens a
  socket, resolves the family with a dump, sends a request, and reads one answer.
  The kernel runs the handler inside the client's `sendmsg()`, under
  `genl_mutex`; the handler sets the page window of the card and then reads or
  writes through it, and queues an answer, behind which the kernel queues the ACK.
* In ghost mode the two streams are one ring in memory: a packet that interface
  *i* sends is received by interface *i* ^ 1. Senders take
  the spinlock, the poll takes none.
* In the card, words of a packet cross from one clock to another through a FIFO,
  and one entry per packet (its verdict, or the news that it is complete)
  crosses through a second, asynchronous FIFO.

### 1.3 What is hard about it

Several network devices transmit at once and share one lock with nobody else;
netlink commands use both rings without that lock; `del_timer()` does not wait
for a callback; flags, two indices and a counting doorbell have to say the same
thing at every step of a sequence of unordered-looking stores; the ring fills up,
wraps, and the poll runs out of budget; allocation fails in the middle of the
poll; each of a dozen error paths has its own clean-up. A register access is two
accesses to the card; its answer passes through a socket whose sequence numbers
two parties count. In the hardware two clocks drift, a flip-flop samples a word
while it changes, and two FIFOs have to tell the same story.
`PROJECT.json` lists these hazards, each with its line and its properties.

What makes the parts correct: buffers have one user at a time; driver and card
agree on which buffers are full; a frame is complete before the card hears of it
and is not touched after; rings and queues are FIFOs; statistics count every frame
once; calls return, buffers come back, and the polling neither doubles nor stops;
whatever fails while the driver is loaded, bound, unbound or unloaded, what was
acquired is given back once, and nobody uses a ring that does not exist;
registers behave like a memory, and an error of the driver reaches the program.

## 2. The modules

| Module | What it is |
|---|---|
| `PacketFifo` | abstract: a bounded FIFO of frames |
| `RegFile` | abstract: a memory of words with linearizable calls |
| `TxDma` | the transmit ring, its senders and the card's consumer; implements `PacketFifo` |
| `RxDma` | the receive ring, timer, poll, commands and the card's producer; implements `PacketFifo` |
| `DriverLife` | loading, probing, removing and unloading, with all error paths |
| `RegAccess` | library, libnl, kernel and handlers of a register access; implements `RegFile` |
| `Ghost` | ghost mode from `enable_ghosting` to unloading; its ring implements `PacketFifo` |
| `AsyncFifo` | `small_async_fifo.v`; implements `PacketFifo` up to simultaneous edges and reset |
| `RxQueue`, `TxQueue` | `rx_queue.v`, `tx_queue.v` of both interfaces |
| `MC...` | their instances for TLC (lengths, opcodes, requests) |
| `TxDmaProofs`, `RxDmaProofs`, `DriverLifeProofs`, `RegAccessProofs`, `GhostProofs`, `TxQueueProofs`, `RxQueueProofs` | theorems and proofs about the module of that name; `TxQueueProofs` also has those about `AsyncFifo` |
| `QueueCounting` | lemmas the proofs share: counting positions of a sequence, and counters that wrap |

Operators whose comment begins with *Defect:* are not part of the
specifications. Each is a plausible mistake in the operator that follows it and is
used to see that a property notices it.

### 2.1 TxDma

| State | Code |
|---|---|
| `flags`, `buffers`, `metadata`, `buf_index` | the fields of `tx_dma_stream`; the bytes of a packet are who sent them and how many |
| `hw_state` | `hw_state`, with `HW_FOUND` and `HW_INIT` |
| `owner` | holder of `tx_dma_region_spinlock` and of the kernel's `genl_mutex` |
| `pc`, `req` | where each caller is; its packet's length and opcode |
| `credits`, `hw_index`, `hw_frame` | the card: doorbells not yet served, ring position, frame being read |
| `tx_packets`, `tx_dropped`, `wire` | `stats` of each device, and what the card has taken from each |

`nf10_ndo_start_xmit` is `XmitReject` (wrong length or no hardware), or
`XmitEnter`, `XmitLock`, then `XmitFull` or the ring work, `XmitUnlock`,
`XmitStats`. `genl_cmd_dma_tx` is `GenlEnter`, `GenlFull` or the ring work,
`GenlReturn`. The ring work is the same list of statements in both functions, one
action per store to shared memory: `FoundFree`, `CopyMessage`, `FillMetadata`,
`MarkFull`, `RingDoorbell`, `AdvanceIndex`, `WrapIndex`. Each reads `buf_index`
again, as the code does. Between two of them anything else may run.

The network stack holds a per-device lock around `ndo_start_xmit`, so a device
is one sender. Where the DMA command is concerned a process is one sender.
`Overlap` says whether devices and processes may be in their functions at the
same time: the driver lets them (`TRUE`, run `TxRace`); a cautious administrator
uses `DMA_TX` only while the interfaces are quiet (`FALSE`, everywhere else).
This is a condition on the environment, not a guard the driver has.
Left out: the logging, the `DRIVER_LOOPB` rewriting of addresses (a compile-time
option), `skb` clean-up, and `genl_cmd_dma_tx` without hardware, where the code follows a
NULL pointer.

### 2.2 RxDma

| State | Code |
|---|---|
| `flags`, `frames`, `buf_index` | `rx_dma_stream` |
| `timer`, `sched` | is `rx_poll_timer` in the kernel's list; `NAPI_STATE_SCHED` |
| `pc["timer"]`, `pc["poll"]`, `pc["genl"]` | the callback, the poll, the netlink command being executed |
| `poll_index`, `n_rx`, `fate`, `skb`, `work` | locals and return value of the poll |
| `credits`, `hw_index`, `hw_busy` | the card: buffers it may fill, ring position, frame written but not its flag |
| `rx_packets`, `rx_dropped`, `arrived` | `stats` of each device, and what the card delivered to each |

The callback is `TimerExpires` (kernel), `TimerCheck`, then `TimerSchedules` or
`TimerRearms`. The poll is `PollStart`, a loop of `PollLoop`, one of
`PollBadOpcode`, `PollNoMemory`, `PollDeliver`, the four stores of `GiveBack`
and `PollNext`, and then `PollComplete` and `PollRearms`, or `PollMore`.
`genl_cmd_dma_rx` is `GenlRxEnter`, `GenlRxNothing` or `GenlRxPut`, `GiveBack`,
`GenlRxReply`. `genl_cmd_napi_enable` is two actions because something can
happen between its `del_timer()` and its `add_timer()`; `genl_cmd_napi_disable`
is one call and one action.

`add_timer()` on a pending timer is a `BUG` in the kernel: the context that does
it goes no further. In the model it has no step; the property `AddTimerSafe`
says that this never comes to pass.

`Discipline` says when `DMA_RX` and `NAPI_ENABLE` are issued. The driver
accepts them whenever they come (`"any"`). The hardware tests send `NAPI_DISABLE`
first (`"disabled"`). `"quiet"` is what a user would have to do to be safe:
wait until timer, callback and poll have all come to rest. This is a condition on the
environment, not a guard the driver has; section 3.3 says what happens without it.

### 2.3 DriverLife

| State | Code |
|---|---|
| `pc`, `i` | where `nf10_eth_driver_init` or `nf10_eth_driver_exit` is; its loop variable |
| `allocated`, `registered` | the network devices in `nf10_netdevs` and how far they have got |
| `up` | NAPI structure added, NAPI enabled, netlink family, proc file, PCI driver registered |
| `probe_pc`, `held` | where `probe` is; device enabled, BAR0 reserved, BAR0 mapped |
| `tx`, `rx`, `dma_cpu_bufs`, `region` | buffers in each DMA region; the variable of the allocation loop; buffers behind `dma_region_size` |
| `hw_state`, `timer` | `hw_state`; what drives the polling (the token of `RxDma`, coarser) |
| `card`, `bound` | is there a card; does the PCI core take it for bound |
| `bad` | releases of what was not held, or of another size (a history variable) |
| `lapsed` | one of the paths was taken on which the code does not clean up (a history variable) |

Each call that can fail is a step with two outcomes, and every one may fail in
every run. A failing step releases exactly what the error path in the code
releases, mistakes included: the detached loop body at D:2051 is an action that
frees index `NUM_NETDEVS`. The PCI core calls `probe` for a card once the driver is
registered and `remove` for a card whose `probe` returned 0 (external). The
card may come and go at any time, and the module may be unloaded at any time.
`lapsed` becomes true on the paths of section 3.3 and nowhere else; the
properties that those paths break are stated for all other paths, so the run says
that these are the only ways to break them.

When init fails the kernel discards the module; the model then goes on from
whatever was left.

Left out: MAC addresses, the contents of the worker registers (only success or
failure counts), and the warnings. As it stands in the repository the build
without `DRIVER_GHOST` and `DRIVER_LOOPB` lacks the semicolon after the `printk`
at D:2132; the model is of the code with it.

### 2.4 The card

The card is modelled from how the driver uses it and from `ocdp.h`, and is
marked external in the map. It serves buffers in ring order and one
doorbell at a time, and writes the flag last. It reads or writes a
buffer between two separate steps, so that a driver that touches the buffer
meanwhile is seen.

### 2.5 RegAccess

| State | Code |
|---|---|
| `regs`, `pageWindow` | the card's registers, by page and word; `nf10_ctrl->pageWindow` |
| `genl_mutex`, `loaded` | the kernel's mutex (external); is the family registered |
| `pc`, `req` | where each client's call is, in the library or in the handler that runs for it; operation, address and value |
| `sock` | `nf10_genl_sock`: `s_seq_next`, `s_seq_expect` and the queue of received messages |
| `reply`, `out` | errno and value the handler puts into its answer; what the call returned |

A call is `Call`, `Connect`, `ResolveSend` and `Pickup` (the dump that finds the
family), `AllocFails` or `Send`, `Deliver` (the kernel takes the mutex and runs the
handler), the handler, `Reply` or `ReplyFails`, `Ack`, and `Recv`, which is
`recvmsgs()` with the callbacks each client registers.
`genl_cmd_reg_rd` and `genl_cmd_reg_wr` are two actions: `SetPage`, and `ReadReg`
or `WriteReg`; only the mutex keeps another handler from running between them.
`SendFailsUnseen` is `driver_ctrl`, which does not check whether its message was
sent. The module is unloaded and loaded by `Module` at any time the mutex is free. `NAPI_ENABLE` stands for the commands
answered by an ACK alone, `ECHO` for those with an answer.

`RegFile` is the promise to the programs: each call reads or writes its own
register at one instant during the call; a call that returns 0 has had its effect,
one that returns an error may have had it.

### 2.6 AsyncFifo, RxQueue, TxQueue

A step of `AsyncFifo` is an edge of one clock or both at once (`WClk`, `RClk`,
`BothClk`), or the reset. Registers take the values of the combinational signals
before the edge, and keep their names. With both edges at once the first
flip-flop of a synchronizer takes each bit of the pointer from before or after
the change, in every mixture.

A step of the queues is an edge of the MAC's or of the AXI clock. A word is its
packet, its place in it and its end mark. The small asynchronous FIFOs appear as the
FIFOs that `AsyncFifo` is shown to be, the Xilinx FIFO primitives as bounded
sequences with an almost-full mark whose flags are exact. Their latency is an
abstraction: a word or an entry that reaches the other side late is covered, because idle
edges of that side change nothing and the two clocks are interleaved in every way; that
an entry of `tx_info_fifo` does not show before the last word of its packet, which was written
to `tx_fifo` earlier or on the same edge, is assumed. How the latencies of the two crossings of
`tx_queue.v:62-115` compare depends on the primitive, which is not part of the repository. In `RxQueue`, `dropped` and `lost` remember
that the queue has dropped a frame or lost a word; in `TxQueue`, `stalled`
remembers that a last word had to wait for `tready`. The MAC and the AXI master are
external.

### 2.7 Ghost

State as in `TxDma` and `RxDma`, with one set of `flags` and `frames`, two indices,
`phase` for `enable_ghosting` and the steps of unloading, and `mem`, which says whether the ring
is allocated. Lock, check of the flag and copy of `nf10_ghost_xmit` are one
step because they are under the lock and the poll only looks at the flag,
which is written in the next step. The contents of a buffer are forgotten when its flag is
cleared: nobody reads an empty buffer.

The commands `NAPI_ENABLE` and `NAPI_DISABLE` are handled in ghost mode too, from the end of init
to `genl_unregister_family()` (`Listening`, and the phase `"genl"` of the unloading).
`NAPI_DISABLE` comes at any time, and the timer it has deleted is `"stopped"`. `NAPI_ENABLE` comes
while the polling rests, as under the quiet discipline of `RxDma`.

Left out: `tx_dropped` and the packets dropped before the lock. The interfaces are brought
up after init has returned, and the netlink DMA commands, which write to a doorbell that
ghost mode does not have, are not used: both would follow a NULL pointer. A
timer callback that finds the ring gone stops there (`"oops"`): that is the race
of `LifeExitRace`.

## 3. The runs

| Run | Question | Distinct states | Result |
|---|---|---|---|
| `TxXmit` | two devices and the `DMA_TX` command, not at the same time; ring of 2 | 163 568 | holds |
| `TxRace` | a device and a process transmit at once | | `TxExclusion` is violated |
| `RxRing` | timer, poll, card and all commands; ring of 2, budget of 2 | 381 073 | holds |
| `LifeCycle` | load, unload, plug and unplug; everything may fail | 47 378 | holds |
| `LifeExitRace` | is a timer left after unloading | | `NoTimerLeft` is violated |
| `RegAccess` | two processes, two pages, loading and unloading, failures | 114 492 | holds |
| `RegWriteLost` | a write to an unaligned address | | `StatusReported` is violated |
| `AsyncFifo` | four words, both clocks in every interleaving, reset | 37 760 | holds |
| `RxQueue` | frames that fit behind the almost-full mark, and that do not | 165 924 | holds |
| `TxQueue` | both speeds; packets below, at and above the almost-full mark | 18 561 | holds |
| `TxQueueInfo` | is there ever more than one entry per packet | | `OneInfoPerPacket` is violated |
| `Ghost` | a pair of interfaces, from `enable_ghosting` to unloading, with the NAPI commands | 183 492 | holds |

### 3.1 What they show

Some properties are conjunctions of named parts; the parts are definitions of
their own, each with its comment.

**Transmit.** `RingSound`: types (`TypeOK`) and `RingAgrees`: the full buffers
are exactly the `Committed` ones from `hw_index` on, and the driver continues
right behind them, so a flag of 0 at `buf_index` means a full ring and nothing
else. `TxExclusion`: no two senders in the ring work at once. `FramesWhole`: what
the card has been told about is complete, fits its buffer, carries the sender's
interface bit, and does not change under the card. `TxIsFifo`: the ring implements
`PacketFifo` (the queue is the frames of the buffers from `hw_index` on, one per
credit). `StatsAccount`: `tx_packets`, modulo its width, is what the card has
taken plus what it still has to take, at every step. `Progress`: calls return
(`CallsReturn`) and buffers come back (`BuffersComeBack`).

**Receive.** `PollingSafe`: of pending timer, callback, poll and `NAPI_ENABLE`
exactly one keeps the polling going: never two and, without `NAPI_DISABLE`,
never none (`OneDriver`); `add_timer()` never meets a pending timer
(`AddTimerSafe`); `DMA_RX` and the poll never meet in the ring (`RxExclusion`).
`RingSound`: types, `RingAgrees` with the roles exchanged, and the packet the poll
is copying is not overwritten (`InHandIntact`). `RxIsFifo` as above.
`StatsAccount`: every frame for a device is in the ring, in hand, or counted once as
received or dropped. `NapiContract`: a poll that reports its full budget has
not called `napi_complete()`. `FramesLeave`: every frame leaves the ring, budget,
drops and arrivals at the worst moment notwithstanding.

**Life cycle.** `UnloadedClean`: after a failed init or after exit nothing is
left and no timer is pending. `ReleasesMatched`: nothing is released that is not
held, DMA regions are freed with the size they have, and `probe` does not add a
pending timer (early failures of init do unregister a PCI driver that was never
registered, about which the kernel only warns). `UsersHaveMemory`: when the check
in `nf10_ndo_start_xmit` succeeds the transmit ring exists, and when the polling
is alive the receive ring does. `ResourcesSound`: a bound card has all its
resources and two regions of `dma_cpu_bufs` buffers (`BoundMeansReady`), any other
card has nothing (`UnboundClean`), and the halving loop never leaves one region
behind (`RegionsPaired`). `LoadAndUnloadEnd`: init's and exit's waits come to an
end. `UnloadedClean`, `ReleasesMatched`, `UsersHaveMemory` and `BoundMeansReady`
except the paths with `lapsed`; `UnboundClean`, `RegionsPaired` and liveness hold
on those too.

**Register access.** `HandlerAlone`: a handler runs with its family registered and
with the mutex, and the page window it reaches a register through is the one it
set. `SocketsSound`: the sequence numbers of a socket stay in step over dump and
request, no message is taken for another's answer, and every way out of a call
closes its socket. `StatusReported`: a register call the driver answered with an
error does not return 0 (for aligned writes, and all reads). `IsRegFile`:
register calls are linearizable. `CallsReturn`: every register call returns.

**Asynchronous FIFO.** `FlagsSafe`: the writer never overruns the reader, and all four
flags err on the safe side only. `PointersSound`: what each side sees of the
other's pointer is a value that pointer had, whatever mixture of bits was sampled.
`IsFifo`: words come out whole and in order. `NewsArrives`: a word shows on the
read side and room on the write side after some edges.

**Queues.** `FifoSound`: a frame, once begun, is written without looking at the FIFO
and loses no word unless it is longer than the almost-full mark leaves room for.
`WordsInOrder`, `FramesLeave`; `VerdictIsOwn`: the verdict handed over with a frame is its own, until
a frame is dropped. `EntriesSound`: one entry per complete packet, and the MAC,
which cannot pause, is never started before the packet is complete;
`PacketsInOrder`; both until a last word had to wait. `PacketsLeave`: complete
packets are started and finished. `ReadyAgain`: a master whose packet fits below the mark does not wait for ever.

**Ghost mode.** `RingSound`: although sender and poll keep an index each and the poll
takes no lock, the full buffers are those from one index to the other.
`PairAccount`: what an interface has counted as sent, its partner has received,
dropped for want of memory, or still has in the ring. `RingIsFifo`: frames leave in
order, once, each with a valid destination, and with addresses flipped in IP
packets and no others. `OneDriver` as in the receive path: the polling is never doubled,
and stops by `NAPI_DISABLE` only. `RingOutlivesUsers`: the ring is
freed when no sender and no poll uses it. `Progress`: frames leave unless the polling was stopped by
command, calls return, the unloading ends.

### 3.2 Findings

1. `genl_cmd_dma_tx` does not take `tx_dma_region_spinlock`, although the lock is
   declared to "control concurrent access to each DMA region" (D:123): it can
   fill the same buffer as `nf10_ndo_start_xmit` (`TxRace`).
2. Unloading is to "stop the polling timer" (D:2158). `del_timer()` does not wait
   for a running callback, `napi_disable()` returns before the poll has set the
   timer, and a probe that ends during the unloading sets it: the timer outlives
   the module (`LifeExitRace`).
3. The driver sends back an errno "to report back the status of the operation"
   (D:660); `nf10_reg_wr` reads that answer with a callback registered for the ACK
   only, ignores it, and returns 0 for a write that was refused (`RegWriteLost`).
4. "Only 1 cycle per packet!" says the comment on `info_fifo_wr_en` (10G
   `tx_queue.v:102`); a last word that waits for `tready` writes an entry on every
   edge of its wait (`TxQueueInfo`).

### 3.3 Known lapses

Behaviour that the models show and that no document of the repository speaks
about, or that the code marks as known:

* `probe` returns 0 when no DMA region could be allocated (D:1666, `err` is
  not set); `register_netdev()` fails and a stray semicolon keeps init from
  freeing its devices (D:2051); `pci_register_driver()` fails and nothing is undone
  (D:2119); `remove` leaves `hw_state` and the timer alone (D:1943); and finding 2. These are the paths
  that set `lapsed`.
* `NAPI_ENABLE` calls `del_timer()` and `add_timer()` (D:711-715) and a callback or poll
  that is already running adds the timer too: with `Discipline = "any"` `RxDma`
  violates `AddTimerSafe`. The same lines run in ghost mode. With `"disabled"`, as in the hardware tests
  (`testing/hw_configured/driver_ctrl_dma_inc.py:49`), `DMA_RX` meets a poll that was
  already scheduled and violates `RxExclusion`; the comment at D:700 accepts that polling may go on.
* In `RxQueue` the verdict on a dropped frame is pushed and never taken, so later frames get the verdict of an
  earlier one.
* In `RxQueue` a frame longer than the room behind the almost-full mark of `rx_fifo` (128 words, which
  are 1024 bytes at 10G and 128 bytes at 1G) loses words when the FIFO is nearly full as it begins:
  the rest of the frame is written without looking. `FifoSound` says that no shorter frame does.
* In `TxQueue` a packet longer than the FIFO up to its almost-full mark (896 bytes at 1G, 3072 at
  10G) never gets its last word in, and is never started.

### 3.4 Bounds, and why they suffice

* `DMA_CPU_BUFS = 2` for the rings: the smallest with a "next" buffer different
  from the current one; it fills, empties and wraps in every order. The proofs
  cover every other size, 1 included. `Ghost` has 2, or 1 when memory is short.
* two devices and one process in `TxXmit`: every conflict in the code is between
  two; a third only waits.
* `Lengths`: one that can be sent, and one beyond both the hardware's maximum and
  `DMA_BUF_SIZE`; opcode 5 for the command.
* receive opcodes 2, 129 and 1: interface 0; interface 3 with a MAC bit that has to
  be ignored; no interface. They tell frames apart; there is one payload.
* `Budget = 2` in `RxRing`: the ring can hold exactly the budget, and can be refilled
  during a poll, so the poll ends both ways.
* life cycle: 3 network devices (first, middle and last index of every loop;
  four differ in nothing), buffer counts 5, 2, 1 (an odd count is halved, the
  smallest one is reached), any number of loads, failures and replugs.
* register access: two clients, pages of 8 bytes, addresses 0 and 8 (the same
  offset in two pages) and 2 (not aligned).
* `AsyncFifo`: 4 words with pointers of 3 bits, which wrap; any number of edges.
* `RxQueue`: 6 words, 2 behind the mark, frames of 2 (just fits) and 3 words, room for
  2 verdicts. `TxQueue`: 5 words, mark at 4, packets of 2, 4 (just fits) and 5 words, room for 3 entries.
* `Ghost`: one pair of interfaces; the first sends both kinds of packet, the second one kind.
  `Budget = 1`: every delivered packet uses it up, while dropped ones go on in the loop.
* `StatMod` is 2, so that counters wrap.

Statistics are the only counters; everything else is finite by itself. Deadlock
is checked in every run but `Ghost`, whose system stops when the module is gone.

### 3.5 Fairness

Weak fairness for the functions that have been entered (the kernel executes
them to the end), for pending timers, scheduled polls, and for a card that has
a doorbell or a half-filled buffer. Strong fairness for taking the spinlock: the
kernel's spinlocks on the supported machines are ticket locks, so a waiter gets
its turn although the lock is free only now and then. None for sending, issuing
commands, finding the card, or frames arriving.

`DriverLife`: weak fairness for init, exit and `probe` once entered, for probing a
card that is there, and for the polling; strong fairness for the ends of
`pci_register_driver()` and `pci_unregister_driver()`, which look at each card once
and which a card that keeps coming and going cannot hold up; none for loading,
unloading and plugging. That the poll `napi_disable()` waits for completes is part of this: a stream of
bad opcodes that never pauses would keep it in its loop (D:1422), and then `LoadAndUnloadEnd` is not
claimed. `RegAccess`: weak fairness for each client and for the
handler it has called, strong fairness for waiting for `genl_mutex`, a sleeping
lock with a queue; none for starting a call. `AsyncFifo`, queues: the clocks run; the AXI slave
is ready again and again; the MAC finishes a frame it has begun, gives its verdict,
and acknowledges what is started. No fairness for new packets. `Ghost`: as for the rings; that the unloading ends is claimed
for the case that senders fall silent, because a sender that never does keeps the
poll that `napi_disable()` waits for busy. No command is assumed to be sent.

## 4. The proofs

TLAPS checks seven modules of proofs and the lemmas of `QueueCounting`. They
state all 31 safety properties of the runs (invariants, action properties and
refinements) as theorems, for every value of the constants that the assumptions next to
the CONSTANTS allow: every ring size (1 included), every budget, every set of lengths and
opcodes, every width of the statistics, any number of devices and processes.
Each module begins with its inductive invariant `IInv`, whose
parts are named for what they say.

**Transmit**, under `OneInterface` (`~Overlap`): any number of network devices and
processes, the two kinds used one at a time. `TxRace` shows that nothing of this
holds without it. Proved: `RingSoundness` (with `TypeCorrect` and `RingAgreement`),
`Exclusion`, `FrameIntegrity` and `Refinement` (the ring implements `PacketFifo`).
The inductive invariant is

* `LockHeld`: who is in the ring work holds the lock of its kind; and `Apart`: two
  senders of different kinds are never both at work. Together they make senders in
  the ring work equal (lemma `Alone`); without them a second sender could appear
  between any two stores;
* `IndexHeld`: `buf_index` is `DMA_CPU_BUFS` exactly between its increment and its
  wrap, and a sender past the check has a free buffer in front of it;
* `RingAgrees`, with its correction for a sender that has written the flag and not rung the
  doorbell, or rung it and not advanced the index;
* `InProgress`: what the sender has already stored of its packet, which is what
  `FramesWhole` has to know at the doorbell;
* `FramesWhole` and `TypeOK`.

`Refinement` maps the queue to the frames from `hw_index` on, one per
credit. `RingDoorbell` is `Put`, `HwRelease` is `Get`, and every other step
leaves the queue alone, because the ring work only writes to the
buffer behind the queue; that there is such a buffer is `RoomLeft`.

**Receive**, under `Quietly`: `DMA_RX` and `NAPI_ENABLE` come when polling is at
rest; section 3.3 says what happens without it. Proved: `RingSoundness` (with
`TypeCorrect`, `RingAgreement`, `PacketIntegrity`), `PollingSafety` (with
`SingleDriver`, `TimerSafety`, `Exclusion`), `NapiContractKept` (an action
property) and `Refinement`. The inductive invariant has `Token` (the token
of polling with the locations of the three contexts, from which the parts of
`PollingSafe` follow), `IndexHeld` (the index the poll holds in a local variable is
the shared one whenever it is used, and the budget is not exceeded), `RingAgrees`,
`InHandIntact`, and `HwHeld` (a frame is in memory before its flag is). In the
refinement `HwFlag` is `Put` and `MarkEmpty` is `Get`.

**Statistics** (`Accounting` of both rings, `PairsBalance` of `Ghost`). Each
property says that a counter, modulo its width, is the sum of what was taken and of the
frames still in the ring, which are counted by the cardinality of a set of queue positions.
The refinement steps say what a step does to the queue: an append, a removed
head, or nothing. The lemmas `Appended` and `HeadGone` of `QueueCounting`
turn that into one position more or one less, and `Counted` and
`Uncounted` carry it through the wrapping counters. What is needed beside the ring
invariant is where the packet in hand stands: between doorbell and statistics
(`Owed` in `TxDmaProofs`), and between taking the frame and counting it, with its
fate (`FateHeld`, `Early`, `Late` in `RxDmaProofs`, `Taken` in `GhostProofs`).

**Life cycle**: `ResourcesAreSound`, `UnloadingIsClean`, `ReleasesAreMatched`,
`UsersFindMemory`, for any number of network devices and any buffer counts. The invariant
says what is held at each step: `ProbeHolds`, `ProbeMemory` (regions against the loop
variable that is halved), `AtRest` (all or nothing when `probe` is not running), and
`Stages` (what init has set up and exit not yet taken down). `ProbeInv` holds after every lapse
too; `Stages`, `PollingHeld` and `InitBit` hold until the first one. `UnloadedClean` needs
`PollingHeld`, because exit deletes the timer before the card is unbound.

**Register access**: `HandlersAreAlone`, `SocketsAreSound`,
`StatusIsReported` and `RegistersAreLinearizable`, for any processes, calls and
page size that is a multiple of 4. `Exchange` says, for each step of a call, how
far the two sequence numbers are apart and which messages wait in the socket;
`Answered` ties the first message to what the handler has done. The last two
theorems have the hypothesis `WritesAligned`: the run `RegWriteLost` shows
that the error of a write to an unaligned address is reported as success,
and then the call has not written. In the refinement the
linearization point is the access to the register (`Read` and `Write` of `RegFile`); it stays well-defined because
`genl_mutex` keeps the page window from changing between being set and being used, and
because two aligned addresses with the same page and word are equal (`CellInjective`).

**Ghost mode**: `SharedRingIsSound`, `RingOutlives`, `SingleDriver`, `Refinement`
and `PairsBalance`, for any ring size from `MIN_DMA_CPU_BUFS` on. The argument is that of the rings with
two differences. The poll takes no lock, so the proof needs that the sender's and the poll's
buffer differ: `Sending` says that the sender's buffer is empty until it sets the flag,
`Receiving` that the poll's is full until it clears it. And the ring comes and goes: `Life`
ties memory and interfaces to the phase, `Users` says that a poll is scheduled
only until `napi_disable()` has returned and that a sender has its interface.

**Queues**: `EntriesAreSound` and `PacketsAreInOrder` for `TxQueue`,
`FifoIsSound`, `VerdictsAreOwn` and `WordsAreInOrder` for `RxQueue`, for FIFOs of any depth and packets
of any lengths from two words on. The invariant of each has `Chain`: the word last
handed over, the words in the FIFO and the word to come next follow each other, from
which the order follows at once. That packets and entries match is a count of
end-of-packet words against the length of the second FIFO (`InfoMatches`, `Owing`), and it only
stays true if that FIFO is never full. Its depth is enough because ends are apart: in
`tx_fifo` by two words at least (`SpacedByOne`), in `rx_fifo` by a whole frame and its end mark
(`MarksBehind` and `FrameBetween` in `RxQueueProofs`; `Least` finds the shortest frame and `Spaced` counts).
`InfoAssumption` of each module says that so many ends fit. With 512 entries it holds in
`TxQueue` for the 384 (10G) and 896 (1G) words below the mark, and in `RxQueue` for the 512 words of 8 bytes of
10G, and for the 2048 words of one byte of 1G with frames of 3 bytes or more; Ethernet frames
have 60.
`VerdictsAreOwn` also needs that the one verdict the MAC owes is for the newest frame.

**Asynchronous FIFO**, in the second half of `TxQueueProofs`: `FifoPointersSound`,
`FifoFlagsSafe` and `FifoIsFifo`, for every pointer width, every depth that goes with it
and every size of the almost flags. That module extends both `TxQueue` and `AsyncFifo`,
whose names for its specification therefore differ (`FifoSpec`). The assumption is
`Sizes` of `AsyncFifo`, which TLC evaluates on the run's instance. It says

* that there are two address bits at least, because the full test compares the lower ones;
* that `ALMOST_FULL_SIZE` is at least 1 (the code's default is 5): with 0 the flag ought
  to be up in an empty FIFO, and the reset clears it;
* that `2^0 = 1` and `2^(i + 1) = 2 * 2^i`, which the provers do not know of `^`.

The argument has three layers.

1. *Numbers and bits.* `Upwards` (in `QueueCounting`) and `DownFrom` are induction up to and down from a bound,
   for sets of numbers; they come from the least element of a set of counterexamples.
   `Upper(n, i)` is `n` without its last `i` bits. By induction over the bits: a pointer is
   determined by its Gray code (`GrayInjective`); an increment carries up to some bit and
   not beyond (`Carry`, `CarryEnds`, `CarryStays`), so that the Gray code changes in one bit
   (`GrayNext`, and `GrayLast` where the pointer wraps) and a flip-flop that samples it
   takes the old pointer or the new one (`SampledNext`); the decoder of the almost flags
   inverts the code (`Parity`, `BinaryOfGray`); and equality with the two upper bits
   inverted means half a span apart (`Raised`, `FullTest`).
2. *Pointers on a circle.* `InOrder` is the heart of the inductive invariant `FifoInv`: the
   two copies of the read pointer lag behind it, the older further, and even the older is at
   most a depth behind the write pointer; the copies of the write pointer lie between the
   read pointer and the write pointer. `EdgeKeepsOrder` shows that one edge or both at
   once keep it. `SeenIsPast` is not inductive: it does not order the two copies, and
   the second takes the value of the first. The rest of `FifoInv` says that a flag that is
   down tells the truth of the older copy (`WriteFlags`, `ReadFlags`).
3. *The words.* Reading takes the first word (`ReadTakes`), writing appends one and hits
   no place that is still to be read, because fewer than a depth of words are stored
   (`WriteAppends`, with `Apart`); `WriteAndRead` is both at once.

**Only model-checked**: liveness (`Progress`, `FramesLeave`, `LoadAndUnloadEnd`,
`CallsReturn`, `NewsArrives`, `PacketsLeave`, `ReadyAgain`). Fairness and `ENABLED` are
beyond this prover.

## 5. Plan

Everything of section 1.1 is modelled, every safety property of the runs is proved, and
liveness is model-checked. What could follow is reset during operation of the queues, and the
queues composed with `AsyncFifo` itself in place of the FIFO it is proved to be.

## 6. Not modelled

Of some 57 500 lines of source, most are not this project's own: about
three quarters are the vendored libnl and copies of system headers, and the rest is
dominated by the driver and by hardware wrappers. The driver's file is modelled
but for logging, formatting and attribute checks; modelling a larger share of the
repository would mean modelling libnl's routing, traffic control and cache code,
which nothing here calls.

* **libnl** beyond sequence numbers, sending, `recvmsgs()` and the resolution of a
  family: vendored, and not used by the clients.
* **`read_proc`**, argument parsing and printing of **`driver_ctrl`**: they only format text.
* **Opcode helpers** without a caller (five of eight).
* The **loopback build** of the transmit path: it changes bytes of a packet only.
* The **ring commands without a card**, packets sent in ghost mode before init has returned,
  and other uses of NULL pointers: what the kernel does then is not a state of the models.
* **`dma_test`, `reg_report`**: single-threaded test programs that use the rings
  without the driver. **Firmware** of the loopback tests: register I/O in sequence.
* **Stream generator and checker**: a counter in one clock domain on which nothing relies.
* In the **queues**, reset during operation, and the encoding of byte strobes. **MACs, FIFO primitives,
  pcore wrappers**, constraints and build files: vendored or generated.
