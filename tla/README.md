# Verification of thincan

TLA+ models of the stateful parts of this repository, the TLC runs that check
them on small instances, and TLAPS proofs of all but four of the safety
properties for every instance. `PROJECT.json` maps each definition to the source
lines it models and lists the runs, mutants, hazards, findings and theorems.

## The system

thincan carries typed Cap'n Proto messages over ISO-TP over CAN.

| Part | Source | State and operations | What makes it hard |
|---|---|---|---|
| File transfer | `thincan-file-transfer/src/tokio_impl.rs` | `send_file` (id allocator, offer, window, retries), `recv_file` (store handle, offset, hash) | losses, late acks, timeouts on both sides, leftovers of earlier transfers, id wrap |
| Interface | `thincan/src/lib.rs` | one transmit buffer, one bounded mailbox and one `Watch` per message type; sends, `pump_ingest_once`, `recv_next` | tasks share the buffer across an await; push, notify and look interleave; pumps and receivers are cancelled; mailboxes fill |
| ISO-TP queue | `iso-tp/can-isotp-queue/src/{tokio,embassy}.rs` | an actor owning the node, request and event channels, callers | bounded channels both ways, cancelled callers, fairness between sending and receiving |
| Unix CAN bus | `embedded-can/embedded-can-unix-socket/src` | server threads over channels, clients over sockets | filters against frames in flight, late acks, messages cut short at a deadline, clients that hang up, shutdown |
| UDS demux | `iso-tp/linux-socketcan-iso-tp/src/linux.rs` | one kernel socket per peer, flow control | system calls that fail half way, STmin encoding |
| ISO-TP sockets | `iso-tp/linux-socketcan-iso-tp/src/linux.rs` | one kernel socket, polled or under an `AsyncFd` | readiness is cleared while payloads arrive |
| Raw sockets | `embedded-can/embedded-can-socketcan/src/linux.rs` | a cached blocking mode, write timeout, filters | settings changed for one call and restored; flag bits in masks |
| STM32 drivers | `embedded-can/embedded-can-embassy-stm32` | none of their own | - |

A transfer runs on top of the others: `send_file` encodes a message and gives
it to the transport (queue, socket or bus); the peer's pump ingests it into the
mailbox of its type; `recv_file` takes it from there. `FileTransfer` abstracts
this path to one queue per message type, with loss and with sends that fail
although the message arrives. The other modules say why that is right:
`InterfacePair` that with one pump a type is received as it was encoded, in the
order the transport took it, once, or not at all; `UnixBus` and `UnixCan` that a timed-out send may have been broadcast.

## Modules

| Module | Models |
|---|---|
| `FileTransferWire` | the messages, and `send_to_with_timeout` as `Transmit` |
| `FileSender`, `FileReceiver` | `send_file`, `send_file_with_id`; `recv_file`, `recv_file_no_alloc` |
| `FileTransfer` | their composition and the properties |
| `TransferService`, `FileTransferService` | what a file transfer promises, and the mapping under which `FileTransfer` implements it |
| `FileTransferWrites`, `FileTransferFresh` | proofs: what holds whatever the ids, and what fresh ids give, the refinement included |
| `ThincanWire` | payloads with and without a header |
| `Mailbox` | the receiving half of an `Interface`: pumps, mailboxes, `Watch`, receivers |
| `MailboxProofs` | proofs about `Mailbox` |
| `InterfaceTx` | the sending half: callers, the lock, the transmit buffer |
| `InterfacePair` | one interface's sending half joined to another's receiving half |
| `TypedChannel` | the lossy ordered channel per message type that the pair implements |
| `ActorLoop` | the loop both queue actors share |
| `TokioQueue`, `EmbassyQueue` | the callers' side of each queue, and the properties |
| `QueueProofs` | proofs about both queues |
| `UnixBus`, `UnixCan` | server; clients, composition and properties |
| `UnixProofs`, `UnixOrder`, `UnixDelivery` | proofs about the bus, each on top of the one before: steps and shapes; order, filters, clean-up; what reaches a client |
| `KernelUdsDemux` | the demux, opening and configuring sockets |
| `IsoTpSocket` | calls on one `SocketCanIsoTp` or `TokioSocketCanIsoTp` |
| `SocketMode`, `SocketCan` | the blocking mode and write timeout of a raw socket; its filters |
| `LinuxProofs` | proofs about the demux, the ISO-TP sockets and `SocketMode` |
| `MCLinuxSockets` | the three Linux modules side by side: an instance opens one of them |
| `MC...` | values of the constants for TLC |

An action is a handler, or the part of one between two awaits. Variables keep
the names of the source (`lastAcked` is `last_acked`); those marked *history*
exist only for properties. Operators marked *Mutant* are deliberate mistakes
with which each property is shown to fail; no specification uses them.

**File transfer.** `spc`/`rpc` say where the two calls are. A wait that can
time out has two actions, one that takes a message and one that gives up.
Timeouts happen at any moment unless `Timely` holds: then the sender times out
only when nothing it waits for is on its way, and the receiver only when the
sender will send no more. Bytes are numbers and SHA-256 is taken to be
collision free: the hash of a file is the file. A write and the commit that
follows it are one action, since nothing else touches the store.
`TransferService` knows nothing of messages: a transfer is offered, turned away
or opened; what is opened is committed, whole, or abandoned; and a non-empty
transfer succeeds only if its file is committed by then.

**Mailbox.** The mailbox lock is held over steps without an await, so a push,
and a look, is one action; the notification after a push is another. A Watch is
a version counter of which each receiver remembers the last value it saw. The
transport is external and hands payloads over in the order of their arrival. A
pump can be dropped while it waits for the mailbox lock, which loses its
payload, but not between push and notification, where nothing is awaited.

**Sending.** A call waits for the lock, encodes and awaits the transport in the
critical section. The transport takes what is in the buffer at one moment of
that await. A buffer that is too small, a value that encodes to more than it
announced, a failed send and a dropped future end the call. `InterfacePair`
loses payloads at the head of the wire only: an earlier loss looks the same to
everybody.

**Queues.** `ActorLoop` has the bounded burst of requests followed by one
receive of the node, with the filter on source addresses. `TokioQueue` adds a
one-shot answer per request and the actor's end, `EmbassyQueue` the lock and
the shared answer channel. A request is identified by its client and the least
number no outstanding request or answer of that client carries, which stands
for the identity of its one-shot channel (`CallSpace` is large enough that there
always is one). The two modules name their callers' state and steps apart
(`client` and `Enqueue` of Tokio, `caller` and `QueueRequest` of Embassy), so
that one module can prove what they share once. Payload lengths are left out: an
event leaves the channel whatever `recv_one_into` returns. The order of events,
the source filter, the fixed reply address and errors of the node are model-checked
with the Tokio callers only, and proved with both.

**Unix bus.** `log` is the order in which the bus thread broadcast, and a frame
on its way carries its place in it (`at`), which tells equal frames apart.
`out[c]` joins a writer thread's channel and the socket. Its
progress shows in two places, and both leave it open: a client that hangs up
may or may not leave something to fail on, and `try_recv` sees any part of what
was sent. Masks compare all bits or none. A filter whose mask is of the other
kind is sent with an empty mask, as `encode_filters` does, and so matches every
identifier of its kind. A client in `Tearing` may give up within a message
(`TornSend`). What the server's reader makes of the bytes from there on is left
open, within what the client writes: it may swallow requests, post a frame with
an identifier no client used, refuse filters, come to the start of a message
again, or end and have the client removed.

**Demux.** Every system call may fail where the code handles it. The kernel's
part (queue, transmit state and pending error of a socket) is external.

**Single sockets.** The kernel reports to the runtime's driver when something
becomes possible, not while it is; an `AsyncFd` remembers the report until a
guard clears it, unless a newer one came (`reported`). Where the synchronous
socket polls, the descriptor itself is looked at.

**Raw sockets.** A call that changes a setting for its own duration has a state
between the change and its restoration, and either may fail. Identifiers have
one bit, or two if extended, and the extended flag is above them; masks have
one bit more than identifiers of their kind, and each is tried against every
identifier.

## Runs

| Run | Instance | Shows |
|---|---|---|
| `fresh_ids` | two transfers, files of 0 and 3 bytes, windows of 1 and 2, any two faults | Ok means committed; only prefixes are written; no ack is ahead of the window; the handle is never leaked; the whole implements `TransferService` |
| `reused_ids` | two calls, one id by hand that the allocator also hands out, an allocator of two ids, bare and invalid requests, staging buffer of one byte, one fault | commits were offered under their id and acks follow writes, even with ids reused; `send_file` returns and the write handle is released, whenever waits time out |
| `timely` | two transfers, files of 0 and 7 bytes, windows of 2 and 3, 4 retries, up to 4 lost chunks and acks, `Timely` | losses up to `max_retries` are recovered, every offer is committed, fewer than two windows of chunks wait at the receiver |
| `staging` | staging buffer smaller than a chunk | *violation*, see Findings |
| `mailbox` | two pumps and three receivers, all cancellable, a `Watch` with two places, different predicates, two slots, three payloads good and bad | no lost wake-up; every payload is received once, refused, or lost with a cancelled pump; one pump's messages are taken in order |
| `interface` | two senders, one pump and a receiver, two types, two slots, values that fit and that do not, losses | the pair implements `TypedChannel`; a receiver whose message is there gets it; a full mailbox does not hold up the wire |
| `tokio_queue` | two clients, channels of one slot, two payloads or errors of the node, a fixed reply address, cancellation, the actor stopped at any time | a waiting call has exactly one request that will answer it; events keep their order and only the filter drops any; sends return and receiving is not starved |
| `embassy_queue` | two clients, channels of one slot, one slot for answers, two payloads of an allowed source, cancellation | until a send is cancelled, a call gets its own answer and the actor never waits for `tx_resp`; always, a send that has the lock returns |
| `unix_bus` | two clients, two requests, filters that refuse or (by a mixed mask) accept the frame, shutdown | one order for all; acks are not mixed up; NoAck only when alone; an acknowledged filter update is exact; a client that is gone is forgotten |
| `unix_liveness` | two requests, a filter list that fits and one that does not, one client that may tear a message, no shutdown | connect, send and set_filters return, for every client but one whose own stream is torn |
| `unix_arbitration` | two identifiers | *violation*, see Findings |
| `linux` (demux) | two peers and the local address, failures anywhere, two payloads, STmin bytes of each range and a reserved one, durations at the boundaries | payloads in order under their sender; the flow control asked for last in every socket that no failure kept from it, rounded down by less than 1 ms and to 127 ms at most; configuration reaches the sockets |
| `linux` (ISO-TP socket) | three ways to receive, arrivals and sends at any time, timeouts, errors | no call waits for what is there already |
| `linux` (raw socket) | settings that fail to change anywhere, filter lists of both kinds and mixed | try calls never block; settings are restored; the kernel passes exactly what the last accepted list asks for |

The bounds are the smallest at which the hard cases happen: two transfers so
that one meets the other's leftovers; a window of two so that go-back-N repeats
a chunk that did arrive; as many losses as retries; two requests so that a late
ack meets a later call; channels of one slot so that each can be full; more
payloads than slots in `mailbox` and `interface` so that one finds it full;
more receivers than `MAX_WAITERS` in `mailbox` so that one is refused. `mailbox`
has one peer: a second takes the run beyond its time, the receivers' predicates
already make them pass over each other's messages, and the proofs are for any
set of peers. In
`interface` three sends are enough for two tasks to meet at the buffer and a
third message to find its mailbox full. On the Unix bus `Ops` names the methods
programs call in a run. `unix_bus` has all but `send` and `recv`, which do
nothing that `send_timeout` and `recv_timeout` cannot do when only safety is
checked; `unix_liveness` has the calls that wait for an answer.
The three Linux modules share no state, so that one run explores them one after
the other. No run checks for deadlock:
calls and arrivals are bounded, so every instance ends in a state in which
nothing is left to do. What must not get stuck is stated by the liveness
properties instead.

**Fairness.** Executors poll ready tasks and timers fire, and threads are
scheduled: weak fairness of each actor, pump, receiver, thread and waiting
call. Calls that send are never fair: programs may stop making them. Calls that
receive are, where a property needs a receiver: a program that serves transfers
calls `recv_file` again (`RecvFile` is part of `Receiver`), and the queues'
liveness holds only while a task other than the senders receives (`WF` of
`Recv`), since the actor waits for room in the event channel. On the Unix bus
no client is assumed to receive. In `interface` the pump is called again and
again and tasks are polled, while the senders and the transport owe nothing.
Tokio's bounded channel serves waiting
senders first-in first-out, which is strong fairness of `Enqueue`. Embassy's
mutex promises no order, so there `CallReturns` begins where the lock is held.

## Proofs

Each theorem is `Spec => []Property` (`ConfiguredReachesSockets` and
`ImplementsService` are action and temporal formulas) for all values of the
constants that satisfy the assumptions named in the modules: numbers are
naturals, some are not zero, sets that are counted (`Pumps`, `Tasks`, `Conns`,
`Addrs`) are finite, and `CallSpace` exceeds the requests that can be
outstanding. The bounds on counters (`MaxArrivals`, `MaxRequests`, ...) are any
numbers. TLC evaluates the assumptions in every run.

Hardly any property is inductive as it stands: it speaks of what a call
returned, received or committed, and a step gets that from a message on its
way. The inductive invariant says what the messages on their way, and the ones
about to be sent, must be like.

**File transfer** (`FileTransferWrites`, then `FileTransferFresh`)

| Theorem | Property | Inductive invariant and argument |
|---|---|---|
| `TypeCorrect` | `TypeOK` | itself, one step per action |
| `HandleDisciplined` | `HandleDiscipline` | itself, with types |
| `CommitsAreOffers` | `CommitIntegrity` | `RequestsAreOffers`: requests on the way and the one served announce offered files; the hash check does the rest |
| `AcksFollowWrites` | `AckAfterWrite` | `WritesCoverAcks`: also the ack about to be sent and the receiver's count are covered by what was stored |
| `OkIsCommitted` | `OkMeansCommitted` | `IdsAreFresh`: an id names one file; `AcksAreJustified`: a Complete speaks of a committed file, a progress ack never of the last byte |
| `OnlyPrefixesWritten` | `WrittenIsPrefix` | `ChunksAreSlices`: chunks on the way are slices of an offered file; `PrefixHeld`: a slice at the end of a prefix makes a longer one |
| `AcksNeverAhead` | `AckNeverAhead` | `OffsetsWhole`, `WindowHolds`: acks fall on whole chunks, and nothing sent or stored lies beyond the window of the last ack, also what was sent before a go-back. So when the window is full again it reaches as far as any ack |
| `ServiceIsImplemented` | `ImplementsService` | the mapping of `FileTransferService`: initial states map to initial states, and under the invariants above each action maps to one of the service or to a stutter |

**Mailbox** (`MailboxProofs`)

| Theorem | Property | Inductive invariant and argument |
|---|---|---|
| `MailboxTypeCorrect` | `TypeOK` | `Counted`: a payload is with one pump and raises one `Watch` at most once, so that a version never exceeds the arrivals |
| `NoWakeupIsLost` | `NoLostWakeup` | itself, with `Counted`: a sleeping receiver with an acceptable message in its mailbox has a version behind the `Watch`'s, or a pump is about to notify |
| `ReceivedInOrder` | `TakenInOrder` | `Ordered`: each mailbox has one pump's messages in order, what a pump holds is newer than all it delivered, and what is left is newer than what was taken in its place |
| `NothingLostOrDoubled` | `Conserved` | `Kept`: the six places a payload can be in, and that it is in one of them once |

**Queues** (`QueueProofs`)

| Theorem | Property | Inductive invariant and argument |
|---|---|---|
| `CallsArePending` | `WaitingIsPending` | `QueueInv`, with `Once` for each waiting call: its request is in the actor's hands or in the queue, at one place; that a call number is free needs that the queue holds at most `TxDepth` different requests (cardinalities) |
| `TokioEventsInOrder`, `EmbassyEventsInOrder` | `EventsInOrder` | `RxInv`, shared: received, queued and held events are an increasing sequence of arrival numbers, and every number left out is one the filter refuses |
| `AnswersAreOwn`, `ActorNeverBlocks` | `OwnAnswer`, `AnswerNeverBlocks` | `AloneInv`: until a send is cancelled there is one request or answer at most, the lock holder's |

**Unix bus** (`UnixProofs`, `UnixOrder`, `UnixDelivery`). `Steps` first reduces
every step to what they do to one connection (`Aside`, `Accepted`,
`Relays`, `Asks`, ...); each invariant is then kept by each of these.
`Registered`, which all the others use, says when the bus thread knows a
connection and which commands of it are still queued.

| Theorem | Property | Inductive invariant and argument |
|---|---|---|
| `OneOrder` | `InBusOrder` | `Ordered`: the places of the frames in `rx_queue` and then in the socket increase, beyond the last one received; a broadcast appends the largest |
| `FiltersHold` | `FiltersInForce` | `Filtered`: outside `set_filters` no update is under way and the bus thread's list is the client's; during one the update is in one place, and behind its answer in the socket only frames it accepts |
| `Forgotten` | `GoneIsForgotten` | `Leaving`: the reader thread's `RemoveClient` is the last command of a connection up to the writer's, and it is handled or queued |
| `NobodyHeard` | `NoAckMeansAlone` | `Alone`: a NoAck answer in the socket of the current request means that the peers of its beginning have left; `Numbered` tells it from answers of earlier requests. Two clients make a cardinality above one |
| `AllReceived` | `NothingMissed` | `Kept`: every accepted frame of the log beyond the last one received waits in `rx_queue` or in the socket; rests on `Filtered` (the bus thread applies the client's list) and `Ordered` (what is received is the first that waits) |
| `AckIsOfTheSend` | `AckedWasSent` | `Queued`, `Answered`, `Returned`: the current send is the last thing its client said; its answer in the socket stands behind its own frame, which is in the log |

**Linux sockets** (`LinuxProofs`)

| Theorem | Property | Inductive invariant and argument |
|---|---|---|
| `ModeIsKept` | `ModeIsAsAsked` | `ModeInv`: the cached mode is never wrong when it says "does not block"; a call that switches found the mode as the program wants it |
| `WaitsAreAnswered` | `NeverWaitsInVain` | `Remembered`: a report newer than the attempt keeps the guard from clearing the readiness |
| `PayloadsInOrder` | `PerPeerInOrder` | the demux invariant: what was handed over and what waits at a socket continue each other, peer by peer |
| `FlowControlIsUniform` | `UniformFlowControl` | `InForce`: the encoding of the flow control asked for is in every socket that is not `stale`; `EncodedStMin` bounds the rounding |
| `OptionsReachSockets` | `ConfiguredReachesSockets` | from types: the STmin encoding of a decoded byte is the byte, unless reserved |

**Only model-checked**

- Liveness, out of the prover's reach: `SendReturns`, `HandleReleased`,
  `OfferedIsCommitted`, `WaitEnds`, `WireDrains`, `ReceiveNotStarved`,
  `CallReturns`, `CallsReturn`.
- `LossIsRecovered` and `MailboxHoldsTwoWindows`: they hold under `Timely` and
  with bounds on losses, and say how many losses or chunks there have been in
  all. Their invariants are sums over queues, which need induction over
  sequences.
- `ImplementsChannel`: the abstract channel is a wire filtered by type
  (`SelectSeq`), whose laws are again inductions over sequences.
- `FiltersAsAsked`: it is about bits of masks (`Bitwise`), which the prover's
  back ends do not know.

The proof modules are longer than the specifications: a leaf has to be found
within the prover's limit of five seconds for translation, which grows with
what is in scope, so that steps are small and the facts they use are named.

## Findings

- `staging`: `ReceiverConfig::max_chunk_size` documents 0 as "no limit / accept
  any size"; `recv_file_no_alloc` then accepts chunks that its staging buffer
  cannot hold and aborts at the first one.
- `unix_arbitration`: the README of the Unix bus describes arbitration by
  dominant identifier; `bus_loop` broadcasts in the order of arrival.

Limits that no document contradicts, which TLC shows when one constant is
changed or a property's condition dropped, and which the hazards list: two
pumps can swap two messages; with cancelled calls an Embassy send may take an
earlier call's answer, and the actor can stop receiving until the next send; calls on the Unix bus do not
return when the server is shut down under them, and need not return to a client
that has torn a message; a program that uses both `recv_one` and
`recv_one_into` on one Tokio socket can wait for a payload that is there, since
the first clears the readiness the second waits for. Read from the code and not
checked: `recv_one` of the demux serves sockets in the order of registration,
so a peer that never pauses keeps later ones waiting.

## Not modelled

- Byte layouts (Cap'n Proto, the Unix wire format, kernel option structs): pure
  formatting. What a conversion changes is kept (`OnWire`, STmin).
- Malformed messages and mailbox errors other than timeouts in the file
  transfer. Bytes on the Unix bus that no client of the crate writes.
- Frame conversion, and sends and receives that pass through to the `socketcan`
  crate, in `embedded-can-socketcan`. `SocketCanFd` repeats the code of
  `SocketCan`; the Tokio adapters keep no settings and convert filters alike.
- A program that clears `O_NONBLOCK` behind the adapter's back through
  `as_inner_mut` after the adapter has seen it set: its try calls block.
- The STM32 adapters, the macros, the examples: no state beyond the hardware's
  or the compiler's.
