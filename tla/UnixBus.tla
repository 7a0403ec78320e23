------------------------------- MODULE UnixBus --------------------------------
(***************************************************************************)
(* The server of the Unix-domain CAN bus: an accept thread, one bus thread *)
(* that owns the registered clients, and a reader and a writer thread per  *)
(* connection, joined by unbounded mpsc channels.                          *)
(*                                                                         *)
(* A connection is named by its ClientId, which accept_loop never reuses.  *)
(* out[c] holds what was sent to c and not read by it: the channel of the  *)
(* writer thread, then the socket.  How far the writer has got only shows  *)
(* when the client hangs up (Close in UnixCan) or polls (TryRecv).         *)
(***************************************************************************)
EXTENDS Integers, Sequences, Functions, FiniteSets

CONSTANTS
    Conns,          \* connections
    MAX_FILTERS,    \* filters that fit MAX_PAYLOAD_LEN
    MayShutdown,    \* whether the owner of the BusServer shuts it down
    Tearing         \* clients whose send_timeout may give up within a message

VARIABLES
    acceptor,       \* accept_loop: "listening", "stopping" or "ended"
    bus,            \* bus_loop: "running" or "ended"
    cmds,           \* the channel of BusCommands
    clients,        \* the filters of each registered client
    pending,        \* pending_filters
    reader, writer, \* the threads of each connection
    sock,           \* the client's end: "none", "open" or "closed"
    up,             \* bytes to the server, as messages
    out,            \* ServerMsgs on their way to the client
    log             \* history: the frames in the order they were broadcast

serverVars == <<acceptor, bus, cmds, clients, pending, reader, writer, log>>

ASSUME UnixBusAssumption ==
    MAX_FILTERS \in Nat /\ MayShutdown \in BOOLEAN /\ Tearing \subseteq Conns

ServerInit ==
    /\ acceptor = "listening"
    /\ bus = "running"
    /\ cmds = <<>>
    /\ clients = <<>>
    /\ pending = <<>>
    /\ reader = [c \in Conns |-> "none"]
    /\ writer = [c \in Conns |-> "none"]
    /\ log = <<>>

Without(f, c) == Restrict(f, DOMAIN f \ {c})
With(f, c, v) == [d \in DOMAIN f \cup {c} |-> IF d = c THEN v ELSE f[d]]

\* cmd_tx.send: without effect once the bus thread is gone
Post(cmd) == cmds' = IF bus = "running" THEN Append(cmds, cmd) ELSE cmds

\* accept_loop and handle_client.  The AddClient is queued before the reader
\* thread exists.  A connection may still be accepted between the shutdown
\* signal and the loop's next look at it.
Accept(c) ==
    /\ acceptor # "ended"
    /\ sock[c] # "none" /\ reader[c] = "none"
    /\ Post([cmd |-> "add", id |-> c])
    /\ reader' = [reader EXCEPT ![c] = "running"]
    /\ writer' = [writer EXCEPT ![c] = "running"]
    /\ UNCHANGED <<acceptor, bus, clients, pending, log, sock, up, out>>

\* The reader thread runs: at the start of a message, or, after a client gave
\* up within one, in bytes that are not what they seem ("garbled") and, when
\* these ended with a message by chance, at the start of one again ("resumed").
Reading(c) == reader[c] \in {"running", "garbled", "resumed"}

\* The frame that bytes of two messages make up, with the identifier 0
Garbage(c) == [id |-> [kind |-> "standard", raw |-> 0], from |-> c, no |-> 0]

\* What a reader posts for garbled bytes: nothing, for an unknown type, a
\* frame, or filters that do not decode.  The number of a frame so decoded
\* has the message type in it and is none that a client waits for.
GarbledPosts(c) ==
    \/ UNCHANGED cmds
    \/ Post([cmd |-> "send", id |-> c, seq |-> 0, ack |-> FALSE, frame |-> Garbage(c)])
    \/ Post([cmd |-> "filters", id |-> c, seq |-> 0, filters |-> <<>>])

\* client_reader_loop: one message
ReaderLoop(c) ==
    /\ Reading(c)
    /\ up[c] # <<>>
    /\ LET m == Head(up[c]) IN
       \/ /\ reader[c] # "garbled" /\ m.cmd # "torn"
          /\ m.cmd = "filters" => Len(m.filters) <= MAX_FILTERS
          /\ Post(m)
          /\ UNCHANGED reader
       \/ /\ reader[c] # "garbled" /\ m.cmd = "torn"
          /\ reader' = [reader EXCEPT ![c] = "garbled"]
          /\ UNCHANGED cmds
       \/ /\ reader[c] = "garbled"
          /\ GarbledPosts(c)
          /\ \E next \in {"garbled", "resumed"} : reader' = [reader EXCEPT ![c] = next]
    /\ up' = [up EXCEPT ![c] = Tail(@)]
    /\ UNCHANGED <<acceptor, bus, clients, pending, writer, log, sock, out>>

\* client_reader_loop ends: at the end of the stream, at a payload beyond
\* MAX_PAYLOAD_LEN, or at a frame that does not decode
ReaderEnds(c) ==
    /\ Reading(c)
    /\ \/ up[c] = <<>> /\ sock[c] = "closed"
       \/ /\ up[c] # <<>>
          /\ \/ reader[c] = "garbled"
             \/ Head(up[c]).cmd = "filters" /\ Len(Head(up[c]).filters) > MAX_FILTERS
    /\ Post([cmd |-> "remove", id |-> c])
    /\ reader' = [reader EXCEPT ![c] = "ended"]
    /\ up' = [up EXCEPT ![c] = <<>>]
    /\ UNCHANGED <<acceptor, bus, clients, pending, writer, log, sock, out>>

\* Every Sender of the writer's channel is dropped.
SendersDropped(c) ==
    c \notin DOMAIN clients /\ [cmd |-> "add", id |-> c] \notin Range(cmds)

\* client_writer_loop ends: a write fails since the client hung up, or the
\* channel is empty and closed
WriterEnds(c) ==
    /\ writer[c] = "running"
    /\ \/ out[c] # <<>> /\ sock[c] = "closed" /\ Post([cmd |-> "remove", id |-> c])
       \/ out[c] = <<>> /\ SendersDropped(c) /\ UNCHANGED cmds
    /\ writer' = [writer EXCEPT ![c] = "ended"]
    /\ out' = [out EXCEPT ![c] = <<>>]
    /\ UNCHANGED <<acceptor, bus, clients, pending, reader, log, sock, up>>

\* filter_match, with masks that compare all bits or none
FilterMatch(filter, id) ==
    /\ filter.kind = filter.maskKind /\ filter.kind = id.kind
    /\ filter.mask = "none" \/ filter.raw = id.raw

\* filters_match
FiltersMatch(filters, frame) ==
    filters = <<>> \/ \E f \in Range(filters) : FilterMatch(f, frame.id)

\* client.tx.send of a sequence of messages to every client of a function
Sent(msgs) ==
    [c \in Conns |-> IF c \in DOMAIN msgs /\ writer[c] = "running"
                     THEN out[c] \o msgs[c] ELSE out[c]]

To(c, msgs) == [d \in {c} |-> msgs]

Ack(type, seq, status) == [type |-> type, seq |-> seq, status |-> status]

AddClient(cmd) ==
    LET c == cmd.id
        had == c \in DOMAIN pending
    IN  /\ clients' = With(clients, c, IF had THEN pending[c].filters ELSE <<>>)
        /\ pending' = Without(pending, c)
        /\ out' = Sent(To(c, <<[type |-> "hello"]>> \o
                     (IF had THEN <<Ack("filters_ack", pending[c].seq, "ok")>>
                             ELSE <<>>)))
        /\ UNCHANGED log

\* Mutant: the filters kept for a client that is gone stay.
RemoveClientOnly(cmd) ==
    /\ clients' = Without(clients, cmd.id)
    /\ UNCHANGED <<pending, out, log>>

RemoveClient(cmd) ==
    /\ clients' = Without(clients, cmd.id)
    /\ pending' = Without(pending, cmd.id)
    /\ UNCHANGED <<out, log>>

\* The frame to every client whose filters match it, the sender included.
Broadcast(frame) ==
    {c \in DOMAIN clients : FiltersMatch(clients[c], frame)}

\* Mutant: the sender is not counted.
AckStatusOffByOne == IF Cardinality(DOMAIN clients) <= 2 THEN "no_ack" ELSE "ok"

\* ack_status of a SendFrame that expects one
AckStatus == IF Cardinality(DOMAIN clients) <= 1 THEN "no_ack" ELSE "ok"

\* The number of a frame message, its place in the log, is history.
SendFrame(cmd) ==
    LET heard == Broadcast(cmd.frame)
        frame == [type |-> "frame", frame |-> cmd.frame, at |-> Len(log) + 1]
        acked == cmd.ack /\ cmd.id \in DOMAIN clients
    IN  /\ out' = Sent([c \in DOMAIN clients |->
                     (IF c \in heard THEN <<frame>> ELSE <<>>) \o
                     (IF acked /\ c = cmd.id
                      THEN <<Ack("ack", cmd.seq, AckStatus)>> ELSE <<>>)])
        /\ log' = Append(log, cmd.frame)
        /\ UNCHANGED <<clients, pending>>

SetFilters(cmd) ==
    LET c == cmd.id
        known == c \in DOMAIN clients
    IN  /\ UNCHANGED log
        /\ IF cmd.seq = 0
           THEN /\ out' = IF known THEN Sent(To(c, <<Ack("filters_ack", 0, "server_err")>>))
                                   ELSE out
                /\ UNCHANGED <<clients, pending>>
           ELSE \/ /\ known
                   /\ clients' = [clients EXCEPT ![c] = cmd.filters]
                   /\ out' = Sent(To(c, <<Ack("filters_ack", cmd.seq, "ok")>>))
                   /\ UNCHANGED pending
                \/ /\ ~known
                   /\ pending' = With(pending, c, [seq |-> cmd.seq, filters |-> cmd.filters])
                   /\ UNCHANGED <<clients, out>>

\* bus_loop and handle_command.  At a Shutdown the loop ends, which drops the
\* commands still queued and the clients.
BusLoop ==
    /\ bus = "running"
    /\ cmds # <<>>
    /\ LET cmd == Head(cmds) IN
       \/ /\ \/ cmd.cmd = "add" /\ AddClient(cmd)
             \/ cmd.cmd = "remove" /\ RemoveClient(cmd)
             \/ cmd.cmd = "send" /\ SendFrame(cmd)
             \/ cmd.cmd = "filters" /\ SetFilters(cmd)
          /\ cmds' = Tail(cmds)
          /\ UNCHANGED bus
       \/ /\ cmd.cmd = "shutdown"
          /\ bus' = "ended"
          /\ cmds' = <<>>
          /\ clients' = <<>>
          /\ pending' = <<>>
          /\ UNCHANGED <<out, log>>
    /\ UNCHANGED <<acceptor, reader, writer, sock, up>>

\* BusServer::shutdown, up to the joins
Shutdown ==
    /\ MayShutdown
    /\ acceptor = "listening"
    /\ acceptor' = "stopping"
    /\ Post([cmd |-> "shutdown"])
    /\ UNCHANGED <<bus, clients, pending, reader, writer, log, sock, up, out>>

\* accept_loop sees the shutdown signal, which closes the listener
AcceptLoopEnds ==
    /\ acceptor = "stopping"
    /\ acceptor' = "ended"
    /\ UNCHANGED <<bus, cmds, clients, pending, reader, writer, log, sock, up, out>>

ServerNext ==
    \/ \E c \in Conns : Accept(c) \/ ReaderLoop(c) \/ ReaderEnds(c) \/ WriterEnds(c)
    \/ BusLoop
    \/ Shutdown
    \/ AcceptLoopEnds
===============================================================================
