------------------------------- MODULE UnixCan --------------------------------
(***************************************************************************)
(* The clients of the Unix-domain CAN bus, composed with its server.       *)
(*                                                                         *)
(* A UnixCan is used by one thread (its methods take &mut self), so it is  *)
(* in at most one call.  A call that waits reads one message per step.     *)
(***************************************************************************)
EXTENDS UnixBus

CONSTANTS
    Ids,            \* identifiers of the frames sent: [kind, raw]
    FilterLists,    \* lists given to set_filters
    Ops,            \* the methods programs call, besides connect
    MaxRequests     \* bound on the messages all clients send

VARIABLES
    call,           \* the call of each client: what it waits for
    next_seq,
    filters,        \* the client's own copy of its filters
    rx_queue,       \* frames, as the messages that brought them
    result,         \* what the last acknowledged send returned
    peers,          \* history: other clients connected when the call began
    last,           \* history: place in the log of the last frame received
    since           \* history: length of the log when the filters took hold

canVars == <<call, next_seq, filters, rx_queue, result, peers, last, since>>
vars == <<serverVars, sock, up, out, canVars>>

ASSUME UnixCanAssumption ==
    /\ MaxRequests \in Nat
    /\ IsFiniteSet(Conns)
    /\ \A id \in Ids : id.kind \in {"standard", "extended"} /\ id.raw \in Nat

Idle == [op |-> "idle", seq |-> 0, deadline |-> FALSE]

Init ==
    /\ ServerInit
    /\ sock = [c \in Conns |-> "none"]
    /\ up = [c \in Conns |-> <<>>]
    /\ out = [c \in Conns |-> <<>>]
    /\ call = [c \in Conns |-> Idle]
    /\ next_seq = [c \in Conns |-> 1]
    /\ filters = [c \in Conns |-> <<>>]
    /\ rx_queue = [c \in Conns |-> <<>>]
    /\ result = [c \in Conns |-> "none"]
    /\ peers = [c \in Conns |-> {}]
    /\ last = [c \in Conns |-> 0]
    /\ since = [c \in Conns |-> 0]

\* c has come back from connect, and nobody has hung up.
Connected(c) ==
    sock[c] = "open" /\ call[c].op # "hello" /\ Reading(c)

\* Both threads have dropped their ends of the socket, or the listener was
\* closed with the connection in its backlog.
ServerGone(c) ==
    \/ reader[c] = "ended" /\ writer[c] = "ended"
    \/ reader[c] = "none" /\ acceptor = "ended"

-----------------------------------------------------------------------------
(* Connecting and hanging up *)

\* UnixCan::connect, up to wait_for_hello
Connect(c) ==
    /\ sock[c] = "none" /\ acceptor # "ended"
    /\ sock' = [sock EXCEPT ![c] = "open"]
    /\ call' = [call EXCEPT ![c] = [Idle EXCEPT !.op = "hello"]]
    /\ UNCHANGED <<serverVars, up, out, next_seq, filters, rx_queue, result, peers, last, since>>

\* The UnixCan is dropped, or its process ends in a call.  What the writer
\* thread has written is lost; the rest, if any, is what its next write fails
\* on.
Close(c) ==
    /\ sock[c] = "open"
    /\ sock' = [sock EXCEPT ![c] = "closed"]
    /\ call' = [call EXCEPT ![c] = Idle]
    /\ rx_queue' = [rx_queue EXCEPT ![c] = <<>>]
    /\ \E rest \in {<<>>, out[c]} : out' = [out EXCEPT ![c] = rest]
    /\ result' = [result EXCEPT ![c] = "none"]
    /\ UNCHANGED <<serverVars, up, next_seq, filters, peers, last, since>>

-----------------------------------------------------------------------------
(* Sending *)

Requests == FoldFunction(+, 0, next_seq) - Cardinality(Conns)

\* next_seq and write_msg_deadline, which fails when the server's ends are
\* closed; then the call waits with op, or is over
Request(c, op, deadline, msg) ==
    /\ sock[c] = "open" /\ call[c].op = "idle"
    /\ Requests < MaxRequests
    /\ next_seq' = [next_seq EXCEPT ![c] = @ + 1]
    /\ result' = [result EXCEPT ![c] = "none"]
    /\ peers' = [peers EXCEPT ![c] = {p \in Conns \ {c} : Connected(p)}]
    /\ \/ /\ ~ServerGone(c)
          /\ up' = [up EXCEPT ![c] = Append(@, msg)]
          /\ call' = [call EXCEPT ![c] = IF op = "idle" THEN Idle ELSE
                         [op |-> op, seq |-> next_seq[c], deadline |-> deadline]]
       \/ ServerGone(c) /\ UNCHANGED <<up, call>>
    /\ UNCHANGED <<serverVars, sock, out, rx_queue, last, since>>

\* encode_send_frame_into.  Frames sent are told apart by their payload.
SendMsg(c, id, ack) ==
    [cmd |-> "send", id |-> c, seq |-> next_seq[c], ack |-> ack,
     frame |-> [id |-> id, from |-> c, no |-> next_seq[c]]]

Send(c, id) ==
    Request(c, "ack", FALSE, SendMsg(c, id, TRUE)) /\ UNCHANGED filters

SendTimeout(c, id) ==
    Request(c, "ack", TRUE, SendMsg(c, id, TRUE)) /\ UNCHANGED filters

\* send_timeout gives up in write_msg_deadline with part of the message
\* written.
TornSend(c) ==
    /\ c \in Tearing
    /\ Request(c, "idle", TRUE, [cmd |-> "torn", id |-> c])
    /\ UNCHANGED filters

TrySend(c, id) ==
    Request(c, "idle", FALSE, SendMsg(c, id, FALSE)) /\ UNCHANGED filters

\* encode_filters: a mask of the other kind becomes a mask of no bits
OnWire(filter) ==
    IF filter.maskKind = filter.kind THEN filter
    ELSE [filter EXCEPT !.maskKind = filter.kind, !.mask = "none"]

FiltersMsg(c, list) ==
    [cmd |-> "filters", id |-> c, seq |-> next_seq[c],
     filters |-> [i \in DOMAIN list |-> OnWire(list[i])]]

\* Mutant: set_filters does not wait for the server.
SetFiltersUnanswered(c, list) ==
    /\ Request(c, "idle", FALSE, FiltersMsg(c, list))
    /\ filters' = [filters EXCEPT ![c] = list]

\* set_filters; also modify_filters, whose handle has the same effect when it
\* is dropped
SetClientFilters(c, list) ==
    /\ Request(c, "filters", FALSE, FiltersMsg(c, list))
    /\ filters' = [filters EXCEPT ![c] = list]

-----------------------------------------------------------------------------
(* Waiting: recv_decoded_msg_blocking and the loops around it *)

\* Mutant: a frame that arrives while something else is awaited is dropped.
SkipAny(c, m) ==
    UNCHANGED <<rx_queue, call, result, since>>

\* A message is read that the call does not wait for.  A frame goes to
\* rx_queue, anything else is skipped.
Skip(c, m) ==
    /\ rx_queue' = IF m.type = "frame"
                   THEN [rx_queue EXCEPT ![c] = Append(@, m)] ELSE rx_queue
    /\ UNCHANGED <<call, result, since>>

Return(c) == call' = [call EXCEPT ![c] = Idle]

WaitForHello(c, m) ==
    \/ /\ m.type = "hello"
       /\ Return(c)
       /\ since' = [since EXCEPT ![c] = Len(log)]
       /\ UNCHANGED <<rx_queue, result>>
    \/ m.type # "hello" /\ Skip(c, m)

\* Mutant: any acknowledgement will do.
WaitForAnyAck(c, m) ==
    \/ /\ m.type = "ack"
       /\ Return(c)
       /\ result' = [result EXCEPT ![c] = m.status]
       /\ UNCHANGED <<rx_queue, since>>
    \/ m.type # "ack" /\ Skip(c, m)

\* Mutant: a send waits until another client is there.
WaitForOkAck(c, m) ==
    LET mine == m.type = "ack" /\ m.seq = call[c].seq /\ m.status = "ok" IN
    \/ /\ mine
       /\ Return(c)
       /\ result' = [result EXCEPT ![c] = m.status]
       /\ UNCHANGED <<rx_queue, since>>
    \/ ~mine /\ Skip(c, m)

WaitForAck(c, m) ==
    LET mine == m.type = "ack" /\ m.seq = call[c].seq IN
    \/ /\ mine
       /\ Return(c)
       /\ result' = [result EXCEPT ![c] = m.status]
       /\ UNCHANGED <<rx_queue, since>>
    \/ ~mine /\ Skip(c, m)

\* Either status ends the call.
WaitForFiltersAck(c, m) ==
    LET mine == m.type = "filters_ack" /\ m.seq = call[c].seq IN
    \/ /\ mine
       /\ Return(c)
       /\ since' = [since EXCEPT ![c] = Len(log)]
       /\ UNCHANGED <<rx_queue, result>>
    \/ ~mine /\ Skip(c, m)

ReadMsg(c) ==
    /\ sock[c] = "open" /\ out[c] # <<>>
    /\ out' = [out EXCEPT ![c] = Tail(@)]
    /\ LET m == Head(out[c]) IN
       \/ call[c].op = "hello" /\ WaitForHello(c, m) /\ UNCHANGED last
       \/ call[c].op = "ack" /\ WaitForAck(c, m) /\ UNCHANGED last
       \/ call[c].op = "filters" /\ WaitForFiltersAck(c, m) /\ UNCHANGED last
       \/ /\ call[c].op = "recv" /\ m.type = "frame"
          /\ Return(c)
          /\ last' = [last EXCEPT ![c] = m.at]
          /\ UNCHANGED <<rx_queue, result, since>>
       \/ /\ call[c].op = "recv" /\ m.type # "frame"
          /\ UNCHANGED <<call, rx_queue, result, since, last>>
    /\ UNCHANGED <<serverVars, sock, up, next_seq, filters, peers>>

\* wait_readable times out in send_timeout or recv_timeout, or the stream is
\* at its end
GiveUp(c) ==
    /\ call[c].op # "idle"
    /\ \/ call[c].deadline
       \/ out[c] = <<>> /\ ServerGone(c)
    /\ Return(c)
    /\ UNCHANGED <<serverVars, sock, up, out, next_seq, filters, rx_queue, result, peers, last, since>>

-----------------------------------------------------------------------------
(* Receiving *)

\* rx_queue.pop_front
PopQueued(c) ==
    /\ rx_queue[c] # <<>>
    /\ last' = [last EXCEPT ![c] = Head(rx_queue[c]).at]
    /\ rx_queue' = [rx_queue EXCEPT ![c] = Tail(@)]
    /\ UNCHANGED <<call, out>>

\* Mutant: recv goes to the socket first.
RecvFromSocket(c, deadline) ==
    /\ sock[c] = "open" /\ call[c].op = "idle"
    /\ call' = [call EXCEPT ![c].op = "recv", ![c].deadline = deadline]
    /\ UNCHANGED <<rx_queue, last>>
    /\ UNCHANGED <<serverVars, sock, up, out, next_seq, filters, result, peers, since>>

\* recv and recv_timeout
Recv(c, deadline) ==
    /\ sock[c] = "open" /\ call[c].op = "idle"
    /\ \/ PopQueued(c)
       \/ /\ rx_queue[c] = <<>>
          /\ call' = [call EXCEPT ![c].op = "recv", ![c].deadline = deadline]
          /\ UNCHANGED <<rx_queue, last, out>>
    /\ UNCHANGED <<serverVars, sock, up, next_seq, filters, result, peers, since>>

\* try_recv: of the n messages the writer thread has written, those up to the
\* first frame are read
TryRecv(c) ==
    /\ sock[c] = "open" /\ call[c].op = "idle"
    /\ \/ PopQueued(c)
       \/ /\ rx_queue[c] = <<>>
          /\ \E n \in 1..Len(out[c]) :
                /\ \A i \in 1..(n - 1) : out[c][i].type # "frame"
                /\ last' = IF out[c][n].type = "frame"
                           THEN [last EXCEPT ![c] = out[c][n].at] ELSE last
                /\ out' = [out EXCEPT ![c] = SubSeq(@, n + 1, Len(@))]
          /\ UNCHANGED <<call, rx_queue>>
    /\ UNCHANGED <<serverVars, sock, up, next_seq, filters, result, peers, since>>

CanStep(c) == ReadMsg(c) \/ GiveUp(c)

CanCall(c) ==
    \/ Connect(c) \/ Close(c)
    \/ \E id \in Ids :
          \/ "send" \in Ops /\ Send(c, id)
          \/ "send_timeout" \in Ops /\ SendTimeout(c, id)
          \/ "try_send" \in Ops /\ TrySend(c, id)
    \/ "send_timeout" \in Ops /\ TornSend(c)
    \/ \E list \in FilterLists : "set_filters" \in Ops /\ SetClientFilters(c, list)
    \/ \E deadline \in BOOLEAN :
          (IF deadline THEN "recv_timeout" ELSE "recv") \in Ops /\ Recv(c, deadline)
    \/ "try_recv" \in Ops /\ TryRecv(c)

Next ==
    \/ ServerNext /\ UNCHANGED canVars
    \/ \E c \in Conns : CanStep(c) \/ CanCall(c)

Spec == Init /\ [][Next]_vars

\* The threads of the server run, and a call that waits is woken.  Nothing is
\* assumed of the calls a program makes: a client may never read again.
FairSpec ==
    /\ Spec
    /\ WF_vars(BusLoop /\ UNCHANGED canVars)
    /\ \A c \in Conns :
          /\ WF_vars(Accept(c) /\ UNCHANGED canVars)
          /\ WF_vars((ReaderLoop(c) \/ ReaderEnds(c)) /\ UNCHANGED canVars)
          /\ WF_vars(WriterEnds(c) /\ UNCHANGED canVars)
          /\ WF_vars(CanStep(c))

-----------------------------------------------------------------------------
(* Properties *)

IsFrame(m) == m.type = "frame"

\* What c has not received yet, oldest first.
Inbox(c) == rx_queue[c] \o out[c]

InForce(c) == [i \in DOMAIN filters[c] |-> OnWire(filters[c][i])]

\* c's filters are settled: it is connected and no update is on its way.
Settled(c) == Connected(c) /\ call[c].op # "filters"

\* All clients see the one order of the bus: what a client has not received
\* yet continues, without a repetition, where the frames it received ended,
\* whichever of rx_queue and the socket they wait in.
InBusOrder ==
    \A c \in Conns : sock[c] = "open" =>
        \A i \in DOMAIN Inbox(c) : IsFrame(Inbox(c)[i]) =>
            LET m == Inbox(c)[i] IN
            /\ m.at \in DOMAIN log /\ m.frame = log[m.at]
            /\ m.at > last[c]
            /\ \A j \in 1..(i - 1) : IsFrame(Inbox(c)[j]) => Inbox(c)[j].at < m.at

\* A client gets every frame broadcast since its connect or set_filters
\* returned that its filters accept, frames that arrived while it waited for
\* an acknowledgement, and its own frames, included.
NothingMissed ==
    \A c \in Conns : Settled(c) =>
        \A i \in DOMAIN log :
            i > since[c] /\ i > last[c] /\ FiltersMatch(InForce(c), log[i])
                => \E m \in Range(Inbox(c)) : IsFrame(m) /\ m.at = i

\* Once set_filters has returned, no frame arrives that the new filters
\* refuse: the acknowledgement travels behind the frames the old ones let in.
FiltersInForce ==
    \A c \in Conns : Settled(c) =>
        \A m \in Range(out[c]) : IsFrame(m) => FiltersMatch(InForce(c), m.frame)

\* A send that returned with an acknowledgement was broadcast, and its own
\* frame has arrived before it, if the filters of the sender accept it.  A
\* late acknowledgement of a send_timeout that gave up is not taken for it.
AckedWasSent ==
    \A c \in Conns : result[c] # "none" =>
        \E i \in DOMAIN log :
            /\ log[i].from = c /\ log[i].no = next_seq[c] - 1
            /\ FiltersMatch(InForce(c), log[i]) =>
                  last[c] >= i \/ \E m \in Range(rx_queue[c]) : m.at = i

\* NoAck means that no client that was connected when the send began has
\* stayed connected.
NoAckMeansAlone ==
    \A c \in Conns : result[c] = "no_ack" =>
        \A p \in peers[c] : ~Connected(p)

\* The bus thread forgets a client whose reader thread has ended, also when
\* it handles a SetFilters after the writer thread has had it removed.
GoneIsForgotten ==
    \A c \in Conns :
        /\ reader[c] = "ended"
        /\ \A i \in DOMAIN cmds : cmds[i].cmd # "shutdown" => cmds[i].id # c
        => c \notin DOMAIN clients \cup DOMAIN pending

\* While the server is not shut down, connect, send and set_filters return,
\* whether or not the other clients read, and whatever their connections do
\* when they have given up within a message.  After a client has done so
\* itself, a call of its own may wait forever.
CallsReturn ==
    \A c \in Conns :
        call[c].op \in {"hello", "ack", "filters"} ~>
            call[c].op = "idle" \/ reader[c] \in {"garbled", "resumed"}

\* Of the frames waiting for the bus, the one with the dominant identifier is
\* broadcast first.
DominantFirst ==
    [][log' # log =>
          \A i \in DOMAIN cmds :
              cmds[i].cmd = "send" /\ cmds[i].frame.id.kind = log'[Len(log')].id.kind
                  => log'[Len(log')].id.raw <= cmds[i].frame.id.raw]_vars
===============================================================================
