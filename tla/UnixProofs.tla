------------------------------ MODULE UnixProofs ------------------------------
(***************************************************************************)
(* The steps of the Unix bus as one connection sees them, for any clients, *)
(* identifiers, filter lists, programs and moments of shutdown, the shape  *)
(* of what they leave in the channels and sockets, and when the bus thread *)
(* knows a connection.                                                     *)
(***************************************************************************)
EXTENDS UnixCan, TLAPS

-------------------------------------------------------------------------------
(* Sequences *)

IsSeq(q) == q \in Seq(Range(q))

\* A sequence is what its indices say.
LEMMA SeqElems ==
    ASSUME NEW q, IsSeq(q)
    PROVE  /\ Len(q) \in Nat /\ DOMAIN q = 1..Len(q)
           /\ q # <<>> <=> Len(q) > 0
  BY DEF IsSeq

\* What has its elements in some set is a sequence.
LEMMA SeqOf ==
    ASSUME NEW S, NEW q \in Seq(S)
    PROVE  IsSeq(q)
<1>1. q = [i \in 1..Len(q) |-> q[i]] /\ Len(q) \in Nat /\ DOMAIN q = 1..Len(q)
  OBVIOUS
<1>2. \A i \in 1..Len(q) : q[i] \in Range(q)
  BY <1>1, Zenon DEF Range
<1> DEFINE R == Range(q)
<1> HIDE DEF R
<1>3. [i \in 1..Len(q) |-> q[i]] \in Seq(R)
  BY <1>1, <1>2 DEF R
<1> QED BY <1>1, <1>3, Zenon DEF IsSeq, R

\* The empty sequence.
LEMMA SeqNone == IsSeq(<<>>) /\ DOMAIN <<>> = {} /\ Len(<<>>) = 0
<1>1. <<>> \in Seq({}) /\ DOMAIN <<>> = {} /\ Len(<<>>) = 0
  OBVIOUS
<1>2. IsSeq(<<>>)
  BY <1>1, SeqOf, Zenon
<1> QED BY <1>1, <1>2, Zenon

\* A sequence with one element more.
LEMMA SeqAppend ==
    ASSUME NEW q, IsSeq(q), NEW x
    PROVE  /\ IsSeq(Append(q, x)) /\ Len(Append(q, x)) = Len(q) + 1
           /\ DOMAIN Append(q, x) = 1..(Len(q) + 1)
           /\ \A i \in DOMAIN q : Append(q, x)[i] = q[i]
           /\ Append(q, x)[Len(q) + 1] = x
<1> DEFINE S == Range(q) \cup {x}
<1>1. \A i \in DOMAIN q : q[i] \in S
  BY Zenon DEF Range
<1> HIDE DEF S
<1>2. q \in Seq(S)
  BY <1>1 DEF IsSeq
<1>3. x \in S
  BY Zenon DEF S
<1>4. Append(q, x) \in Seq(S)
  BY <1>2, <1>3
<1>5. IsSeq(Append(q, x))
  BY <1>4, SeqOf, Zenon
<1> QED BY <1>2, <1>3, <1>5

\* A sequence without its first element.
LEMMA SeqTail ==
    ASSUME NEW q, IsSeq(q), q # <<>>
    PROVE  /\ IsSeq(Tail(q)) /\ Len(Tail(q)) = Len(q) - 1
           /\ DOMAIN Tail(q) = 1..(Len(q) - 1)
           /\ 1 \in DOMAIN q /\ Head(q) = q[1]
           /\ \A i \in DOMAIN Tail(q) : i + 1 \in DOMAIN q /\ Tail(q)[i] = q[i + 1]
<1> DEFINE S == Range(q)
<1>1. q \in Seq(S)
  BY Zenon DEF IsSeq
<1> HIDE DEF S
<1>2. Tail(q) \in Seq(S)
  BY <1>1
<1>3. IsSeq(Tail(q))
  BY <1>2, SeqOf, Zenon
<1> QED BY <1>1, <1>3

\* What is left of a sequence after its first n elements.
LEMMA SeqSuffix ==
    ASSUME NEW q, IsSeq(q), NEW n \in 1..Len(q)
    PROVE  LET r == SubSeq(q, n + 1, Len(q)) IN
           /\ IsSeq(r) /\ Len(r) = Len(q) - n /\ DOMAIN r = 1..(Len(q) - n)
           /\ \A i \in DOMAIN r : i + n \in DOMAIN q /\ r[i] = q[i + n]
<1> DEFINE S == Range(q)
           r == SubSeq(q, n + 1, Len(q))
<1>1. q \in Seq(S)
  BY Zenon DEF IsSeq
<1> HIDE DEF S
<1>2. r \in Seq(S)
  BY <1>1
<1>3. IsSeq(r)
  BY <1>2, SeqOf, Zenon
<1> QED BY <1>1, <1>3, SMTT(20)

\* One sequence after another.
LEMMA SeqConcat ==
    ASSUME NEW S, NEW u \in Seq(S), NEW v \in Seq(S)
    PROVE  /\ u \o v \in Seq(S) /\ Len(u \o v) = Len(u) + Len(v)
           /\ \A i \in 1..Len(u) : (u \o v)[i] = u[i]
           /\ \A i \in 1..Len(v) : (u \o v)[Len(u) + i] = v[i]
  OBVIOUS

\* r is q, followed by x if A is <<x>>, and then by y if B is <<y>>.
Joined(q, x, A, y, B, r) ==
    /\ IsSeq(r) /\ Len(q) <= Len(r) /\ DOMAIN r = 1..Len(r)
    /\ \A i \in DOMAIN q : i \in DOMAIN r /\ r[i] = q[i]
    /\ A = <<x>> => Len(q) + 1 \in DOMAIN r /\ r[Len(q) + 1] = x
    /\ \A i \in DOMAIN r : i > Len(q) =>
          \/ A = <<x>> /\ i = Len(q) + 1 /\ r[i] = x
          \/ B = <<y>> /\ i = Len(r) /\ r[i] = y

\* One element, or none, and then another, or none.
LEMMA SeqJoined ==
    ASSUME NEW q, IsSeq(q), NEW x, NEW y,
           NEW A \in {<<>>, <<x>>}, NEW B \in {<<>>, <<y>>}
    PROVE  Joined(q, x, A, y, B, q \o (A \o B))
<1> DEFINE S == Range(q) \cup {x, y}
           r == q \o (A \o B)
<1> USE DEF Joined
<1>1. \A i \in DOMAIN q : q[i] \in S
  BY Zenon DEF Range
<1>3. x \in S /\ y \in S
  BY Zenon
<1> HIDE DEF S
<1>2. q \in Seq(S) /\ Len(q) \in Nat
  BY <1>1 DEF IsSeq
<1>4. A \in Seq(S) /\ B \in Seq(S)
  <2>1. <<>> \in Seq(S) /\ <<x>> \in Seq(S) /\ <<y>> \in Seq(S)
    BY <1>3
  <2> QED BY <2>1, Zenon
<1>5. A \o B \in Seq(S) /\ r \in Seq(S)
  BY <1>2, <1>4
<1>6. IsSeq(r)
  BY <1>5, SeqOf, Zenon
<1>7. CASE A = <<>>
  <2>1. A \o B = B
    BY <1>4, <1>7
  <2>2. CASE B = <<>>
    BY <1>2, <1>6, <1>7, <2>1, <2>2
  <2>3. CASE B = <<y>>
    BY <1>2, <1>6, <1>7, <2>1, <2>3, <1>3
  <2> QED BY <2>2, <2>3, Zenon
<1>8. CASE A = <<x>>
  <2>2. CASE B = <<>>
    <3>1. A \o B = <<x>>
      BY <1>4, <1>8, <2>2
    <3> QED BY <1>2, <1>6, <1>8, <3>1, <2>2, <1>3
  <2>3. CASE B = <<y>>
    <3>1. Len(A \o B) = 2 /\ (A \o B)[1] = x /\ (A \o B)[2] = y
      <4>1. Len(A) = 1 /\ Len(B) = 1 /\ A[1] = x /\ B[1] = y
        BY <1>8, <2>3, Zenon
      <4>2. /\ Len(A \o B) = Len(A) + Len(B)
            /\ \A i \in 1..Len(A) : (A \o B)[i] = A[i]
            /\ \A i \in 1..Len(B) : (A \o B)[Len(A) + i] = B[i]
        BY <1>4, SeqConcat
      <4> DEFINE AB == A \o B
      <4> HIDE DEF AB
      <4>3. Len(AB) = 2 /\ AB[1] = x /\ AB[2] = y
        BY <4>1, <4>2 DEF AB
      <4> QED BY <4>3, Zenon DEF AB
    <3> QED BY <1>2, <1>5, <1>6, <1>8, <3>1, <2>3, SMTT(20)
  <2> QED BY <2>2, <2>3, Zenon
<1> QED BY <1>7, <1>8, Zenon

-------------------------------------------------------------------------------
(* Shapes *)

Calls == [op : {"idle", "hello", "ack", "filters", "recv"}, seq : Nat,
          deadline : BOOLEAN]

\* A command of the client c, the one that registers it, and one that removes it.
About(m, c) == m.cmd # "shutdown" /\ m.id = c
Registers(m, c) == m = [cmd |-> "add", id |-> c]
Removes(m, c) == m.cmd = "remove" /\ m.id = c

\* The threads and the client of a connection.
ConnShape(c) ==
    /\ reader[c] \in {"none", "running", "garbled", "resumed", "ended"}
    /\ writer[c] \in {"none", "running", "ended"}
    /\ sock[c] \in {"none", "open", "closed"}
    /\ call[c] \in Calls /\ next_seq[c] \in Nat \ {0} /\ since[c] \in Nat
    /\ IsSeq(up[c]) /\ IsSeq(out[c]) /\ IsSeq(rx_queue[c])
    /\ \A i \in DOMAIN up[c] :
          up[c][i].id = c /\ up[c][i].cmd \in {"send", "filters", "torn"}

Command(m) ==
    /\ m.cmd # "shutdown" => m.id \in Conns
    /\ m.cmd = "add" => Registers(m, m.id)

\* The channels and sockets hold sequences, and nobody speaks for another.
Shapes ==
    /\ IsSeq(cmds) /\ IsSeq(log)
    /\ \A i \in DOMAIN cmds : Command(cmds[i])
    /\ DOMAIN clients \subseteq Conns
    /\ DOMAIN reader = Conns /\ DOMAIN writer = Conns /\ DOMAIN sock = Conns
    /\ DOMAIN up = Conns /\ DOMAIN out = Conns /\ DOMAIN call = Conns
    /\ DOMAIN next_seq = Conns /\ DOMAIN filters = Conns /\ DOMAIN rx_queue = Conns
    /\ DOMAIN result = Conns /\ DOMAIN peers = Conns /\ DOMAIN last = Conns
    /\ DOMAIN since = Conns
    /\ \A c \in Conns : ConnShape(c)

-------------------------------------------------------------------------------
(* What a step does to one connection *)

SameAsked(c) ==
    next_seq'[c] = next_seq[c] /\ filters'[c] = filters[c] /\ peers'[c] = peers[c]

SameCan(c) ==
    /\ call'[c] = call[c] /\ rx_queue'[c] = rx_queue[c] /\ result'[c] = result[c]
    /\ last'[c] = last[c] /\ since'[c] = since[c] /\ SameAsked(c)

SameThreads(c) == reader'[c] = reader[c] /\ writer'[c] = writer[c]

SameWire(c) == sock'[c] = sock[c] /\ up'[c] = up[c] /\ out'[c] = out[c]

SameBus == bus' = bus /\ clients' = clients /\ pending' = pending /\ log' = log

SameServer(c) == SameThreads(c) /\ SameBus /\ cmds' = cmds /\ acceptor' = acceptor

\* A step of another connection, or of the owner of the server.
Aside(c) ==
    /\ SameCan(c) /\ SameThreads(c) /\ SameWire(c) /\ SameBus
    /\ acceptor = "ended" => acceptor' = "ended"
    /\ cmds' = cmds \/ \E x : cmds' = Append(cmds, x) /\ ~About(x, c)

\* accept_loop takes the connection.
Accepted(c) ==
    /\ acceptor # "ended" /\ acceptor' = acceptor
    /\ sock[c] # "none" /\ reader[c] = "none"
    /\ reader'[c] = "running" /\ writer'[c] = "running"
    /\ SameCan(c) /\ SameWire(c) /\ SameBus
    /\ \E x : Registers(x, c) /\ Post(x)

\* The reader thread hands on a message, or what it takes for one.
Relays(c) ==
    /\ Reading(c) /\ reader'[c] \in {"running", "garbled", "resumed"}
    /\ up[c] # <<>> /\ up'[c] = Tail(up[c])
    /\ SameCan(c) /\ SameBus /\ acceptor' = acceptor
    /\ writer'[c] = writer[c] /\ sock'[c] = sock[c] /\ out'[c] = out[c]
    /\ \/ cmds' = cmds
       \/ \E x :
             /\ Post(x) /\ x.id = c /\ x.cmd \in {"send", "filters"}
             /\ \/ x = Head(up[c])
                \/ x.seq = 0 /\ (x.cmd = "send" => x.ack = FALSE)

\* The reader thread ends.
ReaderStops(c) ==
    /\ Reading(c) /\ reader'[c] = "ended"
    /\ up[c] = <<>> => sock[c] = "closed"
    /\ up'[c] = <<>>
    /\ SameCan(c) /\ SameBus /\ acceptor' = acceptor
    /\ writer'[c] = writer[c] /\ sock'[c] = sock[c] /\ out'[c] = out[c]
    /\ \E x : Removes(x, c) /\ Post(x)

\* The writer thread ends.
WriterStops(c) ==
    /\ writer[c] = "running" /\ writer'[c] = "ended" /\ reader'[c] = reader[c]
    /\ out'[c] = <<>> /\ sock'[c] = sock[c] /\ up'[c] = up[c]
    /\ SameCan(c) /\ SameBus /\ acceptor' = acceptor
    /\ \/ sock[c] = "closed" /\ \E x : Removes(x, c) /\ Post(x)
       \/ out[c] = <<>> /\ SendersDropped(c) /\ cmds' = cmds

Connects(c) ==
    /\ sock[c] = "none" /\ sock'[c] = "open" /\ acceptor # "ended"
    /\ call'[c] = [Idle EXCEPT !.op = "hello"]
    /\ SameServer(c) /\ SameAsked(c) /\ up'[c] = up[c] /\ out'[c] = out[c]
    /\ rx_queue'[c] = rx_queue[c] /\ result'[c] = result[c]
    /\ last'[c] = last[c] /\ since'[c] = since[c]

Closes(c) ==
    /\ sock[c] = "open" /\ sock'[c] = "closed" /\ call'[c] = Idle
    /\ rx_queue'[c] = <<>> /\ result'[c] = "none" /\ out'[c] \in {<<>>, out[c]}
    /\ SameServer(c) /\ SameAsked(c) /\ up'[c] = up[c]
    /\ last'[c] = last[c] /\ since'[c] = since[c]

\* The message that asks for new filters.
Update(c, seq, list) ==
    [cmd |-> "filters", id |-> c, seq |-> seq, filters |-> list]

\* The messages of a client, and what it waits for once it sent one.
Asked(c, op, deadline, msg) ==
    /\ msg.id = c
    /\ \/ /\ msg.cmd = "send" /\ msg.seq = next_seq[c]
          /\ msg.frame.from = c /\ msg.frame.no = next_seq[c]
          /\ msg.ack = (op = "ack") /\ op \in {"idle", "ack"}
          /\ filters'[c] = filters[c]
       \/ msg.cmd = "torn" /\ op = "idle" /\ filters'[c] = filters[c]
       \/ /\ msg.cmd = "filters" /\ op = "filters" /\ deadline = FALSE
          /\ msg = Update(c, next_seq[c], InForce(c)')

\* A client sends a request, or finds the server gone.
Asks(c) ==
    /\ sock[c] = "open" /\ call[c].op = "idle"
    /\ SameServer(c) /\ sock'[c] = sock[c] /\ out'[c] = out[c]
    /\ next_seq'[c] = next_seq[c] + 1 /\ result'[c] = "none"
    /\ peers'[c] = {p \in Conns \ {c} : Connected(p)}
    /\ rx_queue'[c] = rx_queue[c] /\ last'[c] = last[c] /\ since'[c] = since[c]
    /\ \E op \in {"idle", "ack", "filters"}, deadline \in BOOLEAN : \E msg :
          /\ Asked(c, op, deadline, msg)
          /\ \/ /\ ~ServerGone(c)
                /\ up'[c] = Append(up[c], msg)
                /\ call'[c] = IF op = "idle" THEN Idle ELSE
                      [op |-> op, seq |-> next_seq[c], deadline |-> deadline]
             \/ ServerGone(c) /\ up'[c] = up[c] /\ call'[c] = call[c]

\* The messages a call waits for.
Awaited(m, c) ==
    \/ call[c].op = "hello" /\ m.type = "hello"
    \/ call[c].op = "ack" /\ m.type = "ack" /\ m.seq = call[c].seq
    \/ call[c].op = "filters" /\ m.type = "filters_ack" /\ m.seq = call[c].seq

\* A call that waits reads the message m.
Takes(c, m) ==
    /\ sock[c] = "open" /\ out[c] # <<>> /\ m = Head(out[c])
    /\ out'[c] = Tail(out[c]) /\ sock'[c] = sock[c] /\ up'[c] = up[c]
    /\ SameServer(c) /\ SameAsked(c)
    /\ \/ /\ call[c].op \in {"hello", "ack", "filters"} /\ ~Awaited(m, c)
          /\ rx_queue'[c] = IF IsFrame(m) THEN Append(rx_queue[c], m) ELSE rx_queue[c]
          /\ call'[c] = call[c] /\ result'[c] = result[c]
          /\ since'[c] = since[c] /\ last'[c] = last[c]
       \/ /\ Awaited(m, c) /\ call'[c] = Idle
          /\ result'[c] = IF call[c].op = "ack" THEN m.status ELSE result[c]
          /\ since'[c] = IF call[c].op = "ack" THEN since[c] ELSE Len(log)
          /\ rx_queue'[c] = rx_queue[c] /\ last'[c] = last[c]
       \/ /\ call[c].op = "recv"
          /\ rx_queue'[c] = rx_queue[c]
          /\ result'[c] = result[c] /\ since'[c] = since[c]
          /\ call'[c] = IF IsFrame(m) THEN Idle ELSE call[c]
          /\ last'[c] = IF IsFrame(m) THEN m.at ELSE last[c]

GivesUp(c) ==
    /\ call[c].op # "idle" /\ call'[c] = Idle
    /\ call[c].deadline \/ (out[c] = <<>> /\ ServerGone(c))
    /\ SameServer(c) /\ SameAsked(c) /\ SameWire(c)
    /\ rx_queue'[c] = rx_queue[c] /\ result'[c] = result[c]
    /\ last'[c] = last[c] /\ since'[c] = since[c]

\* A program asks for a frame: one is queued, it waits for one, or it looks at
\* n messages.
Receives(c) ==
    /\ sock[c] = "open" /\ call[c].op = "idle"
    /\ SameServer(c) /\ SameAsked(c) /\ sock'[c] = sock[c] /\ up'[c] = up[c]
    /\ result'[c] = result[c] /\ since'[c] = since[c]
    /\ \/ /\ rx_queue[c] # <<>> /\ rx_queue'[c] = Tail(rx_queue[c])
          /\ last'[c] = Head(rx_queue[c]).at
          /\ call'[c] = call[c] /\ out'[c] = out[c]
       \/ /\ rx_queue[c] = <<>> /\ rx_queue'[c] = <<>> /\ call'[c] \in Calls
          /\ call'[c].op = "recv" /\ call'[c].seq = call[c].seq
          /\ last'[c] = last[c] /\ out'[c] = out[c]
       \/ /\ rx_queue[c] = <<>> /\ rx_queue'[c] = <<>> /\ call'[c] = call[c]
          /\ \E n \in 1..Len(out[c]) :
                /\ \A i \in 1..(n - 1) : ~IsFrame(out[c][i])
                /\ last'[c] = IF IsFrame(out[c][n]) THEN out[c][n].at ELSE last[c]
                /\ out'[c] = SubSeq(out[c], n + 1, Len(out[c]))

\* A step of the connection c, or of its client.
Own(c) ==
    \/ Accepted(c) \/ Relays(c) \/ ReaderStops(c) \/ WriterStops(c)
    \/ Connects(c) \/ Closes(c) \/ Asks(c) \/ GivesUp(c) \/ Receives(c)
    \/ \E m : Takes(c, m)

-------------------------------------------------------------------------------
(* What the bus thread does to one connection *)

SameReg(c) ==
    /\ c \in DOMAIN clients' <=> c \in DOMAIN clients
    /\ c \in DOMAIN clients => clients'[c] = clients[c]
    /\ c \in DOMAIN pending' <=> c \in DOMAIN pending
    /\ c \in DOMAIN pending => pending'[c] = pending[c]

\* The messages the bus thread sends to c, if its channel still has a receiver.
Gets(c, msgs) == out'[c] = IF writer[c] = "running" THEN out[c] \o msgs ELSE out[c]

\* The command at the head of the channel concerns another connection.
Elsewhere(c) ==
    /\ Head(cmds).cmd # "send" /\ ~About(Head(cmds), c) /\ SameReg(c)
    /\ out'[c] = out[c] /\ log' = log

Adds(c) ==
    /\ Registers(Head(cmds), c)
    /\ c \in DOMAIN clients' /\ c \notin DOMAIN pending'
    /\ clients'[c] = IF c \in DOMAIN pending THEN pending[c].filters ELSE <<>>
    /\ Gets(c, <<[type |-> "hello"]>> \o
           (IF c \in DOMAIN pending THEN <<Ack("filters_ack", pending[c].seq, "ok")>>
                                    ELSE <<>>))
    /\ log' = log

Drops(c) ==
    /\ Removes(Head(cmds), c)
    /\ c \notin DOMAIN clients' /\ c \notin DOMAIN pending'
    /\ out'[c] = out[c] /\ log' = log

Sets(c) ==
    /\ Head(cmds).cmd = "filters" /\ Head(cmds).id = c /\ log' = log
    /\ \/ /\ Head(cmds).seq = 0 /\ SameReg(c)
          /\ out'[c] = out[c] \/ Gets(c, <<Ack("filters_ack", 0, "server_err")>>)
       \/ /\ Head(cmds).seq # 0 /\ c \in DOMAIN clients
          /\ c \in DOMAIN clients' /\ clients'[c] = Head(cmds).filters
          /\ pending' = pending
          /\ Gets(c, <<Ack("filters_ack", Head(cmds).seq, "ok")>>)
       \/ /\ Head(cmds).seq # 0 /\ c \notin DOMAIN clients
          /\ clients' = clients /\ c \in DOMAIN pending'
          /\ pending'[c] = [seq |-> Head(cmds).seq, filters |-> Head(cmds).filters]
          /\ out'[c] = out[c]

Bcasts(c) ==
    /\ Head(cmds).cmd = "send"
    /\ clients' = clients /\ pending' = pending
    /\ log' = Append(log, Head(cmds).frame)
    /\ \/ c \notin DOMAIN clients /\ out'[c] = out[c]
       \/ /\ c \in DOMAIN clients
          /\ Gets(c, (IF FiltersMatch(clients[c], Head(cmds).frame)
                      THEN <<[type |-> "frame", frame |-> Head(cmds).frame,
                              at |-> Len(log) + 1]>> ELSE <<>>) \o
                     (IF Head(cmds).ack /\ Head(cmds).id = c
                      THEN <<Ack("ack", Head(cmds).seq, AckStatus)>> ELSE <<>>))

\* bus_loop handles the command at the head of its channel.
Handles(c) ==
    /\ bus = "running" /\ bus' = bus /\ cmds # <<>> /\ cmds' = Tail(cmds)
    /\ SameCan(c) /\ SameThreads(c) /\ acceptor' = acceptor
    /\ sock'[c] = sock[c] /\ up'[c] = up[c]
    /\ Elsewhere(c) \/ Adds(c) \/ Drops(c) \/ Sets(c) \/ Bcasts(c)

\* bus_loop ends.
Halts(c) ==
    /\ bus = "running" /\ bus' = "ended"
    /\ cmds' = <<>> /\ clients' = <<>> /\ pending' = <<>> /\ log' = log
    /\ SameCan(c) /\ SameThreads(c) /\ SameWire(c) /\ acceptor' = acceptor

-------------------------------------------------------------------------------
(* The steps of the specification *)

\* accept_loop takes a connection.
LEMMA AcceptStep ==
    ASSUME Shapes, NEW c \in Conns, Accept(c), UNCHANGED canVars
    PROVE  Accepted(c) /\ \A d \in Conns \ {c} : Aside(d)
<1> DEFINE x == [cmd |-> "add", id |-> c]
<1>1. x.id = c /\ Registers(x, c)
  BY Zenon DEF Registers
<1> HIDE DEF x
<1>2. /\ acceptor # "ended" /\ sock[c] # "none" /\ reader[c] = "none"
      /\ acceptor' = acceptor /\ Post(x) /\ SameBus
      /\ \A d \in Conns : SameCan(d) /\ SameWire(d)
  BY Zenon DEF Accept, x, canVars, SameCan, SameAsked, SameWire, SameBus
<1>3. /\ reader'[c] = "running" /\ writer'[c] = "running"
      /\ \A d \in Conns \ {c} : SameThreads(d)
  BY Zenon DEF Accept, Shapes, SameThreads
<1> QED BY <1>1, <1>2, <1>3, Zenon DEF Aside, Accepted, Post, About

\* client_reader_loop reads a message.
LEMMA ReaderLoopStep ==
    ASSUME Shapes, NEW c \in Conns, ReaderLoop(c), UNCHANGED canVars
    PROVE  Relays(c) /\ \A d \in Conns \ {c} : Aside(d)
<1> DEFINE m == Head(up[c])
           s == [cmd |-> "send", id |-> c, seq |-> 0, ack |-> FALSE, frame |-> Garbage(c)]
           l == [cmd |-> "filters", id |-> c, seq |-> 0, filters |-> <<>>]
<1>1. /\ s.id = c /\ s.cmd = "send" /\ s.seq = 0 /\ s.ack = FALSE
      /\ l.id = c /\ l.cmd = "filters" /\ l.seq = 0
  BY Zenon
<1>2. up[c] # <<>> /\ m.id = c /\ m.cmd \in {"send", "filters", "torn"}
  <2>1. up[c] # <<>>
    BY Zenon DEF ReaderLoop
  <2>2. m = up[c][1] /\ 1 \in DOMAIN up[c]
    BY <2>1, SeqElems DEF Shapes, ConnShape
  <2> HIDE DEF m
  <2> QED BY <2>1, <2>2 DEF Shapes, ConnShape
<1>3. /\ Reading(c) /\ SameBus /\ acceptor' = acceptor
      /\ \A d \in Conns : SameCan(d) /\ sock'[d] = sock[d] /\ out'[d] = out[d]
                          /\ writer'[d] = writer[d]
  BY Zenon DEF ReaderLoop, canVars, SameCan, SameAsked, SameBus
<1>4. /\ up'[c] = Tail(up[c]) /\ reader'[c] \in {"running", "garbled", "resumed"}
      /\ \A d \in Conns \ {c} : up'[d] = up[d] /\ reader'[d] = reader[d]
  BY Zenon DEF ReaderLoop, Shapes, Reading
<1>5. cmds' = cmds \/ (m.cmd # "torn" /\ Post(m)) \/ Post(s) \/ Post(l)
  BY Zenon DEF ReaderLoop, GarbledPosts
<1> HIDE DEF m, s, l
<1>6. cmds' = cmds \/ \E x :
             /\ Post(x) /\ x.id = c /\ x.cmd \in {"send", "filters"}
             /\ \/ x = m
                \/ x.seq = 0 /\ (x.cmd = "send" => x.ack = FALSE)
  BY <1>1, <1>2, <1>5, Zenon
<1> QED
  <2>1. Relays(c)
    BY <1>2, <1>3, <1>4, <1>6, Zenon DEF Relays, m
  <2>2. \A d \in Conns \ {c} : Aside(d)
    BY <1>3, <1>4, <1>6, Zenon DEF Aside, Post, About, SameThreads, SameWire
  <2> QED BY <2>1, <2>2, Zenon

\* client_reader_loop ends.
LEMMA ReaderEndsStep ==
    ASSUME Shapes, NEW c \in Conns, ReaderEnds(c), UNCHANGED canVars
    PROVE  ReaderStops(c) /\ \A d \in Conns \ {c} : Aside(d)
<1> DEFINE x == [cmd |-> "remove", id |-> c]
<1>1. x.id = c /\ Removes(x, c)
  BY Zenon DEF Removes
<1> HIDE DEF x
<1>2. /\ Reading(c) /\ SameBus /\ acceptor' = acceptor /\ Post(x)
      /\ up[c] = <<>> => sock[c] = "closed"
      /\ \A d \in Conns : SameCan(d) /\ sock'[d] = sock[d] /\ out'[d] = out[d]
                          /\ writer'[d] = writer[d]
  BY Zenon DEF ReaderEnds, canVars, SameCan, SameAsked, SameBus, x
<1>3. /\ up'[c] = <<>> /\ reader'[c] = "ended"
      /\ \A d \in Conns \ {c} : up'[d] = up[d] /\ reader'[d] = reader[d]
  BY Zenon DEF ReaderEnds, Shapes
<1> QED
  BY <1>1, <1>2, <1>3, Zenon DEF Aside, ReaderStops, Post, About, SameThreads, SameWire

\* client_writer_loop ends.
LEMMA WriterEndsStep ==
    ASSUME Shapes, NEW c \in Conns, WriterEnds(c), UNCHANGED canVars
    PROVE  WriterStops(c) /\ \A d \in Conns \ {c} : Aside(d)
<1> DEFINE x == [cmd |-> "remove", id |-> c]
<1>1. x.id = c /\ Removes(x, c)
  BY Zenon DEF Removes
<1> HIDE DEF x
<1>2. /\ writer[c] = "running" /\ SameBus /\ acceptor' = acceptor
      /\ \/ sock[c] = "closed" /\ Post(x)
         \/ out[c] = <<>> /\ SendersDropped(c) /\ cmds' = cmds
      /\ \A d \in Conns : SameCan(d) /\ sock'[d] = sock[d] /\ up'[d] = up[d]
                          /\ reader'[d] = reader[d]
  BY Zenon DEF WriterEnds, canVars, SameCan, SameAsked, SameBus, x
<1>3. /\ out'[c] = <<>> /\ writer'[c] = "ended"
      /\ \A d \in Conns \ {c} : out'[d] = out[d] /\ writer'[d] = writer[d]
  BY Zenon DEF WriterEnds, Shapes
<1> QED
  BY <1>1, <1>2, <1>3, Zenon DEF Aside, WriterStops, Post, About, SameThreads, SameWire

\* UnixCan::connect.
LEMMA ConnectStep ==
    ASSUME Shapes, NEW c \in Conns, Connect(c)
    PROVE  Connects(c) /\ \A d \in Conns \ {c} : Aside(d)
<1>1. /\ SameBus /\ acceptor' = acceptor /\ cmds' = cmds
      /\ sock[c] = "none" /\ acceptor # "ended"
      /\ \A d \in Conns :
            /\ SameThreads(d) /\ SameAsked(d) /\ up'[d] = up[d] /\ out'[d] = out[d]
            /\ rx_queue'[d] = rx_queue[d] /\ result'[d] = result[d]
            /\ last'[d] = last[d] /\ since'[d] = since[d]
  BY Zenon DEF Connect, serverVars, SameBus, SameThreads, SameAsked
<1>2. /\ sock'[c] = "open" /\ call'[c] = [Idle EXCEPT !.op = "hello"]
      /\ \A d \in Conns \ {c} : sock'[d] = sock[d] /\ call'[d] = call[d]
  BY Zenon DEF Connect, Shapes
<1> QED
  BY <1>1, <1>2, Zenon DEF Connects, Aside, SameServer, SameCan, SameWire

\* A UnixCan is dropped.
LEMMA CloseStep ==
    ASSUME Shapes, NEW c \in Conns, Close(c)
    PROVE  Closes(c) /\ \A d \in Conns \ {c} : Aside(d)
<1>1. /\ SameBus /\ acceptor' = acceptor /\ cmds' = cmds /\ sock[c] = "open"
      /\ \A d \in Conns :
            /\ SameThreads(d) /\ SameAsked(d) /\ up'[d] = up[d]
            /\ last'[d] = last[d] /\ since'[d] = since[d]
  BY Zenon DEF Close, serverVars, SameBus, SameThreads, SameAsked
<1>2. /\ sock'[c] = "closed" /\ call'[c] = Idle /\ rx_queue'[c] = <<>>
      /\ result'[c] = "none"
      /\ \A d \in Conns \ {c} : /\ sock'[d] = sock[d] /\ call'[d] = call[d]
                                /\ rx_queue'[d] = rx_queue[d] /\ result'[d] = result[d]
  BY Zenon DEF Close, Shapes
<1>3. out'[c] \in {<<>>, out[c]} /\ \A d \in Conns \ {c} : out'[d] = out[d]
  BY Zenon DEF Close, Shapes
<1> QED
  BY <1>1, <1>2, <1>3, Zenon DEF Closes, Aside, SameServer, SameCan, SameWire

\* A message is written, with whatever becomes of the client's own filters.
LEMMA RequestStep ==
    ASSUME Shapes, NEW c \in Conns, NEW op \in {"idle", "ack", "filters"},
           NEW deadline \in BOOLEAN, NEW msg, Request(c, op, deadline, msg),
           Asked(c, op, deadline, msg),
           \A d \in Conns \ {c} : filters'[d] = filters[d]
    PROVE  Asks(c) /\ \A d \in Conns \ {c} : Aside(d)
<1>1. /\ SameBus /\ acceptor' = acceptor /\ cmds' = cmds
      /\ sock[c] = "open" /\ call[c].op = "idle"
      /\ \A d \in Conns :
            /\ SameThreads(d) /\ sock'[d] = sock[d] /\ out'[d] = out[d]
            /\ rx_queue'[d] = rx_queue[d] /\ last'[d] = last[d] /\ since'[d] = since[d]
  BY Zenon DEF Request, serverVars, SameBus, SameThreads
<1>2. /\ next_seq'[c] = next_seq[c] + 1 /\ result'[c] = "none"
      /\ peers'[c] = {p \in Conns \ {c} : Connected(p)}
      /\ \A d \in Conns \ {c} : /\ next_seq'[d] = next_seq[d] /\ result'[d] = result[d]
                                /\ peers'[d] = peers[d]
  BY Zenon DEF Request, Shapes
<1>3. \/ /\ ~ServerGone(c)
         /\ up'[c] = Append(up[c], msg)
         /\ call'[c] = IF op = "idle" THEN Idle ELSE
               [op |-> op, seq |-> next_seq[c], deadline |-> deadline]
      \/ ServerGone(c) /\ up'[c] = up[c] /\ call'[c] = call[c]
  BY Zenon DEF Request, Shapes
<1>4. \A d \in Conns \ {c} : up'[d] = up[d] /\ call'[d] = call[d]
  BY Zenon DEF Request, Shapes
<1>5. Asks(c)
  BY <1>1, <1>2, <1>3, Zenon DEF Asks, SameServer
<1> QED
  BY <1>1, <1>2, <1>4, <1>5, Zenon DEF Aside, SameCan, SameAsked, SameWire

\* The requests of a client.
LEMMA AskStep ==
    ASSUME Shapes, NEW c \in Conns,
           \/ \E id \in Ids : Send(c, id) \/ SendTimeout(c, id) \/ TrySend(c, id)
           \/ TornSend(c)
           \/ \E list \in FilterLists : SetClientFilters(c, list)
    PROVE  Asks(c) /\ \A d \in Conns \ {c} : Aside(d)
<1>1. ASSUME NEW id \in Ids, NEW ack \in BOOLEAN, NEW op \in {"idle", "ack"},
             ack = (op = "ack"), UNCHANGED filters,
             NEW deadline \in BOOLEAN, Request(c, op, deadline, SendMsg(c, id, ack))
      PROVE  Asks(c) /\ \A d \in Conns \ {c} : Aside(d)
  <2>1. Asked(c, op, deadline, SendMsg(c, id, ack))
    BY <1>1, Zenon DEF Asked, SendMsg
  <2> QED BY <1>1, <2>1, RequestStep
<1>2. CASE \E id \in Ids : Send(c, id) \/ SendTimeout(c, id) \/ TrySend(c, id)
  BY <1>1, <1>2, Zenon DEF Send, SendTimeout, TrySend
<1>3. CASE TornSend(c)
  <2>1. Asked(c, "idle", TRUE, [cmd |-> "torn", id |-> c])
    BY <1>3, Zenon DEF Asked, TornSend
  <2> QED BY <1>3, <2>1, RequestStep, Zenon DEF TornSend
<1>4. ASSUME NEW list \in FilterLists, SetClientFilters(c, list)
      PROVE  Asks(c) /\ \A d \in Conns \ {c} : Aside(d)
  <2>1. filters'[c] = list /\ \A d \in Conns \ {c} : filters'[d] = filters[d]
    BY <1>4, Zenon DEF SetClientFilters, Shapes
  <2>2. FiltersMsg(c, list) = Update(c, next_seq[c], InForce(c)')
    BY <2>1, Zenon DEF FiltersMsg, InForce, Update
  <2>3. FiltersMsg(c, list).id = c /\ FiltersMsg(c, list).cmd = "filters"
    BY Zenon DEF FiltersMsg
  <2>4. Asked(c, "filters", FALSE, FiltersMsg(c, list))
    BY <2>2, <2>3, Zenon DEF Asked
  <2> QED BY <1>4, <2>1, <2>4, RequestStep, Zenon DEF SetClientFilters
<1> QED BY <1>2, <1>3, <1>4, Zenon

\* A call that waits reads a message.
LEMMA ReadStep ==
    ASSUME Shapes, NEW c \in Conns, ReadMsg(c)
    PROVE  Takes(c, Head(out[c])) /\ \A d \in Conns \ {c} : Aside(d)
<1> DEFINE m == Head(out[c])
<1>1. /\ SameBus /\ acceptor' = acceptor /\ cmds' = cmds
      /\ sock[c] = "open" /\ out[c] # <<>>
      /\ \A d \in Conns : SameThreads(d) /\ SameAsked(d) /\ sock'[d] = sock[d]
                          /\ up'[d] = up[d]
  BY Zenon DEF ReadMsg, serverVars, SameBus, SameThreads, SameAsked
<1>2. out'[c] = Tail(out[c]) /\ \A d \in Conns \ {c} : out'[d] = out[d]
  BY Zenon DEF ReadMsg, Shapes
<1>3. \A d \in Conns \ {c} :
         /\ call'[d] = call[d] /\ rx_queue'[d] = rx_queue[d] /\ result'[d] = result[d]
         /\ last'[d] = last[d] /\ since'[d] = since[d]
  BY Zenon DEF ReadMsg, Shapes, WaitForHello, WaitForAck, WaitForFiltersAck, Skip, Return
<1>4. ASSUME Skip(c, m)
      PROVE  /\ rx_queue'[c] = IF IsFrame(m) THEN Append(rx_queue[c], m) ELSE rx_queue[c]
             /\ call'[c] = call[c] /\ result'[c] = result[c] /\ since'[c] = since[c]
  BY <1>4, Zenon DEF Shapes, Skip, IsFrame
<1>5. ASSUME Return(c)
      PROVE  call'[c] = Idle
  BY <1>5, Zenon DEF Shapes, Return
<1>6. \/ /\ call[c].op \in {"hello", "ack", "filters"} /\ ~Awaited(m, c)
         /\ Skip(c, m) /\ last' = last
      \/ /\ Awaited(m, c) /\ Return(c) /\ last' = last /\ rx_queue' = rx_queue
         /\ result' = IF call[c].op = "ack" THEN [result EXCEPT ![c] = m.status] ELSE result
         /\ since' = IF call[c].op = "ack" THEN since ELSE [since EXCEPT ![c] = Len(log)]
      \/ /\ call[c].op = "recv" /\ IsFrame(m) /\ Return(c)
         /\ last' = [last EXCEPT ![c] = m.at]
         /\ rx_queue' = rx_queue /\ result' = result /\ since' = since
      \/ /\ call[c].op = "recv" /\ ~IsFrame(m) /\ call' = call /\ last' = last
         /\ rx_queue' = rx_queue /\ result' = result /\ since' = since
  <2> HIDE DEF m
  <2>1. \/ call[c].op = "hello" /\ WaitForHello(c, m) /\ last' = last
        \/ call[c].op = "ack" /\ WaitForAck(c, m) /\ last' = last
        \/ call[c].op = "filters" /\ WaitForFiltersAck(c, m) /\ last' = last
        \/ /\ call[c].op = "recv" /\ IsFrame(m) /\ Return(c)
           /\ last' = [last EXCEPT ![c] = m.at]
           /\ rx_queue' = rx_queue /\ result' = result /\ since' = since
        \/ /\ call[c].op = "recv" /\ ~IsFrame(m) /\ call' = call /\ last' = last
           /\ rx_queue' = rx_queue /\ result' = result /\ since' = since
    BY Zenon DEF ReadMsg, IsFrame, m
  <2>2. CASE call[c].op = "hello" /\ WaitForHello(c, m) /\ last' = last
    BY <2>2, Zenon DEF WaitForHello, Awaited
  <2>3. CASE call[c].op = "ack" /\ WaitForAck(c, m) /\ last' = last
    BY <2>3, Zenon DEF WaitForAck, Awaited
  <2>4. CASE call[c].op = "filters" /\ WaitForFiltersAck(c, m) /\ last' = last
    BY <2>4, Zenon DEF WaitForFiltersAck, Awaited
  <2> QED BY <2>1, <2>2, <2>3, <2>4, Zenon
<1> HIDE DEF m
<1>7. \/ /\ call[c].op \in {"hello", "ack", "filters"} /\ ~Awaited(m, c)
         /\ rx_queue'[c] = IF IsFrame(m) THEN Append(rx_queue[c], m) ELSE rx_queue[c]
         /\ call'[c] = call[c] /\ result'[c] = result[c]
         /\ since'[c] = since[c] /\ last'[c] = last[c]
      \/ /\ Awaited(m, c) /\ call'[c] = Idle
         /\ result'[c] = IF call[c].op = "ack" THEN m.status ELSE result[c]
         /\ since'[c] = IF call[c].op = "ack" THEN since[c] ELSE Len(log)
         /\ rx_queue'[c] = rx_queue[c] /\ last'[c] = last[c]
      \/ /\ call[c].op = "recv"
         /\ rx_queue'[c] = rx_queue[c]
         /\ result'[c] = result[c] /\ since'[c] = since[c]
         /\ call'[c] = IF IsFrame(m) THEN Idle ELSE call[c]
         /\ last'[c] = IF IsFrame(m) THEN m.at ELSE last[c]
  BY <1>4, <1>5, <1>6, Zenon DEF Shapes
<1>8. Takes(c, m)
  BY <1>1, <1>2, <1>7, Zenon DEF Takes, SameServer, m
<1> QED
  BY <1>1, <1>2, <1>3, <1>8, Zenon DEF Aside, SameCan, SameWire, m

\* A call ends with an error.
LEMMA GiveUpStep ==
    ASSUME Shapes, NEW c \in Conns, GiveUp(c)
    PROVE  GivesUp(c) /\ \A d \in Conns \ {c} : Aside(d)
<1>1. /\ SameBus /\ acceptor' = acceptor /\ cmds' = cmds /\ call[c].op # "idle"
      /\ call[c].deadline \/ (out[c] = <<>> /\ ServerGone(c))
      /\ \A d \in Conns :
            /\ SameThreads(d) /\ SameAsked(d) /\ SameWire(d)
            /\ rx_queue'[d] = rx_queue[d] /\ result'[d] = result[d]
            /\ last'[d] = last[d] /\ since'[d] = since[d]
  BY Zenon DEF GiveUp, serverVars, SameBus, SameThreads, SameAsked, SameWire
<1>2. call'[c] = Idle /\ \A d \in Conns \ {c} : call'[d] = call[d]
  BY Zenon DEF GiveUp, Return, Shapes
<1> QED
  BY <1>1, <1>2, Zenon DEF GivesUp, Aside, SameServer, SameCan

\* recv, recv_timeout and try_recv.
LEMMA ReceiveStep ==
    ASSUME Shapes, NEW c \in Conns,
           (\E deadline \in BOOLEAN : Recv(c, deadline)) \/ TryRecv(c)
    PROVE  Receives(c) /\ \A d \in Conns \ {c} : Aside(d)
<1>1. /\ SameBus /\ acceptor' = acceptor /\ cmds' = cmds
      /\ sock[c] = "open" /\ call[c].op = "idle"
      /\ \A d \in Conns :
            /\ SameThreads(d) /\ SameAsked(d) /\ sock'[d] = sock[d] /\ up'[d] = up[d]
            /\ result'[d] = result[d] /\ since'[d] = since[d]
  BY Zenon DEF Recv, TryRecv, serverVars, SameBus, SameThreads, SameAsked
<1>2. \A d \in Conns \ {c} :
         /\ call'[d] = call[d] /\ rx_queue'[d] = rx_queue[d]
         /\ out'[d] = out[d] /\ last'[d] = last[d]
  BY DEF Recv, TryRecv, PopQueued, Shapes
<1>3. ASSUME PopQueued(c)
      PROVE  /\ rx_queue[c] # <<>> /\ rx_queue'[c] = Tail(rx_queue[c])
             /\ last'[c] = Head(rx_queue[c]).at
             /\ call'[c] = call[c] /\ out'[c] = out[c]
  BY <1>3, Zenon DEF PopQueued, Shapes
<1>4. ASSUME NEW deadline \in BOOLEAN, Recv(c, deadline), ~PopQueued(c)
      PROVE  /\ rx_queue[c] = <<>> /\ rx_queue'[c] = <<>> /\ call'[c] \in Calls
             /\ call'[c].op = "recv" /\ call'[c].seq = call[c].seq
             /\ last'[c] = last[c] /\ out'[c] = out[c]
  <2>1. /\ rx_queue[c] = <<>>
        /\ call' = [call EXCEPT ![c].op = "recv", ![c].deadline = deadline]
        /\ rx_queue' = rx_queue /\ last' = last /\ out' = out
    BY <1>4, Zenon DEF Recv
  <2>2. call'[c] = [call[c] EXCEPT !.op = "recv", !.deadline = deadline]
    BY <2>1, Zenon DEF Shapes
  <2>3. call[c] \in Calls
    BY Zenon DEF Shapes, ConnShape
  <2>4. /\ call'[c] \in Calls /\ call'[c].op = "recv" /\ call'[c].seq = call[c].seq
    BY <2>2, <2>3, Zenon DEF Calls
  <2> QED BY <2>1, <2>4, Zenon
<1>5. ASSUME TryRecv(c), ~PopQueued(c)
      PROVE  /\ rx_queue[c] = <<>> /\ rx_queue'[c] = <<>> /\ call'[c] = call[c]
             /\ \E n \in 1..Len(out[c]) :
                   /\ \A i \in 1..(n - 1) : ~IsFrame(out[c][i])
                   /\ last'[c] = IF IsFrame(out[c][n]) THEN out[c][n].at ELSE last[c]
                   /\ out'[c] = SubSeq(out[c], n + 1, Len(out[c]))
  <2>1. /\ rx_queue[c] = <<>> /\ rx_queue' = rx_queue /\ call' = call
        /\ \E n \in 1..Len(out[c]) :
              /\ \A i \in 1..(n - 1) : ~IsFrame(out[c][i])
              /\ last' = IF IsFrame(out[c][n]) THEN [last EXCEPT ![c] = out[c][n].at]
                         ELSE last
              /\ out' = [out EXCEPT ![c] = SubSeq(@, n + 1, Len(@))]
    BY <1>5, Zenon DEF TryRecv, IsFrame
  <2>2. PICK n \in 1..Len(out[c]) :
              /\ \A i \in 1..(n - 1) : ~IsFrame(out[c][i])
              /\ last' = IF IsFrame(out[c][n]) THEN [last EXCEPT ![c] = out[c][n].at]
                         ELSE last
              /\ out' = [out EXCEPT ![c] = SubSeq(@, n + 1, Len(@))]
    BY <2>1, Zenon
  <2>3. /\ last'[c] = IF IsFrame(out[c][n]) THEN out[c][n].at ELSE last[c]
        /\ out'[c] = SubSeq(out[c], n + 1, Len(out[c]))
    <3>1. c \in DOMAIN out /\ c \in DOMAIN last
      BY Zenon DEF Shapes
    <3> QED BY <2>2, <3>1, Zenon
  <2> QED BY <2>1, <2>2, <2>3, Zenon
<1>6. Receives(c)
  BY <1>1, <1>3, <1>4, <1>5, Zenon DEF Receives, SameServer
<1> QED
  BY <1>1, <1>2, <1>6, Zenon DEF Aside, SameCan, SameWire

\* The bus thread sends to c only.
LEMMA SentTo ==
    ASSUME Shapes, NEW c \in Conns, NEW msgs, out' = Sent(To(c, msgs))
    PROVE  Gets(c, msgs) /\ \A d \in Conns \ {c} : out'[d] = out[d]
BY Zenon DEF Sent, To, Gets, Shapes

\* A client is put in, or taken out of, a map.
LEMMA WithOne ==
    ASSUME NEW f, NEW c, NEW v
    PROVE  /\ c \in DOMAIN With(f, c, v) /\ With(f, c, v)[c] = v
           /\ \A d : d # c => /\ d \in DOMAIN With(f, c, v) <=> d \in DOMAIN f
                              /\ d \in DOMAIN f => With(f, c, v)[d] = f[d]
BY Zenon DEF With

LEMMA WithoutOne ==
    ASSUME NEW f, NEW c
    PROVE  /\ c \notin DOMAIN Without(f, c)
           /\ \A d : d # c => /\ d \in DOMAIN Without(f, c) <=> d \in DOMAIN f
                              /\ d \in DOMAIN f => Without(f, c)[d] = f[d]
BY Zenon DEF Without, Restrict

\* bus_loop handles a command, and nothing else changes.
LEMMA HandleStep ==
    ASSUME Shapes, NEW d \in Conns, BusLoop, UNCHANGED canVars, Head(cmds).cmd # "shutdown"
    PROVE  Handles(d)
<1> DEFINE m == Head(cmds)
<1>1. /\ bus = "running" /\ cmds # <<>> /\ acceptor' = acceptor
      /\ SameCan(d) /\ SameThreads(d) /\ sock'[d] = sock[d] /\ up'[d] = up[d]
  BY Zenon DEF BusLoop, canVars, SameCan, SameAsked, SameThreads
<1>2. m = cmds[1] /\ 1 \in DOMAIN cmds
  BY <1>1, SeqElems DEF Shapes
<1> HIDE DEF m
<1>3. m.id \in Conns /\ (m.cmd = "add" => Registers(m, m.id)) /\ m.cmd # "shutdown"
  BY <1>2, Zenon DEF Shapes, Command, m
<1>4. /\ bus' = bus /\ cmds' = Tail(cmds)
      /\ \/ m.cmd = "add" /\ AddClient(m)
         \/ m.cmd = "remove" /\ RemoveClient(m)
         \/ m.cmd = "send" /\ SendFrame(m)
         \/ m.cmd = "filters" /\ SetFilters(m)
  BY <1>3, Zenon DEF BusLoop, m
<1>5. Elsewhere(d) \/ Adds(d) \/ Drops(d) \/ Sets(d) \/ Bcasts(d)
  <2> DEFINE had == m.id \in DOMAIN pending
             msgs == <<[type |-> "hello"]>> \o
                       (IF had THEN <<Ack("filters_ack", pending[m.id].seq, "ok")>>
                               ELSE <<>>)
  <2>1. CASE m.cmd = "add" /\ AddClient(m)
    <3>1. /\ clients' = With(clients, m.id, IF had THEN pending[m.id].filters ELSE <<>>)
          /\ pending' = Without(pending, m.id) /\ out' = Sent(To(m.id, msgs)) /\ log' = log
      BY <2>1, Zenon DEF AddClient
    <3>2. Gets(m.id, msgs) /\ \A e \in Conns \ {m.id} : out'[e] = out[e]
      <4> HIDE DEF msgs
      <4> QED BY <1>3, <3>1, SentTo, Zenon
    <3>3. CASE m.id = d
      <4>1. Adds(d)
        BY <1>3, <2>1, <3>1, <3>2, <3>3, WithOne, WithoutOne DEF Adds, m
      <4> QED BY <4>1, Zenon
    <3>4. CASE m.id # d
      <4> HIDE DEF msgs
      <4>1. SameReg(d)
        BY <3>1, <3>4, WithOne, WithoutOne DEF SameReg
      <4> QED BY <2>1, <3>1, <3>2, <3>4, <4>1, Zenon DEF Elsewhere, About, m
    <3> QED BY <3>3, <3>4, Zenon
  <2>2. CASE m.cmd = "remove" /\ RemoveClient(m)
    <3>1. /\ clients' = Without(clients, m.id) /\ pending' = Without(pending, m.id)
          /\ out' = out /\ log' = log
      BY <2>2, Zenon DEF RemoveClient
    <3>2. CASE m.id = d
      BY <2>2, <3>1, <3>2, WithoutOne, Zenon DEF Drops, Removes, m
    <3>3. CASE m.id # d
      <4>1. SameReg(d)
        BY <3>1, <3>3, WithoutOne, Zenon DEF SameReg
      <4> QED BY <2>2, <3>1, <3>3, <4>1, Zenon DEF Elsewhere, About, m
    <3> QED BY <3>2, <3>3, Zenon
  <2>3. CASE m.cmd = "send" /\ SendFrame(m)
    <3>1. /\ clients' = clients /\ pending' = pending /\ log' = Append(log, m.frame)
      BY <2>3, Zenon DEF SendFrame
    <3>2. \/ d \notin DOMAIN clients /\ out'[d] = out[d]
          \/ /\ d \in DOMAIN clients
             /\ Gets(d, (IF FiltersMatch(clients[d], m.frame)
                         THEN <<[type |-> "frame", frame |-> m.frame,
                                 at |-> Len(log) + 1]>> ELSE <<>>) \o
                        (IF m.ack /\ m.id = d
                         THEN <<Ack("ack", m.seq, AckStatus)>> ELSE <<>>))
      BY <2>3, Zenon DEF SendFrame, Broadcast, Sent, Gets
    <3> QED BY <2>3, <3>1, <3>2, Zenon DEF Bcasts, m
  <2>4. CASE m.cmd = "filters" /\ SetFilters(m)
    <3>1. log' = log
      BY <2>4, Zenon DEF SetFilters
    <3>2. CASE m.seq = 0
      <4>1. /\ out' = IF m.id \in DOMAIN clients
                      THEN Sent(To(m.id, <<Ack("filters_ack", 0, "server_err")>>)) ELSE out
            /\ clients' = clients /\ pending' = pending
        BY <2>4, <3>2, Zenon DEF SetFilters
      <4>2. SameReg(d)
        BY <4>1, Zenon DEF SameReg
      <4>3. /\ m.id = d => out'[d] = out[d]
                           \/ Gets(d, <<Ack("filters_ack", 0, "server_err")>>)
            /\ m.id # d => out'[d] = out[d]
        BY <1>3, <4>1, SentTo, Zenon
      <4> QED BY <2>4, <3>1, <3>2, <4>2, <4>3, Zenon DEF Sets, Elsewhere, About, m
    <3>3. CASE m.seq # 0 /\ m.id \in DOMAIN clients
      <4>1. /\ clients' = [clients EXCEPT ![m.id] = m.filters]
            /\ out' = Sent(To(m.id, <<Ack("filters_ack", m.seq, "ok")>>))
            /\ pending' = pending
        BY <2>4, <3>3, Zenon DEF SetFilters
      <4>2. /\ Gets(m.id, <<Ack("filters_ack", m.seq, "ok")>>)
            /\ m.id # d => out'[d] = out[d]
        BY <1>3, <4>1, SentTo, Zenon
      <4>3. /\ DOMAIN clients' = DOMAIN clients /\ clients'[m.id] = m.filters
            /\ m.id # d => (d \in DOMAIN clients => clients'[d] = clients[d])
        BY <3>3, <4>1, Zenon
      <4>4. CASE m.id = d
        <5>1. Sets(d)
          BY <2>4, <3>1, <3>3, <4>1, <4>2, <4>3, <4>4, Zenon DEF Sets, m
        <5> QED BY <5>1, Zenon
      <4>5. CASE m.id # d
        <5>1. SameReg(d)
          BY <4>1, <4>3, <4>5, Zenon DEF SameReg
        <5> QED BY <2>4, <3>1, <4>2, <4>5, <5>1, Zenon DEF Elsewhere, About, m
      <4> QED BY <4>4, <4>5, Zenon
    <3>4. CASE m.seq # 0 /\ m.id \notin DOMAIN clients
      <4>1. /\ pending' = With(pending, m.id, [seq |-> m.seq, filters |-> m.filters])
            /\ clients' = clients /\ out' = out
        BY <2>4, <3>4, Zenon DEF SetFilters
      <4>2. CASE m.id = d
        <5>1. d \in DOMAIN pending' /\ pending'[d] = [seq |-> m.seq, filters |-> m.filters]
          BY <4>1, <4>2, WithOne
        <5>2. Sets(d)
          BY <2>4, <3>1, <3>4, <4>1, <4>2, <5>1, Zenon DEF Sets, m
        <5> QED BY <5>2, Zenon
      <4>3. CASE m.id # d
        <5>1. SameReg(d)
          BY <4>1, <4>3, WithOne DEF SameReg
        <5> QED BY <2>4, <3>1, <4>1, <4>3, <5>1, Zenon DEF Elsewhere, About, m
      <4> QED BY <4>2, <4>3, Zenon
    <3> QED BY <3>2, <3>3, <3>4, Zenon
  <2> QED BY <1>4, <2>1, <2>2, <2>3, <2>4, Zenon
<1> QED BY <1>1, <1>4, <1>5, Zenon DEF Handles

\* bus_loop ends.
LEMMA HaltStep ==
    ASSUME NEW d \in Conns, BusLoop, UNCHANGED canVars, Head(cmds).cmd = "shutdown"
    PROVE  Halts(d)
<1>1. /\ bus = "running" /\ acceptor' = acceptor /\ SameCan(d) /\ SameThreads(d)
      /\ sock'[d] = sock[d] /\ up'[d] = up[d]
  BY Zenon DEF BusLoop, canVars, SameCan, SameAsked, SameThreads
<1>2. /\ bus' = "ended" /\ cmds' = <<>> /\ clients' = <<>> /\ pending' = <<>>
      /\ out' = out /\ log' = log
  BY Zenon DEF BusLoop
<1> QED BY <1>1, <1>2, Zenon DEF Halts, SameWire

\* Every step, as one connection sees it.
LEMMA Steps ==
    ASSUME Shapes, [Next]_vars
    PROVE  \/ /\ SameBus /\ (cmds' = cmds \/ Post([cmd |-> "shutdown"]))
              /\ \A d \in Conns : Aside(d)
           \/ \E c \in Conns : Own(c) /\ \A d \in Conns \ {c} : Aside(d)
           \/ BusLoop /\ \A d \in Conns : Handles(d)
           \/ BusLoop /\ \A d \in Conns : Halts(d)
<1>1. CASE UNCHANGED vars
  BY <1>1, Zenon DEF vars, serverVars, canVars, Aside, SameCan, SameAsked,
     SameThreads, SameWire, SameBus
<1>2. CASE Shutdown /\ UNCHANGED canVars
  <2> DEFINE x == [cmd |-> "shutdown"]
  <2>1. \A d : ~About(x, d)
    BY Zenon DEF About
  <2> HIDE DEF x
  <2>2. acceptor # "ended" /\ Post(x) /\ SameBus
    BY <1>2, Zenon DEF Shutdown, SameBus, x
  <2>3. \A d \in Conns : SameCan(d) /\ SameThreads(d) /\ SameWire(d)
    BY <1>2, Zenon DEF Shutdown, canVars, SameCan, SameAsked, SameThreads, SameWire
  <2> QED BY <2>1, <2>2, <2>3, Zenon DEF Aside, Post, x
<1>3. CASE AcceptLoopEnds /\ UNCHANGED canVars
  BY <1>3, Zenon DEF AcceptLoopEnds, canVars, Aside, SameCan, SameAsked,
     SameThreads, SameWire, SameBus
<1>4. CASE BusLoop /\ UNCHANGED canVars
  BY <1>4, HandleStep, HaltStep, Zenon
<1>5. ASSUME NEW c \in Conns, UNCHANGED canVars,
             Accept(c) \/ ReaderLoop(c) \/ ReaderEnds(c) \/ WriterEnds(c)
      PROVE  Own(c) /\ \A d \in Conns \ {c} : Aside(d)
  BY <1>5, AcceptStep, ReaderLoopStep, ReaderEndsStep, WriterEndsStep, Zenon DEF Own
<1>6. ASSUME NEW c \in Conns, CanStep(c)
      PROVE  Own(c) /\ \A d \in Conns \ {c} : Aside(d)
  BY <1>6, ReadStep, GiveUpStep, Zenon DEF CanStep, Own
<1>7. ASSUME NEW c \in Conns, CanCall(c)
      PROVE  Own(c) /\ \A d \in Conns \ {c} : Aside(d)
  BY <1>7, ConnectStep, CloseStep, AskStep, ReceiveStep, Zenon DEF CanCall, Own
<1> QED
  BY <1>1, <1>2, <1>3, <1>4, <1>5, <1>6, <1>7, Zenon DEF Next, ServerNext

-------------------------------------------------------------------------------
(* What the bus thread sends *)

\* The message at the place i is new, and why.
News(c, i) ==
    LET m == out'[c][i]
        cmd == Head(cmds)
    IN  \/ m.type = "hello" /\ Adds(c)
        \/ /\ m.type = "filters_ack" /\ Adds(c)
           /\ c \in DOMAIN pending /\ m.seq = pending[c].seq
        \/ m.type = "filters_ack" /\ Sets(c) /\ m.seq = cmd.seq
        \/ /\ m.type = "frame" /\ Bcasts(c) /\ i = Len(out[c]) + 1
           /\ m.frame = cmd.frame /\ m.at = Len(log) + 1
           /\ c \in DOMAIN clients /\ FiltersMatch(clients[c], cmd.frame)
        \/ /\ m.type = "ack" /\ Bcasts(c) /\ cmd.ack /\ cmd.id = c
           /\ m.seq = cmd.seq /\ m.status = AckStatus
           /\ c \in DOMAIN clients
           /\ FiltersMatch(clients[c], cmd.frame) =>
                 /\ i > Len(out[c]) + 1
                 /\ IsFrame(out'[c][Len(out[c]) + 1])
                 /\ out'[c][Len(out[c]) + 1].at = Len(log) + 1

\* A client's channel grows at its end.
Longer(c) ==
    /\ IsSeq(out'[c]) /\ Len(out[c]) <= Len(out'[c])
    /\ \A i \in DOMAIN out[c] : i \in DOMAIN out'[c] /\ out'[c][i] = out[c][i]

\* The bus thread only adds to what a client is sent, and a frame that the
\* client's filters accept is added.
LEMMA HandlesOut ==
    ASSUME Shapes, NEW c \in Conns, Handles(c)
    PROVE  /\ Longer(c)
           /\ \A i \in DOMAIN out'[c] : i \in DOMAIN out[c] \/ News(c, i)
           /\ /\ Bcasts(c) /\ c \in DOMAIN clients /\ writer[c] = "running"
              /\ FiltersMatch(clients[c], Head(cmds).frame)
              => /\ Len(out[c]) + 1 \in DOMAIN out'[c]
                 /\ IsFrame(out'[c][Len(out[c]) + 1])
                 /\ out'[c][Len(out[c]) + 1].at = Len(log) + 1
<1> DEFINE q == out[c]
           r == out'[c]
           cmd == Head(cmds)
<1>1. IsSeq(q)
  BY Zenon DEF Shapes, ConnShape
<1>2. Len(q) \in Nat /\ DOMAIN q = 1..Len(q)
  BY <1>1, SeqElems, Zenon
<1>3. CASE r = q /\ ~(Bcasts(c) /\ c \in DOMAIN clients /\ writer[c] = "running")
  <2>1. Longer(c)
    BY <1>1, <1>2, <1>3 DEF Longer
  <2> QED BY <1>3, <2>1, Zenon
<1>4. ASSUME NEW s, r = q \o <<Ack("filters_ack", s, "ok")>>
             \/ r = q \o <<Ack("filters_ack", s, "server_err")>>,
             s = cmd.seq, Sets(c), ~Bcasts(c)
      PROVE  Longer(c) /\ \A i \in DOMAIN r : i \in DOMAIN q \/ News(c, i)
  <2>1. PICK m : r = q \o <<m>> /\ m.type = "filters_ack" /\ m.seq = s
    <3>1. \A t : /\ Ack("filters_ack", s, t).type = "filters_ack"
                 /\ Ack("filters_ack", s, t).seq = s
      BY Zenon DEF Ack
    <3> QED BY <1>4, <3>1, Zenon
  <2>2. r = Append(q, m)
    <3>1. q \in Seq(Range(q) \cup {m})
      <4>1. \A i \in DOMAIN q : q[i] \in Range(q) \cup {m}
        BY Zenon DEF Range
      <4> QED BY <1>1, <4>1 DEF IsSeq
    <3> QED BY <2>1, <3>1
  <2> HIDE DEF q, r
  <2>3. /\ IsSeq(r) /\ Len(r) = Len(q) + 1 /\ DOMAIN r = 1..(Len(q) + 1)
        /\ \A i \in DOMAIN q : r[i] = q[i]
        /\ r[Len(q) + 1] = m
    BY <1>1, <2>2, SeqAppend
  <2>4. Longer(c)
    BY <1>2, <2>3 DEF Longer, q, r
  <2>5. \A i \in DOMAIN r : i \in DOMAIN q \/ (i = Len(q) + 1 /\ r[i] = m)
    BY <1>2, <2>3
  <2> QED BY <1>4, <2>1, <2>4, <2>5, Zenon DEF News, r, q
<1>5. CASE Adds(c) /\ writer[c] = "running"
  <2> DEFINE x == [type |-> "hello"]
             y == Ack("filters_ack", pending[c].seq, "ok")
             B == IF c \in DOMAIN pending THEN <<y>> ELSE <<>>
  <2>1. r = q \o (<<x>> \o B)
    BY <1>5, Zenon DEF Adds, Gets
  <2>2. x.type = "hello" /\ y.type = "filters_ack" /\ y.seq = pending[c].seq
    BY Zenon DEF Ack
  <2>3. B \in {<<>>, <<y>>} /\ (B = <<y>> => c \in DOMAIN pending)
    BY Zenon
  <2>4. ~Bcasts(c)
    BY <1>5 DEF Adds, Registers, Bcasts
  <2> HIDE DEF q, r, x, y, B
  <2>5. /\ IsSeq(r) /\ Len(q) <= Len(r) /\ DOMAIN r = 1..Len(r)
        /\ \A i \in DOMAIN q : i \in DOMAIN r /\ r[i] = q[i]
        /\ \A i \in DOMAIN r : i > Len(q) => r[i] = x \/ (B = <<y>> /\ r[i] = y)
    <3>1. Joined(q, x, <<x>>, y, B, q \o (<<x>> \o B))
      BY <1>1, <2>3, SeqJoined, Zenon
    <3> QED BY <2>1, <3>1, Zenon DEF Joined
  <2>6. Longer(c)
    BY <2>5, Zenon DEF Longer, q, r
  <2>7. \A i \in DOMAIN r : i \in DOMAIN q \/ i > Len(q)
    BY <1>2, <2>5
  <2> QED BY <1>5, <2>2, <2>3, <2>4, <2>5, <2>6, <2>7, Zenon DEF News, r, q
<1>6. CASE Bcasts(c) /\ c \in DOMAIN clients /\ writer[c] = "running"
  <2> DEFINE match == FiltersMatch(clients[c], cmd.frame)
             acked == cmd.ack /\ cmd.id = c
             x == [type |-> "frame", frame |-> cmd.frame, at |-> Len(log) + 1]
             y == Ack("ack", cmd.seq, AckStatus)
             A == IF match THEN <<x>> ELSE <<>>
             B == IF acked THEN <<y>> ELSE <<>>
  <2>1. r = q \o (A \o B)
    BY <1>6, Zenon DEF Bcasts, Gets
  <2>2. /\ x.type = "frame" /\ x.frame = cmd.frame /\ x.at = Len(log) + 1
        /\ y.type = "ack" /\ y.seq = cmd.seq /\ y.status = AckStatus
    BY Zenon DEF Ack
  <2>3. /\ A \in {<<>>, <<x>>} /\ (A = <<x>> <=> match)
        /\ B \in {<<>>, <<y>>} /\ (B = <<y>> => acked)
    BY Zenon
  <2> HIDE DEF q, r, x, y, A, B, match
  <2>4. /\ IsSeq(r) /\ Len(q) <= Len(r) /\ DOMAIN r = 1..Len(r)
        /\ \A i \in DOMAIN q : i \in DOMAIN r /\ r[i] = q[i]
        /\ A = <<x>> => Len(q) + 1 \in DOMAIN r /\ r[Len(q) + 1] = x
        /\ \A i \in DOMAIN r : i > Len(q) =>
              \/ A = <<x>> /\ i = Len(q) + 1 /\ r[i] = x
              \/ B = <<y>> /\ i = Len(r) /\ r[i] = y
    <3>1. Joined(q, x, A, y, B, q \o (A \o B))
      BY <1>1, <2>3, SeqJoined, Zenon
    <3> QED BY <2>1, <3>1, Zenon DEF Joined
  <2>5. Longer(c)
    BY <2>4, Zenon DEF Longer, q, r
  <2>6. \A i \in DOMAIN r : i \in DOMAIN q \/ i > Len(q)
    BY <1>2, <2>4
  <2>7. match => /\ Len(q) + 1 \in DOMAIN r /\ IsFrame(r[Len(q) + 1])
                 /\ r[Len(q) + 1].at = Len(log) + 1
    BY <2>2, <2>3, <2>4, Zenon DEF IsFrame
  <2>8. \A i \in DOMAIN r : i > Len(q) /\ r[i].type = "ack" /\ match => i > Len(q) + 1
    <3> SUFFICES ASSUME NEW i \in DOMAIN r, i > Len(q), r[i].type = "ack", match
                 PROVE  i > Len(q) + 1
      BY Zenon
    <3>1. i # Len(q) + 1
      BY <2>7, Zenon DEF IsFrame
    <3> QED BY <1>2, <2>4, <3>1
  <2>9. \A i \in DOMAIN r : i > Len(q) => News(c, i)
    <3> SUFFICES ASSUME NEW i \in DOMAIN r, i > Len(q)
                 PROVE  News(c, i)
      BY Zenon
    <3>1. CASE match /\ i = Len(q) + 1 /\ r[i] = x
      BY <1>6, <2>2, <3>1, Zenon DEF News, r, q, match
    <3>2. CASE acked /\ r[i] = y
      BY <1>6, <2>2, <2>7, <2>8, <3>2, Zenon DEF News, r, q, match
    <3> QED BY <2>3, <2>4, <3>1, <3>2, Zenon
  <2> QED BY <2>5, <2>6, <2>7, <2>9, Zenon DEF r, q, match
<1>7. CASE Sets(c)
  <2>1. ~Bcasts(c)
    BY <1>7, Zenon DEF Sets, Bcasts
  <2>2. \/ r = q
        \/ r = q \o <<Ack("filters_ack", cmd.seq, "ok")>>
        \/ r = q \o <<Ack("filters_ack", cmd.seq, "server_err")>>
    BY <1>7, Zenon DEF Sets, Gets
  <2> QED BY <1>3, <1>4, <1>7, <2>1, <2>2, Zenon
<1>8. CASE Elsewhere(c) \/ Drops(c) \/ (Adds(c) /\ writer[c] # "running")
           \/ (Bcasts(c) /\ ~(c \in DOMAIN clients /\ writer[c] = "running"))
  <2>1. r = q
    BY <1>8, Zenon DEF Elsewhere, Drops, Adds, Bcasts, Gets
  <2>2. ~(Bcasts(c) /\ c \in DOMAIN clients /\ writer[c] = "running")
    BY <1>8, Zenon DEF Elsewhere, Drops, Adds, Bcasts, Removes, Registers
  <2> QED BY <1>3, <2>1, <2>2, Zenon
<1> QED BY <1>5, <1>6, <1>7, <1>8, Zenon DEF Handles

\* What a client has not received yet.
LEMMA InboxElems ==
    ASSUME NEW c, IsSeq(rx_queue[c]), IsSeq(out[c])
    PROVE  LET n == Len(rx_queue[c])
               b == Inbox(c)
           IN  /\ DOMAIN b = 1..(n + Len(out[c]))
               /\ \A k \in DOMAIN b : IF k <= n THEN b[k] = rx_queue[c][k]
                                                ELSE b[k] = out[c][k - n]
<1> DEFINE u == rx_queue[c]
           v == out[c]
           S == Range(u) \cup Range(v)
<1>1. (\A i \in DOMAIN u : u[i] \in S) /\ (\A i \in DOMAIN v : v[i] \in S)
  BY Zenon DEF Range
<1> HIDE DEF S
<1>2. u \in Seq(S) /\ v \in Seq(S)
  BY <1>1 DEF IsSeq
<1> HIDE DEF u, v
<1>3. /\ DOMAIN (u \o v) = 1..(Len(u) + Len(v))
      /\ \A k \in DOMAIN (u \o v) : IF k <= Len(u) THEN (u \o v)[k] = u[k]
                                                   ELSE (u \o v)[k] = v[k - Len(u)]
  BY <1>2
<1> QED BY <1>3, Zenon DEF u, v, Inbox

\* A step of a connection posts at most one command, its own.
LEMMA OwnPosts ==
    ASSUME NEW c \in Conns, Own(c)
    PROVE  /\ SameBus
           /\ \/ cmds' = cmds
              \/ /\ bus = "running"
                 /\ \E x : About(x, c) /\ Command(x) /\ cmds' = Append(cmds, x)
<1>1. ASSUME NEW x, Registers(x, c) \/ Removes(x, c)
                     \/ (x.id = c /\ x.cmd \in {"send", "filters"})
      PROVE  About(x, c) /\ Command(x)
  BY <1>1 DEF Registers, Removes, About, Command
<1>2. SameBus
  BY Zenon DEF Own, Accepted, Relays, ReaderStops, WriterStops, Connects, Closes, Asks,
     GivesUp, Receives, Takes, SameServer
<1>3. \/ cmds' = cmds
      \/ \E x : /\ \/ Registers(x, c) \/ Removes(x, c)
                   \/ x.id = c /\ x.cmd \in {"send", "filters"}
                /\ Post(x)
  BY Zenon DEF Own, Accepted, Relays, ReaderStops, WriterStops, Connects, Closes, Asks,
     GivesUp, Receives, Takes, SameServer
<1> QED BY <1>1, <1>2, <1>3, Zenon DEF Post

\* The channel of commands and the log change at their ends.
LEMMA ChannelStep ==
    ASSUME Shapes, [Next]_vars
    PROVE  /\ \/ cmds' = cmds \/ cmds' = <<>>
              \/ cmds # <<>> /\ cmds' = Tail(cmds)
              \/ \E x : Command(x) /\ cmds' = Append(cmds, x)
           /\ log' = log \/ \E x : log' = Append(log, x)
           /\ DOMAIN clients' \subseteq Conns
<1>1. CASE SameBus /\ (cmds' = cmds \/ Post([cmd |-> "shutdown"]))
  <2>1. Command([cmd |-> "shutdown"])
    BY Zenon DEF Command
  <2> QED BY <1>1, <2>1, Zenon DEF Post, SameBus, Shapes
<1>2. ASSUME NEW c \in Conns, Own(c)
      PROVE  /\ \/ cmds' = cmds
                \/ \E x : Command(x) /\ cmds' = Append(cmds, x)
             /\ log' = log /\ DOMAIN clients' \subseteq Conns
  BY <1>2, OwnPosts, Zenon DEF SameBus, Shapes
<1>3. CASE BusLoop
  <2>1. cmds # <<>> /\ (cmds' = Tail(cmds) \/ cmds' = <<>>)
    BY <1>3, Zenon DEF BusLoop
  <2>2. log' = log \/ \E x : log' = Append(log, x)
    BY <1>3, Zenon DEF BusLoop, AddClient, RemoveClient, SendFrame, SetFilters
  <2>3. Head(cmds).cmd = "add" => Head(cmds).id \in Conns
    BY <2>1, SeqTail DEF Shapes, Command
  <2>4. ASSUME Head(cmds).cmd = "add", AddClient(Head(cmds))
        PROVE  DOMAIN clients' \subseteq Conns
    BY <2>3, <2>4, Zenon DEF AddClient, With, Shapes
  <2>5. ASSUME ~(Head(cmds).cmd = "add" /\ AddClient(Head(cmds)))
        PROVE  DOMAIN clients' \subseteq Conns
    <3>1. \/ clients' = clients \/ clients' = <<>>
          \/ clients' = Without(clients, Head(cmds).id)
          \/ clients' = [clients EXCEPT ![Head(cmds).id] = Head(cmds).filters]
      BY <1>3, <2>5, Zenon DEF BusLoop, RemoveClient, SendFrame, SetFilters
    <3> QED BY <3>1 DEF Without, Restrict, Shapes
  <2> QED BY <2>1, <2>2, <2>4, <2>5, Zenon
<1> QED BY <1>1, <1>2, <1>3, Steps, Zenon

\* The threads and the client of c take a step.
LEMMA OwnShape ==
    ASSUME NEW c \in Conns, ConnShape(c), IsSeq(log), Own(c)
    PROVE  ConnShape(c)'
<1> DEFINE Ranges == /\ reader'[c] \in {"none", "running", "garbled", "resumed", "ended"}
                     /\ writer'[c] \in {"none", "running", "ended"}
                     /\ sock'[c] \in {"none", "open", "closed"}
           Numbers == /\ call'[c] \in Calls /\ next_seq'[c] \in Nat \ {0}
                      /\ since'[c] \in Nat
           Queues == IsSeq(up'[c]) /\ IsSeq(out'[c]) /\ IsSeq(rx_queue'[c])
           Mine == \A i \in DOMAIN up'[c] :
                      up'[c][i].id = c /\ up'[c][i].cmd \in {"send", "filters", "torn"}
<1>i. Idle \in Calls /\ [Idle EXCEPT !.op = "hello"] \in Calls /\ Len(log) \in Nat
  BY SeqElems, Zenon DEF Idle, Calls
<1>1. Ranges
  BY Zenon DEF ConnShape, Own, Accepted, Relays, ReaderStops, WriterStops, Connects, Closes, Asks,
     GivesUp, Receives, Takes, SameServer, SameThreads, SameWire
<1>2. Numbers
  <2>1. CASE Asks(c)
    BY <1>i, <2>1, SMTT(30) DEF Asks, ConnShape, Calls
  <2>2. CASE ~Asks(c)
    <3>1. /\ call'[c] \in {call[c], Idle, [Idle EXCEPT !.op = "hello"]} \/ call'[c] \in Calls
          /\ next_seq'[c] = next_seq[c]
          /\ since'[c] \in {since[c], Len(log)}
      BY <2>2, Zenon DEF Own, Accepted, Relays, ReaderStops, WriterStops, Connects, Closes,
         GivesUp, Receives, Takes, SameCan, SameAsked
    <3> QED BY <1>i, <3>1, Zenon DEF ConnShape
  <2> QED BY <2>1, <2>2, Zenon
<1>3. IsSeq(up'[c]) /\ Mine
  <2>1. CASE up'[c] = up[c] \/ up'[c] = <<>>
    BY <2>1, SeqNone, Zenon DEF ConnShape
  <2>2. CASE up[c] # <<>> /\ up'[c] = Tail(up[c])
    BY <2>2, SeqTail DEF ConnShape
  <2>3. ASSUME NEW m, m.id = c, m.cmd \in {"send", "filters", "torn"},
               up'[c] = Append(up[c], m)
        PROVE  IsSeq(up'[c]) /\ Mine
    <3>1. IsSeq(up[c]) /\ Len(up[c]) \in Nat /\ DOMAIN up[c] = 1..Len(up[c])
      BY SeqElems, Zenon DEF ConnShape
    <3> QED BY <2>3, <3>1, SeqAppend DEF ConnShape
  <2>4. \/ up'[c] = up[c] \/ up'[c] = <<>>
        \/ up[c] # <<>> /\ up'[c] = Tail(up[c])
        \/ \E m : /\ m.id = c /\ m.cmd \in {"send", "filters", "torn"}
                  /\ up'[c] = Append(up[c], m)
    BY Zenon DEF Own, Accepted, Relays, ReaderStops, WriterStops, Connects, Closes,
       GivesUp, Receives, Takes, Asks, Asked, SameWire
  <2> QED BY <2>1, <2>2, <2>3, <2>4, Zenon
<1>4. IsSeq(out'[c])
  <2>1. CASE out'[c] = out[c] \/ out'[c] = <<>>
    BY <2>1, SeqNone, Zenon DEF ConnShape
  <2>2. CASE out[c] # <<>> /\ out'[c] = Tail(out[c])
    BY <2>2, SeqTail, Zenon DEF ConnShape
  <2>3. ASSUME NEW n \in 1..Len(out[c]), out'[c] = SubSeq(out[c], n + 1, Len(out[c]))
        PROVE  IsSeq(out'[c])
    BY <2>3, SeqSuffix DEF ConnShape
  <2>4. \/ out'[c] = out[c] \/ out'[c] = <<>>
        \/ out[c] # <<>> /\ out'[c] = Tail(out[c])
        \/ \E n \in 1..Len(out[c]) : out'[c] = SubSeq(out[c], n + 1, Len(out[c]))
    BY Zenon DEF Own, Accepted, Relays, ReaderStops, WriterStops, Connects, Closes,
       GivesUp, Receives, Takes, Asks, SameWire
  <2> QED BY <2>1, <2>2, <2>3, <2>4, Zenon
<1>5. IsSeq(rx_queue'[c])
  <2>1. CASE rx_queue'[c] = rx_queue[c] \/ rx_queue'[c] = <<>>
    BY <2>1, SeqNone, Zenon DEF ConnShape
  <2>2. CASE rx_queue[c] # <<>> /\ rx_queue'[c] = Tail(rx_queue[c])
    BY <2>2, SeqTail, Zenon DEF ConnShape
  <2>3. ASSUME NEW m, rx_queue'[c] = Append(rx_queue[c], m)
        PROVE  IsSeq(rx_queue'[c])
    BY <2>3, SeqAppend DEF ConnShape
  <2>4. \/ rx_queue'[c] = rx_queue[c] \/ rx_queue'[c] = <<>>
        \/ rx_queue[c] # <<>> /\ rx_queue'[c] = Tail(rx_queue[c])
        \/ \E m : rx_queue'[c] = Append(rx_queue[c], m)
    BY Zenon DEF Own, Accepted, Relays, ReaderStops, WriterStops, Connects, Closes,
       GivesUp, Receives, Takes, Asks, SameCan
  <2> QED BY <2>1, <2>2, <2>3, <2>4, Zenon
<1> QED BY <1>1, <1>2, <1>3, <1>4, <1>5, Zenon DEF ConnShape

\* Every step keeps the shapes.
LEMMA ShapesStep ==
    ASSUME Shapes, [Next]_vars
    PROVE  Shapes'
<1>1. IsSeq(cmds') /\ \A i \in DOMAIN cmds' : Command(cmds'[i])
  <2>1. CASE cmds' = cmds \/ cmds' = <<>>
    BY <2>1, SeqNone, Zenon DEF Shapes
  <2>2. CASE cmds # <<>> /\ cmds' = Tail(cmds)
    BY <2>2, SeqTail, Zenon DEF Shapes
  <2>3. ASSUME NEW x, Command(x), cmds' = Append(cmds, x)
        PROVE  IsSeq(cmds') /\ \A i \in DOMAIN cmds' : Command(cmds'[i])
    <3>1. IsSeq(cmds) /\ Len(cmds) \in Nat /\ DOMAIN cmds = 1..Len(cmds)
      BY SeqElems, Zenon DEF Shapes
    <3> QED BY <2>3, <3>1, SeqAppend DEF Shapes
  <2> QED BY <2>1, <2>2, <2>3, ChannelStep, Zenon
<1>2. IsSeq(log') /\ DOMAIN clients' \subseteq Conns
  <2>1. IsSeq(log)
    BY Zenon DEF Shapes
  <2>2. ASSUME NEW x, log' = Append(log, x)
        PROVE  IsSeq(log')
    BY <2>1, <2>2, SeqAppend, Zenon
  <2> QED BY <2>1, <2>2, ChannelStep, Zenon
<1>3. \A c \in Conns : ConnShape(c)'
  <2> SUFFICES ASSUME NEW c \in Conns PROVE ConnShape(c)'
    BY Zenon
  <2>1. ConnShape(c) /\ IsSeq(log)
    BY Zenon DEF Shapes
  <2>2. CASE Own(c)
    BY <2>1, <2>2, OwnShape, Zenon
  <2>3. CASE Aside(c) \/ Halts(c)
    BY <2>1, <2>3, Zenon DEF Aside, Halts, ConnShape, SameCan, SameAsked, SameThreads, SameWire
  <2>4. CASE Handles(c)
    <3>1. IsSeq(out'[c])
      BY <2>4, HandlesOut, Zenon DEF Longer
    <3> QED BY <2>1, <2>4, <3>1, Zenon DEF Handles, ConnShape, SameCan, SameAsked, SameThreads
  <2> QED BY <2>2, <2>3, <2>4, Steps, Zenon
<1> DEFINE Doms ==
      /\ DOMAIN reader' = Conns /\ DOMAIN writer' = Conns /\ DOMAIN sock' = Conns
      /\ DOMAIN up' = Conns /\ DOMAIN out' = Conns /\ DOMAIN call' = Conns
      /\ DOMAIN next_seq' = Conns /\ DOMAIN filters' = Conns /\ DOMAIN rx_queue' = Conns
      /\ DOMAIN result' = Conns /\ DOMAIN peers' = Conns /\ DOMAIN last' = Conns
      /\ DOMAIN since' = Conns
<1>4. Doms
  <2>1. CASE UNCHANGED vars
    BY <2>1, Zenon DEF vars, serverVars, canVars, Shapes
  <2>2. CASE BusLoop /\ UNCHANGED canVars
    <3>1. DOMAIN out' = Conns
      BY <2>2, Zenon DEF BusLoop, AddClient, RemoveClient, SendFrame, SetFilters, Sent, Shapes
    <3> QED BY <2>2, <3>1, Zenon DEF BusLoop, canVars, Shapes
  <2>3. ASSUME NEW c \in Conns, UNCHANGED canVars,
               Accept(c) \/ ReaderLoop(c) \/ ReaderEnds(c) \/ WriterEnds(c)
        PROVE  Doms
    BY <2>3, Zenon DEF Accept, ReaderLoop, ReaderEnds, WriterEnds, canVars, Shapes
  <2>4. CASE (Shutdown \/ AcceptLoopEnds) /\ UNCHANGED canVars
    BY <2>4, Zenon DEF Shutdown, AcceptLoopEnds, canVars, Shapes
  <2>5. ASSUME NEW c \in Conns, CanStep(c)
        PROVE  Doms
    BY <2>5, Zenon DEF CanStep, ReadMsg, GiveUp, WaitForHello, WaitForAck, WaitForFiltersAck,
       Skip, Return, serverVars, Shapes
  <2>6. ASSUME NEW c \in Conns, CanCall(c)
        PROVE  Doms
    BY <2>6, Zenon DEF CanCall, Connect, Close, Send, SendTimeout, TrySend, TornSend,
       SetClientFilters, Request, Recv, TryRecv, PopQueued, serverVars, Shapes
  <2> QED BY <2>1, <2>2, <2>3, <2>4, <2>5, <2>6, Zenon DEF Next, ServerNext
<1> QED BY <1>1, <1>2, <1>3, <1>4, Zenon DEF Shapes

\* At the start there are no messages.
LEMMA InitShapes == Init => Shapes
<1> SUFFICES ASSUME Init PROVE Shapes
  BY Zenon
<1>1. IsSeq(<<>>) /\ DOMAIN <<>> = {}
  BY SeqNone, Zenon
<1>2. Idle \in Calls
  BY Zenon DEF Idle, Calls
<1>3. \A c \in Conns :
         /\ reader[c] = "none" /\ writer[c] = "none" /\ sock[c] = "none"
         /\ call[c] = Idle /\ next_seq[c] = 1 /\ since[c] = 0
         /\ up[c] = <<>> /\ out[c] = <<>> /\ rx_queue[c] = <<>>
  BY Zenon DEF Init, ServerInit
<1>4. \A c \in Conns : ConnShape(c)
  BY <1>1, <1>2, <1>3 DEF ConnShape
<1>5. cmds = <<>> /\ log = <<>> /\ DOMAIN clients = {}
  BY <1>1, Zenon DEF Init, ServerInit
<1> QED BY <1>1, <1>4, <1>5, Zenon DEF Shapes, Init, ServerInit

-------------------------------------------------------------------------------
(* The commands of one connection *)

\* The commands on their way to the bus thread that concern c.
Posted(c) == {m \in Range(cmds) : About(m, c)}

\* The command that registers c.
Add(c) == [cmd |-> "add", id |-> c]

\* u is at most once in s.
Sole(s, u) == \A i, j \in DOMAIN s : s[i] = u /\ s[j] = u => i = j

\* A message joins the end of a queue.
LEMMA Joins ==
    ASSUME NEW s, IsSeq(s), NEW x
    PROVE  /\ Range(Append(s, x)) = Range(s) \cup {x}
           /\ \A u : Sole(s, u) /\ (u = x => u \notin Range(s)) => Sole(Append(s, x), u)
<1> DEFINE t == Append(s, x)
           n == Len(s) + 1
<1>1. /\ \A i \in DOMAIN s : i \in DOMAIN t /\ t[i] = s[i]
      /\ n \in DOMAIN t /\ t[n] = x /\ \A i \in DOMAIN t : i \in DOMAIN s \/ i = n
  BY SeqAppend, SeqElems
<1> HIDE DEF t, n
<1>2. Range(t) = Range(s) \cup {x}
  BY <1>1, Zenon DEF Range
<1>3. ASSUME NEW u, Sole(s, u), u = x => u \notin Range(s)
      PROVE  Sole(t, u)
  BY <1>1, <1>3, Zenon DEF Sole, Range
<1> QED BY <1>2, <1>3, Zenon DEF t

\* A message leaves the head of a queue.
LEMMA Leaves ==
    ASSUME NEW s, IsSeq(s), s # <<>>
    PROVE  /\ Range(Tail(s)) \subseteq Range(s) /\ Head(s) \in Range(s)
           /\ \A m \in Range(s) : m = Head(s) \/ m \in Range(Tail(s))
           /\ \A u : Sole(s, u) => Sole(Tail(s), u)
                                   /\ (u = Head(s) => u \notin Range(Tail(s)))
<1> DEFINE t == Tail(s)
<1>1. /\ Len(s) \in Nat /\ DOMAIN s = 1..Len(s) /\ DOMAIN t = 1..(Len(s) - 1)
      /\ 1 \in DOMAIN s /\ Head(s) = s[1]
      /\ \A i \in DOMAIN t : i + 1 \in DOMAIN s /\ t[i] = s[i + 1]
  BY SeqTail, SeqElems, Zenon
<1> HIDE DEF t
<1>2. \A i \in DOMAIN s : i = 1 \/ (i - 1 \in DOMAIN t /\ t[i - 1] = s[i])
  BY <1>1
<1>3. \A i, j \in DOMAIN t : i + 1 = j + 1 => i = j
  BY <1>1
<1>4. \A i \in DOMAIN t : i + 1 # 1
  BY <1>1
<1>5. \A m : m \in Range(t) <=> \E i \in DOMAIN t : m = t[i]
  BY Zenon DEF Range
<1>6. \A m : m \in Range(s) <=> \E i \in DOMAIN s : m = s[i]
  BY Zenon DEF Range
<1>7. Range(t) \subseteq Range(s) /\ Head(s) \in Range(s)
  BY <1>1, <1>5, <1>6, Zenon
<1>8. \A m \in Range(s) : m = Head(s) \/ m \in Range(t)
  <2> SUFFICES ASSUME NEW m \in Range(s), m # Head(s)
               PROVE  m \in Range(t)
    BY Zenon
  <2>1. PICK i \in DOMAIN s : m = s[i]
    BY <1>6, Zenon
  <2>2. i - 1 \in DOMAIN t /\ t[i - 1] = s[i]
    BY <1>1, <1>2, <2>1, Zenon
  <2> QED BY <1>5, <2>1, <2>2, Zenon
<1>9. ASSUME NEW u, Sole(s, u)
      PROVE  Sole(t, u) /\ (u = Head(s) => u \notin Range(t))
  <2>1. Sole(t, u)
    <3> SUFFICES ASSUME NEW i \in DOMAIN t, NEW j \in DOMAIN t, t[i] = u, t[j] = u
                 PROVE  i = j
      BY Zenon DEF Sole
    <3>1. /\ i + 1 \in DOMAIN s /\ s[i + 1] = u
          /\ j + 1 \in DOMAIN s /\ s[j + 1] = u
      BY <1>1, Zenon
    <3> QED BY <1>3, <1>9, <3>1, Zenon DEF Sole
  <2>2. ASSUME u = Head(s), u \in Range(t) PROVE FALSE
    <3>1. PICK i \in DOMAIN t : u = t[i]
      BY <1>5, <2>2, Zenon
    <3>2. i + 1 \in DOMAIN s /\ s[i + 1] = u /\ s[1] = u
      BY <1>1, <2>2, <3>1, Zenon
    <3> QED BY <1>1, <1>4, <1>9, <3>2, Zenon DEF Sole
  <2> QED BY <2>1, <2>2, Zenon
<1> QED BY <1>7, <1>8, <1>9, Zenon DEF t

\* What others post changes nothing for c.
LEMMA AsidePosts ==
    ASSUME IsSeq(cmds), NEW c, Aside(c)
    PROVE  /\ Posted(c)' = Posted(c)
           /\ \A u : About(u, c) /\ Sole(cmds, u) => Sole(cmds', u)
<1>1. CASE cmds' = cmds
  BY <1>1, Zenon DEF Posted
<1>2. ASSUME NEW x, cmds' = Append(cmds, x), ~About(x, c)
      PROVE  /\ Posted(c)' = Posted(c)
             /\ \A u : About(u, c) /\ Sole(cmds, u) => Sole(cmds', u)
  <2>1. /\ Range(cmds') = Range(cmds) \cup {x}
        /\ \A u : Sole(cmds, u) /\ u # x => Sole(cmds', u)
    BY <1>2, Joins, Zenon
  <2> QED BY <1>2, <2>1, Zenon DEF Posted
<1> QED BY <1>1, <1>2, Zenon DEF Aside

\* c posts x, if the bus thread still runs.
LEMMA OwnPost ==
    ASSUME IsSeq(cmds), NEW c, NEW x, About(x, c), Post(x)
    PROVE  /\ Posted(c)' \subseteq Posted(c) \cup {x} /\ Posted(c) \subseteq Posted(c)'
           /\ bus = "running" => x \in Posted(c)'
           /\ \A u : Sole(cmds, u) /\ (u = x => u \notin Posted(c)) => Sole(cmds', u)
<1>1. CASE cmds' = cmds /\ bus # "running"
  BY <1>1, Zenon DEF Posted
<1>2. CASE cmds' = Append(cmds, x)
  <2>1. /\ Range(cmds') = Range(cmds) \cup {x}
        /\ \A u : Sole(cmds, u) /\ (u = x => u \notin Range(cmds)) => Sole(cmds', u)
    BY <1>2, Joins, Zenon
  <2> QED BY <2>1, Zenon DEF Posted
<1> QED BY <1>1, <1>2, Zenon DEF Post

\* The bus thread takes the oldest command.
LEMMA HandlePosts ==
    ASSUME IsSeq(cmds), NEW c, Handles(c)
    PROVE  /\ Posted(c)' \subseteq Posted(c)
           /\ \A m \in Posted(c) : m = Head(cmds) \/ m \in Posted(c)'
           /\ About(Head(cmds), c) => Head(cmds) \in Posted(c)
           /\ \A u : Sole(cmds, u) => /\ Sole(cmds', u)
                                      /\ u = Head(cmds) => u \notin Posted(c)'
<1>1. cmds # <<>> /\ cmds' = Tail(cmds)
  BY Zenon DEF Handles
<1>2. /\ Range(cmds') \subseteq Range(cmds) /\ Head(cmds) \in Range(cmds)
      /\ \A m \in Range(cmds) : m = Head(cmds) \/ m \in Range(cmds')
      /\ \A u : Sole(cmds, u) => Sole(cmds', u) /\ (u = Head(cmds) => u \notin Range(cmds'))
  BY <1>1, Leaves, Zenon
<1> QED BY <1>2, Zenon DEF Posted

\* A bus thread that ends leaves no command.
LEMMA HaltPosts ==
    ASSUME NEW c, Halts(c)
    PROVE  /\ Posted(c)' = {} /\ \A u : Sole(cmds', u)
           /\ c \notin DOMAIN clients' /\ c \notin DOMAIN pending'
<1>1. cmds' = <<>> /\ clients' = <<>> /\ pending' = <<>>
  BY Zenon DEF Halts
<1>2. DOMAIN cmds' = {} /\ DOMAIN clients' = {} /\ DOMAIN pending' = {}
  BY <1>1, SeqNone, Zenon
<1> QED BY <1>2, Zenon DEF Posted, Range, Sole

-------------------------------------------------------------------------------
(* Registration *)

\* The server has not accepted c.
Absent(c) ==
    reader[c] = "none" =>
        /\ writer[c] = "none" /\ up[c] = <<>> /\ out[c] = <<>> /\ Posted(c) = {}
        /\ c \notin DOMAIN clients /\ c \notin DOMAIN pending
        /\ sock[c] = "open" /\ call[c].op # "hello" => acceptor = "ended"

\* c is in connect.
Greeting(c) ==
    sock[c] = "open" /\ call[c].op = "hello" =>
        /\ call[c].deadline = FALSE /\ up[c] = <<>> /\ filters[c] = <<>>
        /\ reader[c] \in {"none", "running"} /\ Posted(c) \subseteq {Add(c)}

\* c is accepted and not yet registered.
Added(c) ==
    Add(c) \in Posted(c) =>
        /\ c \notin DOMAIN clients /\ Sole(cmds, Add(c))
        /\ \A m \in Range(out[c]) : m.type # "hello"
        /\ sock[c] = "open" => call[c].op = "hello"

\* The bus thread knows c, or is about to, while c is there.
Served(c) ==
    sock[c] = "open" /\ Reading(c) =>
        /\ \A m \in Posted(c) : ~Removes(m, c)
        /\ bus = "running" => /\ writer[c] = "running"
                              /\ c \in DOMAIN clients \/ Add(c) \in Posted(c)

Fresh(c) ==
    sock[c] = "none" => reader[c] = "none" /\ call[c] = Idle /\ filters[c] = <<>>

Registered(c) == Absent(c) /\ Greeting(c) /\ Added(c) /\ Served(c) /\ Fresh(c)

\* The commands are told apart.
LEMMA AddIs ==
    ASSUME NEW c
    PROVE  /\ About(Add(c), c) /\ ~Removes(Add(c), c) /\ Add(c).cmd = "add"
           /\ \A x : Registers(x, c) <=> x = Add(c)
           /\ \A x : Removes(x, c) => About(x, c) /\ x # Add(c)
           /\ \A x : x.id = c /\ x.cmd \in {"send", "filters"} =>
                        About(x, c) /\ ~Removes(x, c) /\ x # Add(c)
  BY DEF About, Add, Removes, Registers

\* Nothing is in an empty queue.
LEMMA EmptyRange == Range(<<>>) = {}
  BY SeqNone, Zenon DEF Range

\* Steps of others, and the end of the bus thread.
LEMMA AsideRegistered ==
    ASSUME IsSeq(cmds), NEW c, Registered(c), Aside(c) \/ Halts(c)
    PROVE  Registered(c)'
<1>1. /\ SameCan(c) /\ SameThreads(c) /\ SameWire(c)
      /\ acceptor = "ended" => acceptor' = "ended"
  BY Zenon DEF Aside, Halts
<1>2. /\ reader'[c] = reader[c] /\ writer'[c] = writer[c] /\ sock'[c] = sock[c]
      /\ up'[c] = up[c] /\ out'[c] = out[c] /\ call'[c] = call[c]
      /\ filters'[c] = filters[c]
  BY <1>1, Zenon DEF SameCan, SameThreads, SameWire, SameAsked
<1>3. CASE Aside(c)
  <2>1. /\ Posted(c)' = Posted(c) /\ clients' = clients /\ pending' = pending
        /\ bus' = bus /\ (Sole(cmds, Add(c)) => Sole(cmds', Add(c)))
    BY <1>3, AsidePosts, AddIs, Zenon DEF Aside, SameBus
  <2>2. Absent(c)' /\ Greeting(c)' /\ Fresh(c)'
    BY <1>1, <1>2, <2>1, Zenon DEF Registered, Absent, Greeting, Fresh
  <2>3. Added(c)'
    BY <1>2, <2>1, Zenon DEF Registered, Added
  <2>4. Served(c)'
    BY <1>2, <2>1, Zenon DEF Registered, Served, Reading
  <2> QED BY <2>2, <2>3, <2>4, Zenon DEF Registered
<1>4. CASE Halts(c)
  <2>1. /\ Posted(c)' = {} /\ c \notin DOMAIN clients' /\ c \notin DOMAIN pending'
        /\ bus' # "running"
    BY <1>4, HaltPosts, Zenon DEF Halts
  <2>2. Absent(c)' /\ Greeting(c)' /\ Fresh(c)'
    BY <1>1, <1>2, <2>1, Zenon DEF Registered, Absent, Greeting, Fresh
  <2>3. Added(c)' /\ Served(c)'
    BY <1>2, <2>1, Zenon DEF Added, Served
  <2> QED BY <2>2, <2>3, Zenon DEF Registered
<1> QED BY <1>3, <1>4, Zenon

\* The bus thread handles a command.
LEMMA HandlesRegistered ==
    ASSUME Shapes, NEW c \in Conns, Registered(c), Handles(c)
    PROVE  Registered(c)'
<1>1. /\ reader'[c] = reader[c] /\ writer'[c] = writer[c] /\ sock'[c] = sock[c]
      /\ up'[c] = up[c] /\ call'[c] = call[c] /\ filters'[c] = filters[c]
      /\ bus' = bus /\ acceptor' = acceptor
      /\ Elsewhere(c) \/ Adds(c) \/ Drops(c) \/ Sets(c) \/ Bcasts(c)
  BY Zenon DEF Handles, SameCan, SameThreads, SameAsked
<1>2. /\ Posted(c)' \subseteq Posted(c)
      /\ \A m \in Posted(c) : m = Head(cmds) \/ m \in Posted(c)'
      /\ About(Head(cmds), c) => Head(cmds) \in Posted(c)
      /\ \A u : Sole(cmds, u) => /\ Sole(cmds', u)
                                 /\ u = Head(cmds) => u \notin Posted(c)'
  BY HandlePosts, Zenon DEF Shapes
<1>3. /\ Adds(c) => Head(cmds) = Add(c) /\ Head(cmds) \in Posted(c)
      /\ Drops(c) => Removes(Head(cmds), c) /\ Head(cmds) \in Posted(c)
      /\ Sets(c) => Head(cmds) # Add(c) /\ Head(cmds) \in Posted(c)
      /\ Elsewhere(c) \/ Bcasts(c) => Head(cmds) # Add(c)
  <2>1. Bcasts(c) \/ Sets(c) => Head(cmds) # Add(c)
    BY AddIs, Zenon DEF Bcasts, Sets
  <2>2. Sets(c) => About(Head(cmds), c)
    BY Zenon DEF Sets, About
  <2>3. Adds(c) => Head(cmds) = Add(c)
    BY AddIs, Zenon DEF Adds
  <2>4. Drops(c) => Removes(Head(cmds), c)
    BY Zenon DEF Drops
  <2>5. Elsewhere(c) => ~About(Head(cmds), c)
    BY Zenon DEF Elsewhere
  <2>6. About(Add(c), c) /\ (Removes(Head(cmds), c) => About(Head(cmds), c))
    BY AddIs, Zenon
  <2> QED BY <1>2, <2>1, <2>2, <2>3, <2>4, <2>5, <2>6, Zenon
<1>4. /\ c \in DOMAIN clients' => c \in DOMAIN clients \/ Adds(c)
      /\ c \in DOMAIN pending' => c \in DOMAIN pending \/ Sets(c)
      /\ c \in DOMAIN clients => c \in DOMAIN clients' \/ Drops(c)
      /\ Adds(c) => c \in DOMAIN clients'
  <2>1. CASE Sets(c)
    BY <2>1, Zenon DEF Sets, Adds, SameReg
  <2>2. CASE Elsewhere(c) \/ Adds(c) \/ Drops(c) \/ Bcasts(c)
    BY <2>2, Zenon DEF Elsewhere, Adds, Drops, Bcasts, SameReg
  <2> QED BY <1>1, <2>1, <2>2, Zenon
<1>5. \A m \in Range(out'[c]) : m \in Range(out[c]) \/ m.type # "hello" \/ Adds(c)
  <2>1. /\ \A i \in DOMAIN out[c] : i \in DOMAIN out'[c] /\ out'[c][i] = out[c][i]
        /\ \A i \in DOMAIN out'[c] : i \in DOMAIN out[c] \/ News(c, i)
    BY HandlesOut, Zenon DEF Longer
  <2>2. \A i : News(c, i) => out'[c][i].type # "hello" \/ Adds(c)
    BY Zenon DEF News
  <2> QED BY <2>1, <2>2, Zenon DEF Range
<1>6. Absent(c)'
  <2> SUFFICES ASSUME reader[c] = "none", Absent(c)
               PROVE  /\ out'[c] = <<>> /\ Posted(c)' = {}
                      /\ c \notin DOMAIN clients' /\ c \notin DOMAIN pending'
    BY <1>1, Zenon DEF Absent, Registered
  <2>1. ~Adds(c) /\ ~Drops(c) /\ ~Sets(c) /\ Posted(c)' = {}
    BY <1>2, <1>3, Zenon DEF Absent
  <2>2. out'[c] = out[c]
    BY <1>1, <2>1, Zenon DEF Absent, Elsewhere, Bcasts
  <2> QED BY <1>4, <2>1, <2>2, Zenon DEF Absent
<1>7. Greeting(c)' /\ Fresh(c)'
  BY <1>1, <1>2, Zenon DEF Registered, Greeting, Fresh
<1>8. Added(c)'
  <2> SUFFICES ASSUME Add(c) \in Posted(c)'
               PROVE  /\ c \notin DOMAIN clients' /\ Sole(cmds', Add(c))
                      /\ \A m \in Range(out'[c]) : m.type # "hello"
                      /\ sock[c] = "open" => call[c].op = "hello"
    BY <1>1, Zenon DEF Added
  <2>1. /\ c \notin DOMAIN clients /\ Sole(cmds, Add(c))
        /\ \A m \in Range(out[c]) : m.type # "hello"
        /\ sock[c] = "open" => call[c].op = "hello"
    BY <1>2, Zenon DEF Registered, Added
  <2>2. ~Adds(c) /\ Sole(cmds', Add(c))
    BY <1>2, <1>3, <2>1, Zenon
  <2> QED BY <1>4, <1>5, <2>1, <2>2, Zenon
<1>9. Served(c)'
  <2> SUFFICES ASSUME sock[c] = "open", Reading(c)
               PROVE  /\ \A m \in Posted(c)' : ~Removes(m, c)
                      /\ bus = "running" => /\ writer[c] = "running"
                                            /\ c \in DOMAIN clients' \/ Add(c) \in Posted(c)'
    BY <1>1, Zenon DEF Served, Reading
  <2>1. /\ \A m \in Posted(c) : ~Removes(m, c)
        /\ bus = "running" => /\ writer[c] = "running"
                              /\ c \in DOMAIN clients \/ Add(c) \in Posted(c)
    BY Zenon DEF Registered, Served
  <2>2. ~Drops(c)
    BY <1>3, <2>1, Zenon
  <2>3. Add(c) \in Posted(c) => Add(c) \in Posted(c)' \/ Adds(c)
    BY <1>1, <1>2, <1>3, <2>2, Zenon
  <2> QED BY <1>2, <1>4, <2>1, <2>2, <2>3, Zenon
<1> QED BY <1>6, <1>7, <1>8, <1>9, Zenon DEF Registered

\* A connection's own steps send nothing to it.
LEMMA OutShrinks ==
    ASSUME NEW c \in Conns, ConnShape(c), Own(c)
    PROVE  Range(out'[c]) \subseteq Range(out[c])
<1>1. IsSeq(out[c])
  BY Zenon DEF ConnShape
<1>2. CASE out'[c] \in {out[c], <<>>}
  BY <1>2, EmptyRange, Zenon
<1>3. CASE out[c] # <<>> /\ out'[c] = Tail(out[c])
  BY <1>1, <1>3, Leaves, Zenon
<1>4. ASSUME NEW n \in 1..Len(out[c]), out'[c] = SubSeq(out[c], n + 1, Len(out[c]))
      PROVE  Range(out'[c]) \subseteq Range(out[c])
  <2>1. \A i \in DOMAIN out'[c] : i + n \in DOMAIN out[c] /\ out'[c][i] = out[c][i + n]
    BY <1>1, <1>4, SeqSuffix
  <2> QED BY <2>1, Zenon DEF Range
<1>5. \/ out'[c] \in {out[c], <<>>}
      \/ out[c] # <<>> /\ out'[c] = Tail(out[c])
      \/ \E n \in 1..Len(out[c]) : out'[c] = SubSeq(out[c], n + 1, Len(out[c]))
  BY Zenon DEF Own, Accepted, Relays, ReaderStops, WriterStops, Connects, Closes,
     GivesUp, Receives, Takes, Asks, SameWire
<1> QED BY <1>2, <1>3, <1>4, <1>5, Zenon

\* The calls that wait.
LEMMA IdleIs == /\ Idle.op = "idle" /\ Idle.deadline = FALSE
                /\ [Idle EXCEPT !.op = "hello"].op = "hello"
                /\ [Idle EXCEPT !.op = "hello"].deadline = FALSE
  BY Zenon DEF Idle

\* A client that is not there connects.
LEMMA ConnectsRegistered ==
    ASSUME NEW c \in Conns, Registered(c), Connects(c)
    PROVE  Registered(c)'
<1>1. /\ sock[c] = "none" /\ sock'[c] = "open" /\ acceptor # "ended"
      /\ call'[c].op = "hello" /\ call'[c].deadline = FALSE
      /\ up'[c] = up[c] /\ out'[c] = out[c] /\ filters'[c] = filters[c]
      /\ reader'[c] = reader[c] /\ writer'[c] = writer[c] /\ bus' = bus /\ cmds' = cmds
      /\ clients' = clients /\ pending' = pending /\ acceptor' = acceptor
  BY IdleIs, Zenon DEF Connects, SameServer, SameThreads, SameBus, SameAsked
<1>2. Posted(c)' = Posted(c)
  BY <1>1, Zenon DEF Posted
<1>3. /\ reader[c] = "none" /\ filters[c] = <<>> /\ up[c] = <<>> /\ out[c] = <<>>
      /\ Posted(c) = {} /\ writer[c] = "none"
      /\ c \notin DOMAIN clients /\ c \notin DOMAIN pending
  BY <1>1, Zenon DEF Registered, Fresh, Absent
<1>4. Absent(c)' /\ Greeting(c)' /\ Added(c)'
  BY <1>1, <1>2, <1>3, Zenon DEF Absent, Greeting, Added
<1>5. Served(c)' /\ Fresh(c)'
  BY <1>1, <1>3, Zenon DEF Served, Fresh, Reading
<1> QED BY <1>4, <1>5, Zenon DEF Registered

\* A client that is there, or was, takes a step.
LEMMA ClientRegistered ==
    ASSUME NEW c \in Conns, ConnShape(c), Registered(c),
           \/ Closes(c) \/ Asks(c) \/ GivesUp(c) \/ Receives(c)
           \/ \E m : Takes(c, m)
    PROVE  Registered(c)'
<1>1. /\ reader'[c] = reader[c] /\ writer'[c] = writer[c] /\ bus' = bus /\ cmds' = cmds
      /\ clients' = clients /\ pending' = pending /\ acceptor' = acceptor
  BY Zenon DEF Closes, Asks, GivesUp, Receives, Takes, SameServer, SameThreads, SameBus
<1>2. Posted(c)' = Posted(c)
  BY <1>1, Zenon DEF Posted
<1>3. Range(out'[c]) \subseteq Range(out[c])
  BY OutShrinks, Zenon DEF Own
<1>4. /\ sock[c] # "none" /\ sock'[c] # "none" /\ (sock'[c] = "open" => sock[c] = "open")
  <2>1. CASE GivesUp(c)
    BY <2>1, IdleIs, Zenon DEF GivesUp, Registered, Fresh, SameWire
  <2>2. CASE ~GivesUp(c)
    BY <2>2, Zenon DEF Closes, Asks, Receives, Takes
  <2> QED BY <2>1, <2>2, Zenon
<1>5. call'[c].op = "hello" =>
         call'[c] = call[c] /\ up'[c] = up[c] /\ filters'[c] = filters[c]
  <2>1. CASE Asks(c)
    <3>1. call'[c].op # "hello"
      BY <2>1, IdleIs DEF Asks
    <3> QED BY <3>1, Zenon
  <2>2. CASE ~Asks(c)
    <3>1. up'[c] = up[c] /\ filters'[c] = filters[c]
      BY <2>2, Zenon DEF Closes, GivesUp, Receives, Takes, SameAsked, SameWire
    <3>2. call'[c] = call[c] \/ call'[c] = Idle \/ call'[c].op = "recv"
      BY <2>2, Zenon DEF Closes, GivesUp, Receives, Takes
    <3> QED BY <3>1, <3>2, IdleIs, Zenon
  <2> QED BY <2>1, <2>2, Zenon
<1>6. Absent(c)'
  <2> SUFFICES ASSUME reader[c] = "none",
                      up[c] = <<>>, out[c] = <<>>,
                      sock[c] = "open" /\ call[c].op # "hello" => acceptor = "ended"
               PROVE  /\ up'[c] = <<>> /\ out'[c] = <<>>
                      /\ sock'[c] = "open" /\ call'[c].op # "hello" => acceptor = "ended"
    BY <1>1, <1>2, Zenon DEF Absent, Registered
  <2>1. out'[c] = <<>>
    <3>1. 1..Len(<<>>) = {}
      BY SeqNone
    <3> QED BY <3>1, Zenon DEF Closes, Asks, GivesUp, Receives, Takes, SameWire
  <2>2. acceptor = "ended" => ServerGone(c)
    BY Zenon DEF ServerGone
  <2>3. up'[c] = <<>>
    <3>1. CASE Asks(c)
      <4>1. call[c].op # "hello" /\ sock[c] = "open"
        BY <3>1, Zenon DEF Asks
      <4> QED BY <2>2, <3>1, <4>1, Zenon DEF Asks
    <3>2. CASE ~Asks(c)
      BY <3>2, Zenon DEF Closes, GivesUp, Receives, Takes, SameWire
    <3> QED BY <3>1, <3>2, Zenon
  <2>4. ASSUME sock[c] = "open", call[c].op = "hello", call'[c].op # "hello"
        PROVE  acceptor = "ended" \/ sock'[c] # "open"
    <3>1. CASE GivesUp(c)
      <4>1. call[c].deadline = FALSE
        BY <2>4, Zenon DEF Registered, Greeting
      <4>2. ServerGone(c)
        BY <3>1, <4>1, Zenon DEF GivesUp
      <4> QED BY <4>2, Zenon DEF ServerGone
    <3>2. CASE ~GivesUp(c)
      BY <2>4, <3>2, Zenon DEF Closes, Asks, Receives, Takes
    <3> QED BY <3>1, <3>2, Zenon
  <2> QED BY <1>4, <2>1, <2>3, <2>4, Zenon
<1>7. Greeting(c)'
  BY <1>1, <1>2, <1>4, <1>5, Zenon DEF Registered, Greeting
<1>8. Added(c)'
  <2> SUFFICES ASSUME Add(c) \in Posted(c), sock'[c] = "open"
               PROVE  call'[c].op = "hello"
    BY <1>1, <1>2, <1>3, Zenon DEF Registered, Added
  <2>1. sock[c] = "open" /\ call[c].op = "hello"
    BY <1>4, Zenon DEF Registered, Added
  <2>2. ~Closes(c) /\ ~Asks(c) /\ ~Receives(c)
    BY <2>1, Zenon DEF Closes, Asks, Receives
  <2>3. ~GivesUp(c)
    <3>1. call[c].deadline = FALSE /\ reader[c] \in {"none", "running"}
      BY <2>1, Zenon DEF Registered, Greeting
    <3>2. reader[c] # "none"
      BY Zenon DEF Registered, Absent
    <3> QED BY <3>1, <3>2, Zenon DEF GivesUp, ServerGone
  <2>4. PICK m : Takes(c, m)
    BY <2>2, <2>3, Zenon
  <2>5. m.type # "hello"
    <3>1. m \in Range(out[c])
      BY <2>4, Leaves, Zenon DEF Takes, ConnShape
    <3> QED BY <3>1, Zenon DEF Registered, Added
  <2>6. ~Awaited(m, c)
    BY <2>1, <2>5, Zenon DEF Awaited
  <2> QED BY <2>1, <2>4, <2>6, Zenon DEF Takes
<1>9. Served(c)' /\ Fresh(c)'
  BY <1>1, <1>2, <1>4, Zenon DEF Registered, Served, Fresh, Reading
<1> QED BY <1>6, <1>7, <1>8, <1>9, Zenon DEF Registered

\* accept_loop takes the connection.
LEMMA AcceptedRegistered ==
    ASSUME IsSeq(cmds), NEW c \in Conns, Registered(c), Accepted(c)
    PROVE  Registered(c)'
<1>1. /\ sock'[c] = sock[c] /\ sock[c] # "none" /\ reader[c] = "none"
      /\ acceptor # "ended" /\ reader'[c] = "running" /\ writer'[c] = "running"
      /\ call'[c] = call[c] /\ up'[c] = up[c] /\ out'[c] = out[c]
      /\ filters'[c] = filters[c] /\ bus' = bus /\ clients' = clients
      /\ pending' = pending
  BY Zenon DEF Accepted, SameCan, SameWire, SameBus, SameAsked
<1>2. Post(Add(c))
  BY AddIs, Zenon DEF Accepted
<1>3. /\ out[c] = <<>> /\ Posted(c) = {} /\ c \notin DOMAIN clients
      /\ sock[c] = "open" => call[c].op = "hello"
  BY <1>1, Zenon DEF Registered, Absent
<1>4. /\ Posted(c)' \subseteq {Add(c)} /\ (bus = "running" => Add(c) \in Posted(c)')
      /\ \A u : Sole(cmds, u) /\ (u = Add(c) => u \notin Posted(c)) => Sole(cmds', u)
  BY <1>2, <1>3, AddIs, OwnPost, Zenon
<1>5. Sole(cmds, Add(c))
  BY <1>3, AddIs, Zenon DEF Sole, Posted, Range
<1>6. Absent(c)' /\ Fresh(c)'
  BY <1>1, Zenon DEF Absent, Fresh
<1>7. Greeting(c)'
  BY <1>1, <1>4, Zenon DEF Registered, Greeting
<1>8. Added(c)'
  BY <1>1, <1>3, <1>4, <1>5, EmptyRange, Zenon DEF Added
<1>9. Served(c)'
  BY <1>1, <1>4, AddIs, Zenon DEF Served
<1> QED BY <1>6, <1>7, <1>8, <1>9, Zenon DEF Registered

\* The reader thread hands on a message.
LEMMA RelaysRegistered ==
    ASSUME IsSeq(cmds), NEW c \in Conns, Registered(c), Relays(c)
    PROVE  Registered(c)'
<1>1. /\ sock'[c] = sock[c] /\ writer'[c] = writer[c] /\ Reading(c) /\ Reading(c)'
      /\ up[c] # <<>> /\ call'[c] = call[c] /\ out'[c] = out[c]
      /\ filters'[c] = filters[c] /\ bus' = bus /\ clients' = clients
      /\ pending' = pending /\ reader'[c] # "none" /\ reader[c] # "none"
  BY Zenon DEF Relays, SameCan, SameBus, SameAsked, Reading
<1>2. /\ Posted(c) \subseteq Posted(c)'
      /\ \A m \in Posted(c)' : m \in Posted(c) \/ (~Removes(m, c) /\ m # Add(c))
      /\ Sole(cmds, Add(c)) => Sole(cmds', Add(c))
  <2>1. CASE cmds' = cmds
    BY <2>1, Zenon DEF Posted
  <2>2. ASSUME NEW x, Post(x), x.id = c, x.cmd \in {"send", "filters"}
        PROVE  /\ Posted(c) \subseteq Posted(c)'
               /\ \A m \in Posted(c)' : m \in Posted(c) \/ (~Removes(m, c) /\ m # Add(c))
               /\ Sole(cmds, Add(c)) => Sole(cmds', Add(c))
    <3>1. About(x, c) /\ ~Removes(x, c) /\ x # Add(c)
      BY <2>2, AddIs, Zenon
    <3>2. /\ Posted(c)' \subseteq Posted(c) \cup {x} /\ Posted(c) \subseteq Posted(c)'
          /\ \A u : Sole(cmds, u) /\ (u = x => u \notin Posted(c)) => Sole(cmds', u)
      BY <2>2, <3>1, OwnPost, Zenon
    <3> QED BY <3>1, <3>2, Zenon
  <2> QED BY <2>1, <2>2, Zenon DEF Relays
<1>3. ~(sock[c] = "open" /\ call[c].op = "hello")
  BY <1>1, Zenon DEF Registered, Greeting
<1>4. Absent(c)' /\ Greeting(c)' /\ Fresh(c)'
  BY <1>1, <1>3, Zenon DEF Registered, Absent, Greeting, Fresh
<1>5. Added(c)'
  BY <1>1, <1>2, Zenon DEF Registered, Added
<1>6. Served(c)'
  BY <1>1, <1>2, Zenon DEF Registered, Served
<1> QED BY <1>4, <1>5, <1>6, Zenon DEF Registered

\* The threads of the connection end.
LEMMA StopsRegistered ==
    ASSUME IsSeq(cmds), NEW c \in Conns, Registered(c), ReaderStops(c) \/ WriterStops(c)
    PROVE  Registered(c)'
<1>1. /\ sock'[c] = sock[c] /\ call'[c] = call[c] /\ filters'[c] = filters[c]
      /\ bus' = bus /\ clients' = clients /\ pending' = pending
      /\ out'[c] \in {out[c], <<>>} /\ up'[c] \in {up[c], <<>>}
  BY Zenon DEF ReaderStops, WriterStops, SameCan, SameBus, SameAsked
<1>2. /\ Posted(c) \subseteq Posted(c)'
      /\ \A m \in Posted(c)' : m \in Posted(c) \/ Removes(m, c)
      /\ Sole(cmds, Add(c)) => Sole(cmds', Add(c))
  <2>1. CASE cmds' = cmds
    BY <2>1, Zenon DEF Posted
  <2>2. ASSUME NEW x, Post(x), Removes(x, c)
        PROVE  /\ Posted(c) \subseteq Posted(c)'
               /\ \A m \in Posted(c)' : m \in Posted(c) \/ Removes(m, c)
               /\ Sole(cmds, Add(c)) => Sole(cmds', Add(c))
    <3>1. About(x, c) /\ x # Add(c)
      BY <2>2, AddIs, Zenon
    <3>2. /\ Posted(c)' \subseteq Posted(c) \cup {x} /\ Posted(c) \subseteq Posted(c)'
          /\ \A u : Sole(cmds, u) /\ (u = x => u \notin Posted(c)) => Sole(cmds', u)
      BY <2>2, <3>1, OwnPost, Zenon
    <3> QED BY <2>2, <3>1, <3>2, Zenon
  <2> QED BY <2>1, <2>2, Zenon DEF ReaderStops, WriterStops
<1>3. Added(c)'
  <2>1. Add(c) \in Posted(c)' => Add(c) \in Posted(c)
    BY <1>2, AddIs, Zenon
  <2>2. Range(out'[c]) \subseteq Range(out[c])
    BY <1>1, EmptyRange, Zenon
  <2> QED BY <1>1, <1>2, <2>1, <2>2, Zenon DEF Registered, Added
<1>4. CASE ReaderStops(c)
  <2>1. reader'[c] = "ended" /\ Reading(c) /\ (up[c] = <<>> => sock[c] = "closed")
    BY <1>4, Zenon DEF ReaderStops
  <2>2. Absent(c)' /\ Served(c)'
    BY <2>1, Zenon DEF Absent, Served, Reading
  <2>3. ~(sock[c] = "open" /\ call[c].op = "hello")
    BY <2>1, Zenon DEF Registered, Greeting
  <2>4. sock[c] # "none"
    BY <2>1, Zenon DEF Registered, Fresh, Reading
  <2>5. Greeting(c)' /\ Fresh(c)'
    BY <1>1, <2>3, <2>4, Zenon DEF Greeting, Fresh
  <2> QED BY <1>3, <2>2, <2>5, Zenon DEF Registered
<1>5. CASE WriterStops(c)
  <2>1. /\ writer[c] = "running" /\ reader'[c] = reader[c] /\ up'[c] = up[c]
        /\ sock[c] = "closed" \/ (SendersDropped(c) /\ cmds' = cmds)
    BY <1>5, Zenon DEF WriterStops
  <2>2. reader[c] # "none"
    BY <2>1, Zenon DEF Registered, Absent
  <2>3. Absent(c)' /\ Fresh(c)'
    BY <1>1, <2>1, <2>2, Zenon DEF Registered, Absent, Fresh
  <2>4. CASE sock[c] = "closed"
    <3>1. Greeting(c)' /\ Served(c)'
      BY <1>1, <2>4, Zenon DEF Greeting, Served
    <3> QED BY <1>3, <2>3, <3>1, Zenon DEF Registered
  <2>5. CASE SendersDropped(c) /\ cmds' = cmds
    <3>1. Posted(c)' = Posted(c)
      BY <2>5, Zenon DEF Posted
    <3>2. Greeting(c)'
      BY <1>1, <2>1, <3>1, Zenon DEF Registered, Greeting
    <3>3. c \notin DOMAIN clients /\ Add(c) \notin Posted(c)
      BY <2>5, Zenon DEF SendersDropped, Posted, Add
    <3>4. Served(c)'
      BY <1>1, <2>1, <3>1, <3>3, Zenon DEF Registered, Served, Reading
    <3> QED BY <1>3, <2>3, <3>2, <3>4, Zenon DEF Registered
  <2> QED BY <2>1, <2>4, <2>5, Zenon
<1> QED BY <1>4, <1>5, Zenon

\* Every step keeps the registrations.
LEMMA RegisteredStep ==
    ASSUME Shapes, \A c \in Conns : Registered(c), [Next]_vars
    PROVE  \A c \in Conns : Registered(c)'
<1> SUFFICES ASSUME NEW c \in Conns PROVE Registered(c)'
  BY Zenon
<1>1. Registered(c) /\ ConnShape(c) /\ IsSeq(cmds)
  BY Zenon DEF Shapes
<1>2. CASE Aside(c) \/ Halts(c)
  BY <1>1, <1>2, AsideRegistered, Zenon
<1>3. CASE Handles(c)
  BY <1>1, <1>3, HandlesRegistered, Zenon
<1>4. CASE Own(c)
  BY <1>1, <1>4, AcceptedRegistered, RelaysRegistered, StopsRegistered,
     ConnectsRegistered, ClientRegistered, Zenon DEF Own
<1> QED BY <1>2, <1>3, <1>4, Steps, Zenon

\* At the start nobody is there.
LEMMA InitRegistered == Init => \A c \in Conns : Registered(c)
<1> SUFFICES ASSUME Init, NEW c \in Conns PROVE Registered(c)
  BY Zenon
<1>1. /\ reader[c] = "none" /\ writer[c] = "none" /\ sock[c] = "none" /\ call[c] = Idle
      /\ up[c] = <<>> /\ out[c] = <<>> /\ filters[c] = <<>>
      /\ cmds = <<>> /\ clients = <<>> /\ pending = <<>>
  BY Zenon DEF Init, ServerInit
<1>2. Posted(c) = {} /\ c \notin DOMAIN clients /\ c \notin DOMAIN pending
  BY <1>1, EmptyRange, SeqNone, Zenon DEF Posted
<1> QED BY <1>1, <1>2, Zenon DEF Registered, Absent, Greeting, Added, Served, Fresh, Reading
===============================================================================
