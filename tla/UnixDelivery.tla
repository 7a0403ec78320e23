----------------------------- MODULE UnixDelivery -----------------------------
(***************************************************************************)
(* What the clients of the Unix bus can count on, whatever the others and  *)
(* the server do: no frame is missed, an acknowledged send was broadcast,  *)
(* and NoAck means that nobody was there.                                  *)
(***************************************************************************)
EXTENDS UnixOrder, FiniteSetTheorems

-------------------------------------------------------------------------------
(* Being alone on the bus *)

\* p has come back from connect, whatever became of it since.
Placed(p) == sock[p] # "none" /\ reader[p] # "none" /\ call[p].op # "hello"

\* None of those that were connected when c's request began still is.
Left(c) == \A p \in peers[c] : ~Connected(p)

\* A NoAck that c will take, or took, says that its peers have left.
Alone(c) ==
    /\ \A p \in peers[c] : p \in Conns /\ p # c /\ Placed(p)
    /\ \A m \in Range(out[c]) :
          m.type = "ack" /\ m.status = "no_ack" /\ m.seq = next_seq[c] - 1 => Left(c)
    /\ result[c] = "no_ack" => Left(c)

\* A client that has left does not come back.
LEMMA StaysPlaced ==
    ASSUME Shapes, [Next]_vars, NEW p \in Conns, Placed(p)
    PROVE  Placed(p)' /\ (Connected(p)' => Connected(p))
<1>1. CASE Aside(p) \/ Handles(p) \/ Halts(p)
  <2>1. sock'[p] = sock[p] /\ reader'[p] = reader[p] /\ call'[p] = call[p]
    BY <1>1, Zenon DEF Aside, Handles, Halts, SameCan, SameThreads, SameWire
  <2> QED BY <2>1, Zenon DEF Placed, Connected, Reading
<1>2. CASE Own(p)
  <2>1. /\ sock'[p] # "none" /\ reader'[p] # "none"
        /\ sock'[p] = "open" => sock[p] = "open"
    BY <1>2, Zenon DEF Placed, Own, Accepted, Relays, ReaderStops, WriterStops, Connects, Closes,
       Asks, GivesUp, Receives, Takes, SameServer, SameThreads, SameWire
  <2>2. Reading(p)' => Reading(p)
    BY <1>2, Zenon DEF Placed, Own, Accepted, Relays, ReaderStops, WriterStops, Connects, Closes,
       Asks, GivesUp, Receives, Takes, SameServer, SameThreads, Reading
  <2>3. call'[p].op # "hello"
    <3>1. CASE Asks(p)
      BY <3>1, IdleIs DEF Asks
    <3>2. CASE ~Asks(p)
      <4>1. call'[p] = call[p] \/ call'[p] = Idle \/ call'[p].op = "recv" \/ Connects(p)
        BY <1>2, <3>2, Zenon DEF Own, Accepted, Relays, ReaderStops, WriterStops, Closes,
           GivesUp, Receives, Takes, SameCan
      <4> QED BY <4>1, IdleIs, Zenon DEF Placed, Connects
    <3> QED BY <3>1, <3>2, Zenon
  <2> QED BY <2>1, <2>2, <2>3, Zenon DEF Placed, Connected
<1> QED BY <1>1, <1>2, Steps, Zenon

\* Two clients are more than one.
LEMMA MoreThanOne ==
    ASSUME NEW S, IsFiniteSet(S), NEW x \in S, NEW y \in S, x # y
    PROVE  ~(Cardinality(S) <= 1)
<1>1. {y} \in SUBSET (S \ {x}) /\ IsFiniteSet(S \ {x})
  BY FS_RemoveElement, Zenon
<1>2. Cardinality({y}) = 1 /\ Cardinality({y}) <= Cardinality(S \ {x})
  BY <1>1, FS_Subset, FS_Singleton, Zenon
<1>3. Cardinality(S \ {x}) = Cardinality(S) - 1 /\ Cardinality(S) \in Nat
  BY FS_RemoveElement, FS_CardinalityType, Zenon
<1> QED BY <1>2, <1>3

\* The bus thread answers NoAck only when it knows the sender alone.
LEMMA HandlesAlone ==
    ASSUME Shapes, [Next]_vars, \A d \in Conns : Registered(d),
           NEW c \in Conns, Alone(c), Handles(c)
    PROVE  Alone(c)'
<1>1. /\ peers'[c] = peers[c] /\ next_seq'[c] = next_seq[c] /\ result'[c] = result[c]
      /\ bus = "running"
  BY Zenon DEF Handles, SameCan, SameAsked
<1>2. \A p \in peers[c] : p \in Conns /\ p # c /\ Placed(p)
  BY Zenon DEF Alone
<1>3. \A p \in peers[c] : Placed(p)' /\ (Connected(p)' => Connected(p))
  BY <1>2, StaysPlaced, Zenon
<1>4. Left(c) => Left(c)'
  BY <1>1, <1>3, Zenon DEF Left
<1>5. /\ \A i \in DOMAIN out[c] : i \in DOMAIN out'[c] /\ out'[c][i] = out[c][i]
      /\ \A i \in DOMAIN out'[c] : i \in DOMAIN out[c] \/ News(c, i)
  BY HandlesOut, Zenon DEF Longer
<1>6. ASSUME NEW i, News(c, i), out'[c][i].type = "ack", out'[c][i].status = "no_ack"
      PROVE  Left(c)'
  <2>1. c \in DOMAIN clients /\ AckStatus = "no_ack"
    BY <1>6, Zenon DEF News
  <2>2. Cardinality(DOMAIN clients) <= 1
    BY <2>1, Zenon DEF AckStatus
  <2>3. IsFiniteSet(DOMAIN clients)
    BY FS_Subset, UnixCanAssumption, Zenon DEF Shapes
  <2> SUFFICES ASSUME NEW p \in peers[c], Connected(p) PROVE FALSE
    BY <1>1, <1>3, Zenon DEF Left
  <2>4. Served(p) /\ Added(p) /\ p # c
    BY <1>2, Zenon DEF Registered
  <2>5. p \in DOMAIN clients
    BY <1>1, <2>4, Zenon DEF Connected, Served, Added
  <2> QED BY <2>1, <2>2, <2>3, <2>4, <2>5, MoreThanOne, Zenon
<1>7. ASSUME NEW m \in Range(out'[c]), m.type = "ack", m.status = "no_ack",
             m.seq = next_seq[c] - 1
      PROVE  Left(c)'
  <2>1. PICK i \in DOMAIN out'[c] : m = out'[c][i]
    BY Zenon DEF Range
  <2>2. CASE i \in DOMAIN out[c]
    <3>1. m \in Range(out[c])
      BY <1>5, <2>1, <2>2, Zenon DEF Range
    <3> QED BY <1>4, <1>7, <3>1, Zenon DEF Alone
  <2> QED BY <1>5, <1>6, <1>7, <2>1, <2>2, Zenon
<1> QED BY <1>1, <1>2, <1>3, <1>4, <1>7, Zenon DEF Alone

\* The threads and the client of c take a step.
LEMMA OwnAlone ==
    ASSUME Shapes, [Next]_vars, NEW c \in Conns, Numbered(c), Alone(c), Own(c)
    PROVE  Alone(c)'
<1>1. ConnShape(c) /\ Range(out'[c]) \subseteq Range(out[c])
  BY OutShrinks, Zenon DEF Shapes
<1>2. \A p \in peers[c] : p \in Conns /\ p # c /\ Placed(p)
  BY Zenon DEF Alone
<1>3. \A p \in peers[c] : Placed(p)' /\ (Connected(p)' => Connected(p))
  BY <1>2, StaysPlaced, Zenon
<1>4. CASE Asks(c)
  <2>1. /\ next_seq'[c] = next_seq[c] + 1 /\ result'[c] = "none"
        /\ peers'[c] = {p \in Conns \ {c} : Connected(p)} /\ next_seq[c] \in Nat \ {0}
    BY <1>1, <1>4, Zenon DEF Asks, ConnShape
  <2>2. \A p \in Conns : Connected(p) => Placed(p)'
    <3>1. \A p \in Conns : Connected(p) => Placed(p)
      BY Zenon DEF Connected, Placed, Reading
    <3> QED BY <3>1, StaysPlaced, Zenon
  <2>3. \A m \in Range(out[c]) : m.type = "ack" => m.seq # next_seq'[c] - 1
    <3>1. \A m \in Range(out[c]) : m.type = "ack" => m.seq \in Past(c)
      BY Zenon DEF Numbered, IsAnswer
    <3>2. \A k \in Past(c) : k # next_seq'[c] - 1
      BY <2>1 DEF Past
    <3> QED BY <3>1, <3>2, Zenon
  <2> QED BY <1>1, <2>1, <2>2, <2>3, Zenon DEF Alone
<1>5. CASE ~Asks(c)
  <2>1. peers'[c] = peers[c] /\ next_seq'[c] = next_seq[c]
    BY <1>5, Zenon DEF Own, Accepted, Relays, ReaderStops, WriterStops, Connects, Closes,
       GivesUp, Receives, Takes, SameCan, SameAsked
  <2>2. Left(c) => Left(c)'
    BY <1>3, <2>1, Zenon DEF Left
  <2>3. result'[c] = "no_ack" => Left(c)
    <3>1. CASE result'[c] = result[c] \/ result'[c] = "none"
      BY <3>1, Zenon DEF Alone
    <3>2. ASSUME NEW m, Takes(c, m), Awaited(m, c), call[c].op = "ack",
                 result'[c] = m.status
          PROVE  result'[c] = "no_ack" => Left(c)
      <4>1. m.type = "ack" /\ m.seq = call[c].seq
        BY <3>2, Zenon DEF Awaited
      <4>2. call[c].seq = next_seq[c] - 1
        BY <3>2, Zenon DEF Numbered
      <4>3. m \in Range(out[c])
        BY <1>1, <3>2, Leaves, Zenon DEF Takes, ConnShape
      <4> QED BY <3>2, <4>1, <4>2, <4>3, Zenon DEF Alone
    <3>3. \/ result'[c] = result[c] \/ result'[c] = "none"
          \/ \E m : /\ Takes(c, m) /\ Awaited(m, c) /\ call[c].op = "ack"
                    /\ result'[c] = m.status
      BY <1>5, Zenon DEF Own, Accepted, Relays, ReaderStops, WriterStops, Connects, Closes,
         GivesUp, Receives, Takes, SameCan
    <3> QED BY <3>1, <3>2, <3>3, Zenon
  <2> QED BY <1>1, <1>2, <1>3, <2>1, <2>2, <2>3, Zenon DEF Alone
<1> QED BY <1>4, <1>5, Zenon

\* Every step keeps what NoAck means.
LEMMA AloneStep ==
    ASSUME Shapes, \A c \in Conns : Registered(c) /\ Numbered(c) /\ Alone(c), [Next]_vars
    PROVE  \A c \in Conns : Alone(c)'
<1> SUFFICES ASSUME NEW c \in Conns PROVE Alone(c)'
  BY Zenon
<1>1. Alone(c) /\ Numbered(c)
  BY Zenon
<1>2. CASE Aside(c) \/ Halts(c)
  <2>1. /\ peers'[c] = peers[c] /\ next_seq'[c] = next_seq[c] /\ result'[c] = result[c]
        /\ out'[c] = out[c]
    BY <1>2, Zenon DEF Aside, Halts, SameCan, SameAsked, SameWire
  <2>2. \A p \in peers[c] : Placed(p)' /\ (Connected(p)' => Connected(p))
    BY <1>1, StaysPlaced, Zenon DEF Alone
  <2> QED BY <1>1, <2>1, <2>2, Zenon DEF Alone, Left
<1>3. CASE Handles(c)
  BY <1>1, <1>3, HandlesAlone, Zenon
<1>4. CASE Own(c)
  BY <1>1, <1>4, OwnAlone, Zenon
<1> QED BY <1>2, <1>3, <1>4, Steps, Zenon

\* A send that returns NoAck was not heard: of the clients connected when it
\* began none is left, for any number of clients.
THEOREM NobodyHeard == Spec => []NoAckMeansAlone
<1> DEFINE Inv == Shapes /\ \A c \in Conns : Registered(c) /\ Numbered(c) /\ Alone(c)
<1>1. Init => Inv
  <2> SUFFICES ASSUME Init PROVE Inv
    BY Zenon
  <2>1. Shapes
    BY InitShapes, Zenon
  <2>2. \A c \in Conns : peers[c] = {} /\ result[c] = "none" /\ out[c] = <<>>
    BY Zenon DEF Init
  <2>3. \A c \in Conns : Alone(c)
    BY <2>2, EmptyRange, Zenon DEF Alone
  <2> QED BY <2>1, <2>3, InitRegistered, InitNumbered, Zenon
<1>2. Inv /\ [Next]_vars => Inv'
  BY ShapesStep, RegisteredStep, NumberedStep, AloneStep, Zenon
<1>3. Inv => NoAckMeansAlone
  BY Zenon DEF NoAckMeansAlone, Alone, Left
<1> QED BY <1>1, <1>2, <1>3, PTL DEF Spec

-------------------------------------------------------------------------------
(* Nothing is missed *)

\* The frame with the number i waits for c to receive it.
Waits(c, i) ==
    \/ \E m \in Range(rx_queue[c]) : m.at = i
    \/ \E m \in Range(out[c]) : IsFrame(m) /\ m.at = i

\* What c is to receive and has not received waits for it.
Kept(c) ==
    Settled(c) =>
        \A i \in DOMAIN log :
            i > since[c] /\ i > last[c] /\ FiltersMatch(InForce(c), log[i]) => Waits(c, i)

\* A step without a broadcast that leaves to c what it has not received.
Keeps(c) ==
    /\ Settled(c) /\ InForce(c)' = InForce(c) /\ since'[c] = since[c] /\ log' = log
    /\ \A i \in DOMAIN log :
          i > last'[c] => i > last[c] /\ (Waits(c, i) => Waits(c, i)')

\* Such a step keeps what waits for c.
LEMMA KeepsKept ==
    ASSUME NEW c, Kept(c), Settled(c)' => Keeps(c)
    PROVE  Kept(c)'
  BY Zenon DEF Kept, Keeps

\* Steps that leave the client's frames and filters alone.
LEMMA SameKept ==
    ASSUME NEW c, Kept(c), Settled(c)' => Settled(c), filters'[c] = filters[c],
           since'[c] = since[c], log' = log, last'[c] = last[c],
           rx_queue'[c] = rx_queue[c], out'[c] = out[c]
    PROVE  Kept(c)'
<1>1. InForce(c)' = InForce(c)
  BY Zenon DEF InForce
<1>2. \A i : Waits(c, i) => Waits(c, i)'
  BY Zenon DEF Waits
<1> QED BY <1>1, <1>2, KeepsKept, Zenon DEF Keeps

\* The bus thread handles a command.
LEMMA HandlesKept ==
    ASSUME Shapes, NEW c \in Conns, Registered(c), Filtered(c), Kept(c), Handles(c)
    PROVE  Kept(c)'
<1> SUFFICES ASSUME Settled(c)' PROVE Kept(c)'
  BY Zenon DEF Kept
<1>1. /\ rx_queue'[c] = rx_queue[c] /\ since'[c] = since[c] /\ last'[c] = last[c]
      /\ call'[c] = call[c] /\ filters'[c] = filters[c] /\ sock'[c] = sock[c]
      /\ reader'[c] = reader[c] /\ bus = "running" /\ IsSeq(log)
      /\ Elsewhere(c) \/ Adds(c) \/ Drops(c) \/ Sets(c) \/ Bcasts(c)
  BY Zenon DEF Handles, SameCan, SameAsked, SameThreads, Shapes
<1>2. Settled(c) /\ InForce(c)' = InForce(c)
  BY <1>1, Zenon DEF Settled, Connected, Reading, InForce
<1>3. Range(out[c]) \subseteq Range(out'[c])
  <2>1. \A i \in DOMAIN out[c] : i \in DOMAIN out'[c] /\ out'[c][i] = out[c][i]
    BY HandlesOut, Zenon DEF Longer
  <2> QED BY <2>1, Zenon DEF Range
<1>4. \A i : Waits(c, i) => Waits(c, i)'
  BY <1>1, <1>3, Zenon DEF Waits
<1>5. CASE ~Bcasts(c)
  <2>1. log' = log
    BY <1>1, <1>5, Zenon DEF Elsewhere, Adds, Drops, Sets
  <2> QED BY <1>1, <1>2, <1>4, <2>1, KeepsKept, Zenon DEF Keeps
<1>6. CASE Bcasts(c)
  <2>0. PICK n : n = Len(log) + 1
    BY Zenon
  <2> DEFINE f == Head(cmds).frame
  <2>1. /\ \A i \in DOMAIN log' : i = n \/ (i \in DOMAIN log /\ log'[i] = log[i])
        /\ log'[n] = f
    <3>1. log' = Append(log, f)
      BY <1>6, Zenon DEF Bcasts
    <3> QED BY <1>1, <2>0, <3>1, SeqAppend, SeqElems
  <2>2. c \in DOMAIN clients /\ writer[c] = "running" /\ clients[c] = InForce(c)
    <3>1. sock[c] = "open" /\ call[c].op # "hello" /\ Reading(c) /\ call[c].op # "filters"
      BY <1>2, Zenon DEF Settled, Connected
    <3>2. c \in DOMAIN clients /\ writer[c] = "running"
      BY <1>1, <3>1, KnownClient, Zenon
    <3> QED BY <3>1, <3>2, Zenon DEF Filtered, Live, Quiet, Exact
  <2>3. FiltersMatch(InForce(c), f) => Waits(c, n)'
    <3> SUFFICES ASSUME FiltersMatch(InForce(c), f) PROVE Waits(c, n)'
      BY Zenon
    <3> DEFINE k == Len(out[c]) + 1
    <3>1. k \in DOMAIN out'[c] /\ IsFrame(out'[c][k]) /\ out'[c][k].at = n
      BY <1>6, <2>2, <2>0, HandlesOut, Zenon
    <3> HIDE DEF k
    <3> QED BY <3>1, Zenon DEF Waits, Range
  <2> HIDE DEF f
  <2> SUFFICES ASSUME NEW i \in DOMAIN log', i > since[c], i > last[c],
                      FiltersMatch(InForce(c), log'[i])
               PROVE  Waits(c, i)'
    BY <1>1, <1>2, Zenon DEF Kept
  <2> QED BY <1>2, <1>4, <2>1, <2>3, Zenon DEF Kept
<1> QED BY <1>5, <1>6, Zenon

\* The threads of the connection.
LEMMA ThreadsKept ==
    ASSUME NEW c \in Conns, Registered(c), Kept(c),
           Accepted(c) \/ Relays(c) \/ ReaderStops(c) \/ WriterStops(c)
    PROVE  Kept(c)'
<1> SUFFICES ASSUME Settled(c)' PROVE Kept(c)'
  BY Zenon DEF Kept
<1>1. /\ sock'[c] = sock[c] /\ call'[c] = call[c] /\ filters'[c] = filters[c]
      /\ since'[c] = since[c] /\ log' = log /\ last'[c] = last[c]
      /\ rx_queue'[c] = rx_queue[c]
  BY Zenon DEF Accepted, Relays, ReaderStops, WriterStops, SameCan, SameWire, SameBus, SameAsked
<1>2. sock[c] = "open" /\ call[c].op # "hello" /\ Reading(c)' /\ call[c].op # "filters"
  BY <1>1, Zenon DEF Settled, Connected
<1>3. ~Accepted(c)
  BY <1>2, Zenon DEF Accepted, Registered, Absent
<1>4. ~ReaderStops(c)
  BY <1>2, Zenon DEF ReaderStops, Reading
<1>5. Settled(c) /\ out'[c] = out[c]
  <2>1. CASE Relays(c)
    BY <1>2, <2>1, Zenon DEF Relays, Settled, Connected
  <2>2. CASE WriterStops(c)
    <3>1. out'[c] = out[c] /\ reader'[c] = reader[c]
      BY <1>2, <2>2, Zenon DEF WriterStops
    <3> QED BY <1>2, <3>1, Zenon DEF Settled, Connected, Reading
  <2> QED BY <1>3, <1>4, <2>1, <2>2, Zenon
<1> QED BY <1>1, <1>5, SameKept, Zenon

\* A client connects, closes, asks or gives up.
LEMMA CallsKept ==
    ASSUME NEW c \in Conns, ConnShape(c), Registered(c), Numbered(c), Kept(c),
           Connects(c) \/ Closes(c) \/ Asks(c) \/ GivesUp(c)
    PROVE  Kept(c)'
<1> SUFFICES ASSUME Settled(c)' PROVE Kept(c)'
  BY Zenon DEF Kept
<1>1. ~Connects(c) /\ ~Closes(c)
  BY Zenon DEF Connects, Closes, Settled, Connected, Idle
<1>2. /\ since'[c] = since[c] /\ log' = log /\ last'[c] = last[c]
      /\ rx_queue'[c] = rx_queue[c] /\ out'[c] = out[c] /\ reader'[c] = reader[c]
      /\ sock'[c] = sock[c]
  BY <1>1, Zenon DEF Asks, GivesUp, SameServer, SameThreads, SameBus, SameWire
<1>3. sock[c] = "open" /\ Reading(c) /\ call'[c].op # "filters"
  BY <1>2, Zenon DEF Settled, Connected, Reading
<1>4. ~ServerGone(c)
  BY <1>3, Zenon DEF ServerGone, Reading
<1>5. CASE Asks(c)
  <2>1. call[c].op = "idle"
    BY <1>5, Zenon DEF Asks
  <2>2. \E op \in {"idle", "ack", "filters"}, deadline \in BOOLEAN : \E msg :
          /\ Asked(c, op, deadline, msg)
          /\ call'[c] = IF op = "idle" THEN Idle ELSE
                [op |-> op, seq |-> next_seq[c], deadline |-> deadline]
    BY <1>4, <1>5, Zenon DEF Asks
  <2>3. filters'[c] = filters[c]
    BY <1>3, <2>2 DEF Asked
  <2>4. Settled(c)
    BY <1>3, <2>1, Zenon DEF Settled, Connected
  <2> QED BY <1>2, <2>3, <2>4, SameKept, Zenon
<1>6. CASE GivesUp(c)
  <2>1. call[c].deadline /\ filters'[c] = filters[c]
    BY <1>4, <1>6, Zenon DEF GivesUp, SameAsked
  <2>2. Settled(c)
    BY <1>3, <2>1, Zenon DEF Settled, Connected, Numbered, Registered, Greeting
  <2> QED BY <1>2, <2>1, <2>2, SameKept, Zenon
<1> QED BY <1>1, <1>5, <1>6, Zenon

\* A program asks for a frame.
LEMMA ReceivesKept ==
    ASSUME IsSeq(log), NEW c \in Conns, ConnShape(c), Ordered(c), Kept(c), Receives(c)
    PROVE  Kept(c)'
<1> SUFFICES ASSUME Settled(c)' PROVE Kept(c)'
  BY Zenon DEF Kept
<1>1. /\ since'[c] = since[c] /\ log' = log /\ filters'[c] = filters[c]
      /\ reader'[c] = reader[c] /\ sock[c] = "open" /\ call[c].op = "idle"
      /\ IsSeq(out[c]) /\ IsSeq(rx_queue[c]) /\ sock'[c] = sock[c]
  BY Zenon DEF Receives, SameServer, SameThreads, SameBus, SameAsked, ConnShape
<1>2. Settled(c) /\ InForce(c)' = InForce(c)
  BY <1>1, Zenon DEF Settled, Connected, Reading, InForce
<1>3. last[c] \in Nat /\ DOMAIN log \subseteq Nat
  BY <1>1, SeqElems DEF Ordered
<1>4. SUFFICES ASSUME NEW i \in DOMAIN log, i > last'[c]
               PROVE  i > last[c] /\ (Waits(c, i) => Waits(c, i)')
  BY <1>1, <1>2, KeepsKept, Zenon DEF Keeps
<1>5. CASE /\ rx_queue[c] # <<>> /\ rx_queue'[c] = Tail(rx_queue[c])
           /\ last'[c] = Head(rx_queue[c]).at /\ out'[c] = out[c]
  <2>1. /\ Head(rx_queue[c]) \in Range(rx_queue[c])
        /\ \A m \in Range(rx_queue[c]) :
              m = Head(rx_queue[c]) \/ m \in Range(Tail(rx_queue[c]))
    BY <1>1, <1>5, Leaves, Zenon
  <2>2. last'[c] \in Nat /\ last'[c] > last[c]
    BY <1>3, <1>5, <2>1, Zenon DEF Ordered, Logged, Range
  <2>3. i > last[c] /\ i # last'[c]
    BY <1>3, <1>4, <2>2
  <2>4. \A m \in Range(rx_queue[c]) : m.at = i => m \in Range(rx_queue'[c])
    BY <1>5, <2>1, <2>3, Zenon
  <2> QED BY <1>5, <2>3, <2>4, Zenon DEF Waits
<1>6. CASE rx_queue'[c] = rx_queue[c] /\ last'[c] = last[c] /\ out'[c] = out[c]
  BY <1>4, <1>6, Zenon DEF Waits
<1>7. ASSUME rx_queue[c] = <<>>, rx_queue'[c] = <<>>, NEW n \in 1..Len(out[c]),
             \A k \in 1..(n - 1) : ~IsFrame(out[c][k]),
             last'[c] = IF IsFrame(out[c][n]) THEN out[c][n].at ELSE last[c],
             out'[c] = SubSeq(out[c], n + 1, Len(out[c]))
      PROVE  i > last[c] /\ (Waits(c, i) => Waits(c, i)')
  <2>1. /\ n \in Nat /\ Len(out[c]) \in Nat /\ DOMAIN out[c] = 1..Len(out[c])
    BY <1>1, SeqElems
  <2>2. /\ DOMAIN out'[c] = 1..(Len(out[c]) - n)
        /\ \A k \in DOMAIN out'[c] : out'[c][k] = out[c][k + n]
    <3>1. out'[c] = SubSeq(out[c], n + 1, Len(out[c]))
      BY <1>7, Zenon
    <3> QED BY <1>1, <3>1, SeqSuffix
  <2>3. /\ last'[c] \in Nat
        /\ last'[c] = last[c] \/ last'[c] > last[c]
    BY <1>3, <1>7, <2>1, Zenon DEF Ordered, Logged
  <2>4. i > last[c] /\ i # last'[c]
    BY <1>3, <1>4, <2>3
  <2>5. ASSUME NEW k \in DOMAIN out[c], IsFrame(out[c][k]), out[c][k].at = i
        PROVE  \E m \in Range(out'[c]) : IsFrame(m) /\ m.at = i
    <3>1. k \notin 1..(n - 1) /\ k # n
      BY <1>7, <2>4, <2>5, Zenon
    <3>2. k - n \in Nat \ {0} /\ k = (k - n) + n
      BY <2>1, <3>1
    <3>3. PICK h \in Nat \ {0} : k = h + n
      BY <3>2, Zenon
    <3>4. h \in DOMAIN out'[c]
      BY <2>1, <2>2, <3>3
    <3>5. out'[c][h] = out[c][k]
      BY <2>2, <3>3, <3>4, Zenon
    <3> QED BY <2>5, <3>4, <3>5, Zenon DEF Range
  <2>6. Range(rx_queue[c]) = {}
    BY <1>7, EmptyRange, Zenon
  <2> QED BY <2>4, <2>5, <2>6, Zenon DEF Waits, Range
<1> QED BY <1>5, <1>6, <1>7, Zenon DEF Receives

\* A call reads a message: a frame that it does not return it queues.
LEMMA TakesKept ==
    ASSUME IsSeq(log), NEW c \in Conns, ConnShape(c), Ordered(c), Kept(c),
           NEW m, Takes(c, m)
    PROVE  Kept(c)'
<1> SUFFICES ASSUME Settled(c)' PROVE Kept(c)'
  BY Zenon DEF Kept
<1>1. /\ log' = log /\ filters'[c] = filters[c] /\ reader'[c] = reader[c]
      /\ sock[c] = "open" /\ IsSeq(out[c]) /\ IsSeq(rx_queue[c])
      /\ out[c] # <<>> /\ m = Head(out[c]) /\ out'[c] = Tail(out[c])
  BY Zenon DEF Takes, SameServer, SameThreads, SameBus, SameAsked, ConnShape
<1>2. InForce(c)' = InForce(c) /\ (Reading(c)' => Reading(c))
  BY <1>1, Zenon DEF InForce, Reading
<1>3. last[c] \in Nat /\ DOMAIN log \subseteq 1..Len(log) /\ Len(log) \in Nat
  BY <1>1, SeqElems DEF Ordered
<1>4. /\ m \in Range(out[c])
      /\ \A x \in Range(out[c]) : x = m \/ x \in Range(out'[c])
  BY <1>1, Leaves, Zenon
<1>5. CASE Awaited(m, c) /\ call[c].op # "ack" /\ since'[c] = Len(log)
  <2>1. \A i \in DOMAIN log : ~(i > since'[c])
    BY <1>3, <1>5
  <2> QED BY <1>1, <2>1, Zenon DEF Kept
<1>6. CASE /\ since'[c] = since[c] /\ last'[c] = last[c]
           /\ call'[c] = call[c] \/ (Awaited(m, c) /\ call[c].op = "ack")
           /\ rx_queue'[c] = IF IsFrame(m) THEN Append(rx_queue[c], m) ELSE rx_queue[c]
  <2>1. Settled(c)
    BY <1>1, <1>2, <1>6, Zenon DEF Settled, Connected
  <2>2. Range(rx_queue[c]) \subseteq Range(rx_queue'[c])
        /\ (IsFrame(m) => m \in Range(rx_queue'[c]))
    <3>1. Range(Append(rx_queue[c], m)) = Range(rx_queue[c]) \cup {m}
      BY <1>1, Joins, Zenon
    <3> QED BY <1>6, <3>1, Zenon
  <2>3. \A i : Waits(c, i) => Waits(c, i)'
    BY <1>4, <2>2, Zenon DEF Waits
  <2> QED BY <1>1, <1>2, <1>6, <2>1, <2>3, KeepsKept, Zenon DEF Keeps
<1>7. CASE /\ since'[c] = since[c] /\ rx_queue'[c] = rx_queue[c] /\ call[c].op = "recv"
           /\ last'[c] = IF IsFrame(m) THEN m.at ELSE last[c]
  <2>1. Settled(c)
    BY <1>1, <1>2, <1>7, Zenon DEF Settled, Connected
  <2>2. IsFrame(m) => last'[c] \in Nat /\ last'[c] > last[c]
    <3>1. IsFrame(m) => m.at \in DOMAIN log /\ m.at > last[c]
      BY <1>4, Zenon DEF Ordered, Logged, Range
    <3> QED BY <1>3, <1>7, <3>1
  <2>3. ASSUME NEW i \in DOMAIN log, i > last'[c]
        PROVE  i > last[c] /\ (Waits(c, i) => Waits(c, i)')
    <3>1. i > last[c] /\ (IsFrame(m) => m.at # i)
      BY <1>3, <1>7, <2>2, <2>3
    <3> QED BY <1>4, <1>7, <3>1, Zenon DEF Waits
  <2> QED BY <1>1, <1>2, <1>7, <2>1, <2>3, KeepsKept, Zenon DEF Keeps
<1> QED
  <2>1. Awaited(m, c) /\ call[c].op = "ack" => ~IsFrame(m)
    BY Zenon DEF Awaited, IsFrame
  <2> QED BY <1>5, <1>6, <1>7, <2>1, Zenon DEF Takes

\* Every step keeps what c has not received.
LEMMA KeptStep ==
    ASSUME Shapes, [Next]_vars,
           \A c \in Conns : Ordered(c) /\ Registered(c) /\ Numbered(c) /\ Filtered(c) /\ Kept(c)
    PROVE  \A c \in Conns : Kept(c)'
<1> SUFFICES ASSUME NEW c \in Conns PROVE Kept(c)'
  BY Zenon
<1>1. /\ Ordered(c) /\ Registered(c) /\ Numbered(c) /\ Filtered(c) /\ Kept(c)
      /\ ConnShape(c) /\ IsSeq(log)
  BY Zenon DEF Shapes
<1>2. CASE Aside(c) \/ Halts(c)
  <2>1. /\ reader'[c] = reader[c] /\ sock'[c] = sock[c] /\ call'[c] = call[c]
        /\ filters'[c] = filters[c] /\ since'[c] = since[c] /\ log' = log
        /\ last'[c] = last[c] /\ rx_queue'[c] = rx_queue[c] /\ out'[c] = out[c]
    BY <1>2, Zenon DEF Aside, Halts, SameCan, SameThreads, SameWire, SameAsked, SameBus
  <2>2. Settled(c)' => Settled(c)
    BY <2>1, Zenon DEF Settled, Connected, Reading
  <2> QED BY <1>1, <2>1, <2>2, SameKept, Zenon
<1>3. CASE Handles(c)
  BY <1>1, <1>3, HandlesKept, Zenon
<1>4. CASE Own(c)
  BY <1>1, <1>4, ThreadsKept, CallsKept, ReceivesKept, TakesKept, Zenon DEF Own
<1> QED BY <1>2, <1>3, <1>4, Steps, Zenon

\* A client that is connected and in no set_filters call gets every frame
\* broadcast since its connect or its last set_filters returned that its
\* filters accept: bus_loop sends it, and the waits for answers
\* queue what they pass over.
THEOREM AllReceived == Spec => []NothingMissed
<1> DEFINE Inv ==
       /\ Shapes
       /\ \A c \in Conns : Ordered(c) /\ Registered(c) /\ Numbered(c) /\ Filtered(c) /\ Kept(c)
<1>1. Init => Inv
  <2> SUFFICES ASSUME Init, NEW c \in Conns PROVE Filtered(c) /\ Kept(c)
    BY InitShapes, InitOrdered, InitRegistered, InitNumbered, Zenon
  <2>1. sock[c] = "none"
    BY Zenon DEF Init
  <2> QED BY <2>1, Zenon DEF Filtered, Live, Kept, Settled, Connected
<1>2. Inv /\ [Next]_vars => Inv'
  BY ShapesStep, OrderStep, RegisteredStep, NumberedStep, FilteredStep, KeptStep, Zenon
<1>3. Inv => NothingMissed
  <2> SUFFICES ASSUME Inv, NEW c \in Conns, NEW i, Waits(c, i)
               PROVE  \E m \in Range(Inbox(c)) : IsFrame(m) /\ m.at = i
    BY Zenon DEF NothingMissed, Kept
  <2> DEFINE b == Inbox(c)
             n == Len(rx_queue[c])
  <2>1. IsSeq(rx_queue[c]) /\ IsSeq(out[c])
    BY Zenon DEF Shapes, ConnShape
  <2>2. /\ n \in Nat /\ DOMAIN rx_queue[c] = 1..n
        /\ Len(out[c]) \in Nat /\ DOMAIN out[c] = 1..Len(out[c])
    BY <2>1, SeqElems, Zenon
  <2>3. /\ DOMAIN b = 1..(n + Len(out[c]))
        /\ \A k \in DOMAIN b : IF k <= n THEN b[k] = rx_queue[c][k]
                                         ELSE b[k] = out[c][k - n]
    BY <2>1, InboxElems, Zenon
  <2> HIDE DEF b, n, Inv
  <2>4. CASE \E m \in Range(rx_queue[c]) : m.at = i
    <3>1. PICK k \in DOMAIN rx_queue[c] : rx_queue[c][k].at = i
      BY <2>4, Zenon DEF Range
    <3>2. k \in DOMAIN b /\ b[k] = rx_queue[c][k]
      BY <2>2, <2>3
    <3>3. IsFrame(rx_queue[c][k])
      BY Zenon DEF Inv, Ordered
    <3> QED BY <3>1, <3>2, <3>3, Zenon DEF Range, b
  <2>5. CASE \E m \in Range(out[c]) : IsFrame(m) /\ m.at = i
    <3>1. PICK k \in DOMAIN out[c] : IsFrame(out[c][k]) /\ out[c][k].at = i
      BY <2>5, Zenon DEF Range
    <3> DEFINE h == k + n
    <3>2. h \in DOMAIN b /\ b[h] = out[c][k]
      BY <2>2, <2>3
    <3> HIDE DEF h
    <3> QED BY <3>1, <3>2, Zenon DEF Range, b
  <2> QED BY <2>4, <2>5, Zenon DEF Waits
<1> QED BY <1>1, <1>2, <1>3, PTL DEF Spec

-------------------------------------------------------------------------------
(* Acknowledged sends *)

\* The number of the latest request of c, and the send that bears it.
Latest(c) == next_seq[c] - 1
Current(m, c) == m.cmd = "send" /\ m.ack /\ m.seq = Latest(c)
Confirms(m, c) == m.type = "ack" /\ m.seq = Latest(c)

\* The send is the last thing c said.
Queued(c) ==
    /\ \A i \in DOMAIN up[c] :
          Current(up[c][i], c) => i = Len(up[c]) /\ call[c].op # "filters"
    /\ sock[c] = "open" => \A m \in Posted(c) :
          Current(m, c) => up[c] = <<>> /\ Reading(c) /\ call[c].op # "filters"

\* The frame i of the log is the one of the send.
Mine(c, i) == i \in DOMAIN log /\ log[i].from = c /\ log[i].no = Latest(c)

\* c has received the frame i, or has it in rx_queue, or finds it in the socket
\* before the message k.
Received(c, i) == last[c] >= i \/ \E m \in Range(rx_queue[c]) : m.at = i
Before(c, k, i) == \E j \in DOMAIN out[c] : j < k /\ IsFrame(out[c][j]) /\ out[c][j].at = i
Got(c, k, i) == Received(c, i) \/ Before(c, k, i)

\* An answer to the latest send is behind the frame it answers for.
Answered(c) ==
    sock[c] = "open" => \A k \in DOMAIN out[c] :
        Confirms(out[c][k], c) =>
            \E i : Mine(c, i) /\ (FiltersMatch(InForce(c), log[i]) => Got(c, k, i))

\* A send that returned with an answer is in the log, and has come back.
Returned(c) ==
    result[c] # "none" =>
        \E i : Mine(c, i) /\ (FiltersMatch(InForce(c), log[i]) => Received(c, i))

\* The messages of earlier requests do not bear the number of the next.
LEMMA NotCurrent ==
    ASSUME NEW c, ConnShape(c), Numbered(c), next_seq'[c] = next_seq[c] + 1
    PROVE  /\ \A m \in Range(up[c]) \cup Posted(c) : ~Current(m, c)'
           /\ \A m \in Range(out[c]) : ~Confirms(m, c)'
<1>1. Latest(c)' = next_seq[c] /\ next_seq[c] \notin Past(c)
  BY DEF Latest, Past, ConnShape
<1>2. ASSUME NEW m \in Range(up[c]) \cup Posted(c), m.cmd = "send"
      PROVE  m.seq \in Past(c)
  <2>1. m.cmd # "torn" /\ m.cmd \in {"send", "filters"}
    BY <1>2, Zenon
  <2> QED BY <1>2, <2>1, Zenon DEF Numbered, Genuine
<1>3. ASSUME NEW m \in Range(out[c]), m.type = "ack"
      PROVE  m.seq \in Past(c)
  BY <1>3, Zenon DEF Numbered, IsAnswer
<1> QED BY <1>1, <1>2, <1>3, Zenon DEF Current, Confirms

\* Steps that leave the messages of c where they are.
LEMMA SameQueued ==
    ASSUME NEW c, Queued(c), up'[c] = up[c], next_seq'[c] = next_seq[c],
           call'[c].op = "filters" => call[c].op = "filters",
           sock'[c] = "open" => sock[c] = "open" /\ (Reading(c) => Reading(c)'),
           sock'[c] = "open" => \A m \in Posted(c)' : m \in Posted(c) \/ m.cmd # "send"
    PROVE  Queued(c)'
<1>1. \A m : Current(m, c)' <=> Current(m, c)
  BY Zenon DEF Current, Latest
<1>2. \A m : Current(m, c) => m.cmd = "send"
  BY Zenon DEF Current
<1> QED BY <1>1, <1>2, Zenon DEF Queued

\* The reader thread hands on a message.
LEMMA RelaysQueued ==
    ASSUME IsSeq(cmds), NEW c \in Conns, ConnShape(c), Queued(c), Relays(c)
    PROVE  Queued(c)'
<1>1. /\ sock'[c] = sock[c] /\ up[c] # <<>> /\ up'[c] = Tail(up[c])
      /\ call'[c] = call[c] /\ next_seq'[c] = next_seq[c] /\ IsSeq(up[c])
  BY Zenon DEF Relays, SameCan, SameAsked, ConnShape
<1>2. Reading(c)'
  BY Zenon DEF Relays, Reading
<1>3. \A m : Current(m, c)' <=> Current(m, c)
  BY <1>1, Zenon DEF Current, Latest
<1>4. /\ Len(up[c]) \in Nat /\ Len(up'[c]) = Len(up[c]) - 1 /\ IsSeq(up'[c])
      /\ DOMAIN up'[c] = 1..Len(up'[c])
      /\ \A i \in DOMAIN up'[c] : i + 1 \in DOMAIN up[c] /\ up'[c][i] = up[c][i + 1]
      /\ 1 \in DOMAIN up[c] /\ Head(up[c]) = up[c][1]
  BY <1>1, SeqElems, SeqTail, Zenon
<1>5. ASSUME NEW i \in DOMAIN up'[c], Current(up'[c][i], c)
      PROVE  i = Len(up'[c]) /\ call[c].op # "filters"
  <2>1. i + 1 = Len(up[c]) /\ call[c].op # "filters"
    BY <1>4, <1>5, Zenon DEF Queued
  <2> QED BY <1>4, <2>1
<1>6. ASSUME sock[c] = "open", NEW m \in Posted(c)', Current(m, c)
      PROVE  up'[c] = <<>> /\ call[c].op # "filters"
  <2>1. m \notin Posted(c)
    BY <1>1, <1>6, Zenon DEF Queued
  <2>2. m = Head(up[c])
    <3>1. CASE cmds' = cmds
      BY <1>6, <2>1, <3>1, Zenon DEF Posted
    <3>2. ASSUME NEW x, Post(x), x.id = c, x.cmd \in {"send", "filters"},
                 \/ x = Head(up[c])
                 \/ x.seq = 0 /\ (x.cmd = "send" => x.ack = FALSE)
          PROVE  m = Head(up[c])
      <4>1. About(x, c)
        BY <3>2, AddIs, Zenon
      <4>2. m = x
        BY <1>6, <2>1, <3>2, <4>1, OwnPost, Zenon
      <4> QED BY <1>6, <3>2, <4>2, Zenon DEF Current
    <3> QED BY <3>1, <3>2, Zenon DEF Relays
  <2>3. 1 = Len(up[c]) /\ call[c].op # "filters"
    BY <1>4, <1>6, <2>2, Zenon DEF Queued
  <2>4. up'[c] = <<>>
    <3>1. Len(up'[c]) = Len(up[c]) - 1 /\ IsSeq(up'[c])
      BY <1>4, Zenon
    <3>2. Len(up'[c]) = 0
      BY <2>3, <3>1
    <3> QED BY <3>1, <3>2, SeqElems
  <2> QED BY <2>3, <2>4, Zenon
<1> QED BY <1>1, <1>2, <1>3, <1>5, <1>6, Zenon DEF Queued

\* A client asks.
LEMMA AsksQueued ==
    ASSUME NEW c \in Conns, ConnShape(c), Numbered(c), Asks(c)
    PROVE  Queued(c)'
<1>1. /\ next_seq'[c] = next_seq[c] + 1 /\ cmds' = cmds /\ call[c].op = "idle"
      /\ IsSeq(up[c])
  BY Zenon DEF Asks, SameServer, SameBus, ConnShape
<1>2. \A m \in Range(up[c]) \cup Posted(c) : ~Current(m, c)'
  BY <1>1, NotCurrent, Zenon
<1>3. \A m \in Posted(c)' : ~Current(m, c)'
  BY <1>1, <1>2, Zenon DEF Posted
<1>4. ASSUME up'[c] = up[c]
      PROVE  \A i \in DOMAIN up'[c] : ~Current(up[c][i], c)'
  BY <1>2, <1>4, Zenon DEF Range
<1>5. ASSUME NEW msg, up'[c] = Append(up[c], msg), msg.cmd = "send" => call'[c].op # "filters"
      PROVE  \A i \in DOMAIN up'[c] :
                Current(up[c][i], c)' => i = Len(up'[c]) /\ call'[c].op # "filters"
  <2> SUFFICES ASSUME NEW i \in DOMAIN up'[c], NEW x, x = up'[c][i], Current(x, c)'
               PROVE  i = Len(up'[c]) /\ call'[c].op # "filters"
    BY Zenon
  <2>1. \/ i \in DOMAIN up[c] /\ up'[c][i] = up[c][i]
        \/ i = Len(up'[c]) /\ up'[c][i] = msg
    BY <1>1, <1>5, SeqElems, SeqAppend
  <2>2. x \notin Range(up[c])
    BY <1>2, Zenon
  <2>3. i = Len(up'[c]) /\ x = msg
    BY <2>1, <2>2, Zenon DEF Range
  <2> QED BY <1>5, <2>3, Zenon DEF Current
<1>6. \/ up'[c] = up[c]
      \/ \E msg : /\ up'[c] = Append(up[c], msg)
                  /\ msg.cmd = "send" => call'[c].op # "filters"
  <2>1. ASSUME NEW op, NEW deadline, NEW msg, Asked(c, op, deadline, msg),
               call'[c] = IF op = "idle" THEN Idle ELSE
                      [op |-> op, seq |-> next_seq[c], deadline |-> deadline]
        PROVE  msg.cmd = "send" => call'[c].op # "filters"
    BY <2>1, IdleIs DEF Asked
  <2> QED BY <2>1, Zenon DEF Asks
<1> QED BY <1>3, <1>4, <1>5, <1>6, Zenon DEF Queued

\* Every step keeps the latest send in its place.
LEMMA QueuedStep ==
    ASSUME Shapes, [Next]_vars,
           \A c \in Conns : Registered(c) /\ Numbered(c) /\ Queued(c)
    PROVE  \A c \in Conns : Queued(c)'
<1> SUFFICES ASSUME NEW c \in Conns PROVE Queued(c)'
  BY Zenon
<1>1. Registered(c) /\ Numbered(c) /\ Queued(c) /\ ConnShape(c) /\ IsSeq(cmds)
  BY Zenon DEF Shapes
<1>2. CASE Aside(c) \/ Halts(c) \/ Handles(c)
  <2>1. /\ up'[c] = up[c] /\ next_seq'[c] = next_seq[c] /\ call'[c] = call[c]
        /\ sock'[c] = sock[c] /\ reader'[c] = reader[c]
    BY <1>2, Zenon DEF Aside, Halts, Handles, SameCan, SameThreads, SameWire, SameAsked
  <2>2. Posted(c)' \subseteq Posted(c)
    BY <1>1, <1>2, AsidePosts, HaltPosts, HandlePosts, Zenon
  <2> QED BY <1>1, <2>1, <2>2, SameQueued, Zenon DEF Reading
<1>3. CASE Accepted(c)
  <2>1. /\ up'[c] = up[c] /\ next_seq'[c] = next_seq[c] /\ call'[c] = call[c]
        /\ sock'[c] = sock[c] /\ reader'[c] = "running"
    BY <1>3, Zenon DEF Accepted, SameCan, SameWire, SameAsked
  <2>2. Post(Add(c)) /\ About(Add(c), c)
    BY <1>3, AddIs, Zenon DEF Accepted
  <2>3. Posted(c)' \subseteq Posted(c) \cup {Add(c)}
    BY <1>1, <2>2, OwnPost, Zenon
  <2>4. Add(c).cmd # "send" /\ Reading(c)'
    BY <2>1, Zenon DEF Add, Reading
  <2> QED BY <1>1, <2>1, <2>3, <2>4, SameQueued, Zenon
<1>4. CASE Relays(c)
  BY <1>1, <1>4, RelaysQueued, Zenon
<1>5. CASE ReaderStops(c)
  <2>1. /\ up'[c] = <<>> /\ sock'[c] = sock[c] /\ next_seq'[c] = next_seq[c]
        /\ up[c] = <<>> => sock[c] = "closed"
    BY <1>5, Zenon DEF ReaderStops, SameCan, SameAsked
  <2>2. PICK x : Removes(x, c) /\ Post(x)
    BY <1>5, Zenon DEF ReaderStops
  <2>3. About(x, c) /\ x.cmd # "send"
    BY <2>2, Zenon DEF Removes, About
  <2>4. Posted(c)' \subseteq Posted(c) \cup {x}
    BY <1>1, <2>2, <2>3, OwnPost, Zenon
  <2>5. \A m : Current(m, c)' => Current(m, c) /\ m.cmd = "send"
    BY <2>1, Zenon DEF Current, Latest
  <2>6. sock[c] = "open" => \A m \in Posted(c)' : ~Current(m, c)'
    BY <1>1, <2>1, <2>3, <2>4, <2>5, Zenon DEF Queued
  <2>7. DOMAIN up'[c] = {}
    BY <2>1, SeqNone, Zenon
  <2> QED BY <2>1, <2>6, <2>7, Zenon DEF Queued
<1>6. CASE WriterStops(c)
  <2>1. /\ up'[c] = up[c] /\ next_seq'[c] = next_seq[c] /\ call'[c] = call[c]
        /\ sock'[c] = sock[c] /\ reader'[c] = reader[c]
    BY <1>6, Zenon DEF WriterStops, SameCan, SameAsked
  <2>2. sock'[c] = "open" => Posted(c)' = Posted(c)
    BY <1>6, Zenon DEF WriterStops, Posted
  <2> QED BY <1>1, <2>1, <2>2, SameQueued, Zenon DEF Reading
<1>7. CASE Asks(c)
  BY <1>1, <1>7, AsksQueued, Zenon
<1>8. CASE Connects(c)
  <2>1. /\ reader[c] = "none" /\ up'[c] = up[c] /\ cmds' = cmds
    BY <1>1, <1>8, Zenon DEF Connects, Registered, Fresh, SameServer, SameBus
  <2>2. up'[c] = <<>> /\ Posted(c)' = {}
    BY <1>1, <2>1, Zenon DEF Registered, Absent, Posted
  <2>3. DOMAIN up'[c] = {}
    BY <2>2, SeqNone, Zenon
  <2> QED BY <2>2, <2>3, Zenon DEF Queued
<1>9. CASE Closes(c) \/ GivesUp(c) \/ Receives(c) \/ \E m : Takes(c, m)
  <2>1. /\ up'[c] = up[c] /\ next_seq'[c] = next_seq[c] /\ cmds' = cmds
        /\ reader'[c] = reader[c]
    BY <1>9, Zenon DEF Closes, GivesUp, Receives, Takes, SameServer, SameThreads, SameBus,
       SameAsked, SameWire
  <2>2. sock'[c] = "open" => sock[c] = "open"
    BY <1>9, Zenon DEF Closes, GivesUp, Receives, Takes, SameWire
  <2>3. call'[c].op = "filters" => call[c].op = "filters"
    <3>1. call'[c] = call[c] \/ call'[c] = Idle \/ call'[c].op = "recv"
      BY <1>9, Zenon DEF Closes, GivesUp, Receives, Takes
    <3> QED BY <3>1, IdleIs, Zenon
  <2>4. Posted(c)' = Posted(c)
    BY <2>1, Zenon DEF Posted
  <2> QED BY <1>1, <2>1, <2>2, <2>3, <2>4, SameQueued, Zenon DEF Reading
<1>10. CASE Own(c)
  BY <1>3, <1>4, <1>5, <1>6, <1>7, <1>8, <1>9, <1>10, Zenon DEF Own
<1> QED BY <1>2, <1>10, Steps, Zenon

\* The messages that are left in the socket, with the frames before them.
Moved(c) ==
    /\ \A i \in DOMAIN log : Received(c, i) => Received(c, i)'
    /\ \A k \in DOMAIN out'[c] : \E h \in DOMAIN out[c] :
          /\ out'[c][k] = out[c][h]
          /\ \A i \in DOMAIN log : Got(c, h, i) => Got(c, k, i)'

\* Steps that leave the client's frames alone.
LEMMA SameMoved ==
    ASSUME NEW c, last'[c] = last[c], rx_queue'[c] = rx_queue[c],
           out'[c] = out[c] \/ out'[c] = <<>>
    PROVE  Moved(c)
<1>1. \A i : Received(c, i) => Received(c, i)'
  BY Zenon DEF Received
<1>2. CASE out'[c] = out[c]
  <2>1. \A k, i : Got(c, k, i) => Got(c, k, i)'
    BY <1>1, <1>2, Zenon DEF Got, Before
  <2> QED BY <1>1, <1>2, <2>1, Zenon DEF Moved
<1>3. CASE out'[c] = <<>>
  <2>1. DOMAIN out'[c] = {}
    BY <1>3, SeqNone, Zenon
  <2> QED BY <1>1, <2>1, Zenon DEF Moved
<1> QED BY <1>2, <1>3, Zenon

\* A program asks for a frame.
LEMMA ReceivesMoved ==
    ASSUME IsSeq(log), NEW c \in Conns, ConnShape(c), Ordered(c), Receives(c)
    PROVE  Moved(c)
<1>1. IsSeq(out[c]) /\ IsSeq(rx_queue[c])
  BY Zenon DEF ConnShape
<1>2. last[c] \in Nat /\ DOMAIN log \subseteq Nat
  BY SeqElems DEF Ordered
<1>3. CASE /\ rx_queue[c] # <<>> /\ rx_queue'[c] = Tail(rx_queue[c])
           /\ last'[c] = Head(rx_queue[c]).at /\ out'[c] = out[c]
  <2>1. /\ Head(rx_queue[c]) \in Range(rx_queue[c])
        /\ \A m \in Range(rx_queue[c]) :
              m = Head(rx_queue[c]) \/ m \in Range(Tail(rx_queue[c]))
    BY <1>1, <1>3, Leaves, Zenon
  <2>2. last'[c] \in Nat /\ last'[c] > last[c]
    BY <1>2, <1>3, <2>1, Zenon DEF Ordered, Logged, Range
  <2>3. ASSUME NEW i \in DOMAIN log, Received(c, i)
        PROVE  Received(c, i)'
    <3>1. last[c] >= i => last'[c] >= i
      BY <1>2, <2>2
    <3>2. last'[c] = i => last'[c] >= i
      BY <1>2, <2>2
    <3> QED BY <1>3, <2>1, <2>3, <3>1, <3>2, Zenon DEF Received
  <2>4. \A k : \A i \in DOMAIN log : Got(c, k, i) => Got(c, k, i)'
    BY <1>3, <2>3, Zenon DEF Got, Before
  <2> QED BY <1>3, <2>3, <2>4, Zenon DEF Moved
<1>4. CASE rx_queue'[c] = rx_queue[c] /\ last'[c] = last[c] /\ out'[c] = out[c]
  BY <1>4, SameMoved, Zenon
<1>5. ASSUME rx_queue[c] = <<>>, rx_queue'[c] = <<>>, NEW n \in 1..Len(out[c]),
             \A k \in 1..(n - 1) : ~IsFrame(out[c][k]),
             last'[c] = IF IsFrame(out[c][n]) THEN out[c][n].at ELSE last[c],
             out'[c] = SubSeq(out[c], n + 1, Len(out[c]))
      PROVE  Moved(c)
  <2>1. /\ n \in Nat /\ Len(out[c]) \in Nat /\ DOMAIN out[c] = 1..Len(out[c])
    BY <1>1, SeqElems
  <2>2. /\ DOMAIN out'[c] = 1..(Len(out[c]) - n)
        /\ \A k \in DOMAIN out'[c] : k + n \in DOMAIN out[c] /\ out'[c][k] = out[c][k + n]
    <3>1. out'[c] = SubSeq(out[c], n + 1, Len(out[c]))
      BY <1>5, Zenon
    <3> QED BY <1>1, <3>1, SeqSuffix
  <2>3. /\ last'[c] \in Nat
        /\ last'[c] = last[c] \/ last'[c] > last[c]
    BY <1>2, <1>5, <2>1, Zenon DEF Ordered, Logged
  <2>4. ASSUME NEW i \in DOMAIN log
        PROVE  /\ last[c] >= i => last'[c] >= i
               /\ last'[c] = i => last'[c] >= i
    BY <1>2, <2>3
  <2>5. ASSUME NEW i \in DOMAIN log, Received(c, i)
        PROVE  Received(c, i)'
    BY <1>5, <2>4, <2>5, Zenon DEF Received
  <2>6. ASSUME NEW k \in DOMAIN out'[c], NEW i \in DOMAIN log, Before(c, k + n, i)
        PROVE  Got(c, k, i)'
    <3>1. PICK j \in DOMAIN out[c] : j < k + n /\ IsFrame(out[c][j]) /\ out[c][j].at = i
      BY <2>6, Zenon DEF Before
    <3>2. j \notin 1..(n - 1)
      BY <1>5, <3>1, Zenon
    <3>3. CASE j = n
      <4>1. last'[c] = i
        BY <1>5, <3>1, <3>3, Zenon
      <4> QED BY <2>4, <4>1, Zenon DEF Got, Received
    <3>4. CASE j # n
      <4>1. j - n \in Nat \ {0} /\ j = (j - n) + n
        BY <2>1, <3>2, <3>4
      <4>2. PICK h \in Nat \ {0} : j = h + n
        BY <4>1, Zenon
      <4>3. h \in DOMAIN out'[c] /\ h < k
        BY <2>1, <2>2, <3>1, <4>2
      <4>4. out'[c][h] = out[c][j]
        BY <2>2, <4>2, <4>3, Zenon
      <4> QED BY <3>1, <4>3, <4>4, Zenon DEF Got, Before
    <3> QED BY <3>3, <3>4, Zenon
  <2>7. ASSUME NEW k \in DOMAIN out'[c]
        PROVE  \E h \in DOMAIN out[c] :
                  /\ out'[c][k] = out[c][h]
                  /\ \A i \in DOMAIN log : Got(c, h, i) => Got(c, k, i)'
    <3>1. PICK h : h = k + n
      BY Zenon
    <3>2. \A i \in DOMAIN log : Got(c, h, i) => Got(c, k, i)'
      BY <2>5, <2>6, <3>1, Zenon DEF Got
    <3> QED BY <2>2, <3>1, <3>2, Zenon
  <2> QED BY <2>5, <2>7, Zenon DEF Moved
<1> QED BY <1>3, <1>4, <1>5, Zenon DEF Receives

\* A call reads a message.
LEMMA TakesMoved ==
    ASSUME IsSeq(log), NEW c \in Conns, ConnShape(c), Ordered(c), NEW m, Takes(c, m)
    PROVE  Moved(c)
<1>1. /\ IsSeq(out[c]) /\ IsSeq(rx_queue[c])
      /\ out[c] # <<>> /\ m = Head(out[c]) /\ out'[c] = Tail(out[c])
  BY Zenon DEF Takes, ConnShape
<1>2. last[c] \in Nat /\ DOMAIN log \subseteq Nat
  BY SeqElems DEF Ordered
<1>3. /\ Len(out[c]) \in Nat /\ DOMAIN out[c] = 1..Len(out[c])
      /\ DOMAIN out'[c] = 1..(Len(out[c]) - 1)
      /\ 1 \in DOMAIN out[c] /\ m = out[c][1]
      /\ \A k \in DOMAIN out'[c] : k + 1 \in DOMAIN out[c] /\ out'[c][k] = out[c][k + 1]
  BY <1>1, SeqElems, SeqTail, Zenon
<1>4. IsFrame(m) => m.at \in DOMAIN log /\ m.at > last[c]
  BY <1>3, Zenon DEF Ordered, Logged
<1>5. /\ \A i \in DOMAIN log : Received(c, i) => Received(c, i)'
      /\ IsFrame(m) => \A i : i = m.at => Received(c, i)'
  <2>1. CASE /\ last'[c] = last[c]
             /\ rx_queue'[c] = IF IsFrame(m) THEN Append(rx_queue[c], m) ELSE rx_queue[c]
    <3>1. Range(Append(rx_queue[c], m)) = Range(rx_queue[c]) \cup {m}
      BY <1>1, Joins, Zenon
    <3>2. Range(rx_queue[c]) \subseteq Range(rx_queue'[c])
          /\ (IsFrame(m) => m \in Range(rx_queue'[c]))
      BY <2>1, <3>1, Zenon
    <3> QED BY <2>1, <3>2, Zenon DEF Received
  <2>2. CASE /\ rx_queue'[c] = rx_queue[c]
             /\ last'[c] = IF IsFrame(m) THEN m.at ELSE last[c]
    <3>1. ASSUME NEW i \in DOMAIN log
          PROVE  last[c] >= i => last'[c] >= i
      BY <1>2, <1>4, <2>2
    <3>2. ASSUME IsFrame(m), NEW i, i = m.at
          PROVE  last'[c] >= i
      BY <1>2, <1>4, <2>2, <3>2
    <3> QED BY <2>2, <3>1, <3>2, Zenon DEF Received
  <2>3. Awaited(m, c) => ~IsFrame(m)
    BY Zenon DEF Awaited, IsFrame
  <2> QED BY <2>1, <2>2, <2>3, Zenon DEF Takes
<1>6. ASSUME NEW k \in DOMAIN out'[c], NEW i \in DOMAIN log, Before(c, k + 1, i)
      PROVE  Got(c, k, i)'
  <2>1. PICK j \in DOMAIN out[c] : j < k + 1 /\ IsFrame(out[c][j]) /\ out[c][j].at = i
    BY <1>6, Zenon DEF Before
  <2>2. CASE j = 1
    BY <1>3, <1>5, <2>1, <2>2, Zenon DEF Got
  <2>3. CASE j # 1
    <3>1. j - 1 \in Nat /\ j = (j - 1) + 1
      BY <1>3, <2>3
    <3>2. PICK h \in Nat : j = h + 1
      BY <3>1, Zenon
    <3>3. h \in DOMAIN out'[c] /\ h < k
      BY <1>3, <2>1, <2>3, <3>2
    <3>4. out'[c][h] = out[c][j]
      BY <1>3, <3>2, <3>3, Zenon
    <3> QED BY <2>1, <3>3, <3>4, Zenon DEF Got, Before
  <2> QED BY <2>2, <2>3, Zenon
<1>7. ASSUME NEW k \in DOMAIN out'[c]
      PROVE  \E h \in DOMAIN out[c] :
                /\ out'[c][k] = out[c][h]
                /\ \A i \in DOMAIN log : Got(c, h, i) => Got(c, k, i)'
  <2>1. PICK h : h = k + 1
    BY Zenon
  <2>2. \A i \in DOMAIN log : Got(c, h, i) => Got(c, k, i)'
    BY <1>5, <1>6, <2>1, Zenon DEF Got
  <2> QED BY <1>3, <2>1, <2>2, Zenon
<1> QED BY <1>5, <1>7, Zenon DEF Moved

\* Where no request is made the answers stay right.
LEMMA MovedAnswered ==
    ASSUME NEW c, Answered(c), Moved(c), log' = log, next_seq'[c] = next_seq[c],
           filters'[c] = filters[c], sock'[c] = "open" => sock[c] = "open"
    PROVE  Answered(c)'
<1> SUFFICES ASSUME sock[c] = "open", NEW k \in DOMAIN out'[c], NEW x, x = out'[c][k],
                    Confirms(x, c)'
             PROVE  \E i : Mine(c, i)' /\ (FiltersMatch(InForce(c)', log'[i]) => Got(c, k, i)')
  BY Zenon DEF Answered
<1>1. InForce(c)' = InForce(c) /\ \A i : Mine(c, i)' <=> Mine(c, i)
  BY Zenon DEF InForce, Mine, Latest
<1>2. PICK h \in DOMAIN out[c] :
        /\ x = out[c][h] /\ \A i \in DOMAIN log : Got(c, h, i) => Got(c, k, i)'
  BY Zenon DEF Moved
<1>3. Confirms(out[c][h], c)
  BY <1>2, Zenon DEF Confirms, Latest
<1>4. PICK i : Mine(c, i) /\ (FiltersMatch(InForce(c), log[i]) => Got(c, h, i))
  BY <1>3, Zenon DEF Answered
<1> QED BY <1>1, <1>2, <1>4, Zenon DEF Mine

\* Where no request is made what a send returned stays right.
LEMMA MovedReturned ==
    ASSUME NEW c, Returned(c), Moved(c), log' = log, next_seq'[c] = next_seq[c],
           filters'[c] = filters[c], result'[c] # "none" => result[c] # "none"
    PROVE  Returned(c)'
<1>1. InForce(c)' = InForce(c) /\ \A i : Mine(c, i)' <=> Mine(c, i)
  BY Zenon DEF InForce, Mine, Latest
<1>2. \A i : Mine(c, i) /\ Received(c, i) => Received(c, i)'
  BY Zenon DEF Moved, Mine
<1> QED BY <1>1, <1>2, Zenon DEF Returned

\* The bus thread broadcasts the frame of a send before it acknowledges it.
LEMMA HandlesAnswered ==
    ASSUME Shapes, NEW c \in Conns, Numbered(c), Filtered(c), Queued(c), Handles(c),
           Answered(c), Returned(c)
    PROVE  Answered(c)' /\ Returned(c)'
<1>1. /\ rx_queue'[c] = rx_queue[c] /\ last'[c] = last[c] /\ next_seq'[c] = next_seq[c]
      /\ filters'[c] = filters[c] /\ sock'[c] = sock[c] /\ result'[c] = result[c]
      /\ IsSeq(log) /\ IsSeq(cmds)
      /\ Elsewhere(c) \/ Adds(c) \/ Drops(c) \/ Sets(c) \/ Bcasts(c)
  BY Zenon DEF Handles, SameCan, SameAsked, Shapes
<1>2. /\ \A i \in DOMAIN out[c] : i \in DOMAIN out'[c] /\ out'[c][i] = out[c][i]
      /\ \A i \in DOMAIN out'[c] : i \in DOMAIN out[c] \/ News(c, i)
  BY HandlesOut, Zenon DEF Longer
<1>3. InForce(c)' = InForce(c) /\ Latest(c)' = Latest(c)
  BY <1>1, Zenon DEF InForce, Latest
<1>4. \A i \in DOMAIN log : i \in DOMAIN log' /\ log'[i] = log[i]
  <2>1. CASE Bcasts(c)
    <3>1. log' = Append(log, Head(cmds).frame)
      BY <2>1, Zenon DEF Bcasts
    <3> QED BY <1>1, <3>1, SeqAppend, SeqElems
  <2>2. CASE ~Bcasts(c)
    BY <1>1, <2>2, Zenon DEF Elsewhere, Adds, Drops, Sets
  <2> QED BY <2>1, <2>2, Zenon
<1>5. \A i : Mine(c, i) => Mine(c, i)' /\ log'[i] = log[i]
  BY <1>3, <1>4, Zenon DEF Mine
<1>6. /\ \A i : Received(c, i) => Received(c, i)'
      /\ \A k, i : Got(c, k, i) => Got(c, k, i)'
  BY <1>1, <1>2, Zenon DEF Received, Got, Before
<1>7. Returned(c)'
  BY <1>1, <1>3, <1>5, <1>6, Zenon DEF Returned
<1>8. ASSUME sock[c] = "open", NEW k \in DOMAIN out'[c], Confirms(out'[c][k], c)
      PROVE  \E i : Mine(c, i)' /\ (FiltersMatch(InForce(c), log'[i]) => Got(c, k, i)')
  <2>1. CASE k \in DOMAIN out[c]
    <3>1. PICK i : Mine(c, i) /\ (FiltersMatch(InForce(c), log[i]) => Got(c, k, i))
      BY <1>2, <1>8, <2>1, Zenon DEF Answered
    <3> QED BY <1>5, <1>6, <3>1, Zenon
  <2>2. CASE k \notin DOMAIN out[c]
    <3> DEFINE cmd == Head(cmds)
               h == Len(out[c]) + 1
    <3>1. News(c, k) /\ out'[c][k].type = "ack" /\ out'[c][k].seq = Latest(c)
      BY <1>2, <1>8, <2>2, Zenon DEF Confirms
    <3>2. /\ Bcasts(c) /\ cmd.ack /\ cmd.id = c /\ cmd.seq = Latest(c)
          /\ c \in DOMAIN clients
          /\ FiltersMatch(clients[c], cmd.frame) =>
                k > h /\ IsFrame(out'[c][h]) /\ out'[c][h].at = Len(log) + 1
      BY <3>1, Zenon DEF News
    <3>3. cmd.cmd = "send" /\ log' = Append(log, cmd.frame)
      BY <3>2, Zenon DEF Bcasts
    <3>4. cmd \in Posted(c) /\ Current(cmd, c)
      <4>1. About(cmd, c)
        BY <3>2, <3>3, Zenon DEF About
      <4> QED BY <1>1, <3>2, <3>3, <4>1, HandlePosts, Zenon DEF Current
    <3>5. cmd.frame.from = c /\ cmd.frame.no = Latest(c)
      <4>1. cmd.cmd \in {"send", "filters"}
        BY <3>3, Zenon
      <4> QED BY <3>2, <3>3, <3>4, <4>1, Zenon DEF Numbered, Genuine
    <3>6. clients[c] = InForce(c)
      <4>1. Reading(c) /\ call[c].op # "filters"
        BY <1>8, <3>4, Zenon DEF Queued
      <4> QED BY <1>8, <3>2, <4>1, Zenon DEF Filtered, Live, Quiet, Exact
    <3>7. PICK n : n = Len(log) + 1
      BY Zenon
    <3>8. n \in DOMAIN log' /\ log'[n] = cmd.frame
      BY <1>1, <3>3, <3>7, SeqAppend, SeqElems
    <3>9. Mine(c, n)'
      BY <1>3, <3>5, <3>8, Zenon DEF Mine
    <3>10. ASSUME FiltersMatch(InForce(c), cmd.frame)
           PROVE  Got(c, k, n)'
      <4>1. k > h /\ IsFrame(out'[c][h]) /\ out'[c][h].at = n
        BY <3>2, <3>6, <3>7, <3>10, Zenon
      <4>2. h \in DOMAIN out'[c] /\ h < k
        <5>1. IsSeq(out[c]) /\ IsSeq(out'[c])
          BY HandlesOut, Zenon DEF Longer, Shapes, ConnShape
        <5>2. Len(out[c]) \in Nat /\ Len(out'[c]) \in Nat /\ DOMAIN out'[c] = 1..Len(out'[c])
          BY <5>1, SeqElems, Zenon
        <5> QED BY <4>1, <5>2
      <4> HIDE DEF h
      <4> QED BY <4>1, <4>2, Zenon DEF Got, Before
    <3> HIDE DEF cmd, h
    <3> QED BY <3>8, <3>9, <3>10, Zenon
  <2> QED BY <2>1, <2>2, Zenon
<1>9. Answered(c)'
  <2>1. \A m : Confirms(m, c)' <=> Confirms(m, c)
    BY <1>3, Zenon DEF Confirms
  <2> QED BY <1>1, <1>3, <1>8, <2>1, Zenon DEF Answered
<1> QED BY <1>7, <1>9, Zenon

\* A client asks: nothing that is on its way answers the new request.
LEMMA AsksAnswered ==
    ASSUME NEW c \in Conns, ConnShape(c), Numbered(c), Asks(c)
    PROVE  Answered(c)' /\ Returned(c)'
<1>1. next_seq'[c] = next_seq[c] + 1 /\ out'[c] = out[c] /\ result'[c] = "none"
  BY Zenon DEF Asks
<1>2. \A m \in Range(out[c]) : ~Confirms(m, c)'
  BY <1>1, NotCurrent, Zenon
<1>3. ASSUME NEW k \in DOMAIN out'[c], NEW x, x = out'[c][k]
      PROVE  ~Confirms(x, c)'
  BY <1>1, <1>2, <1>3, Zenon DEF Range
<1> QED BY <1>1, <1>3, Zenon DEF Answered, Returned

\* A call reads a message.
LEMMA TakesReturned ==
    ASSUME IsSeq(log), NEW c \in Conns, ConnShape(c), Ordered(c), Numbered(c),
           Answered(c), Returned(c), NEW m, Takes(c, m)
    PROVE  Returned(c)'
<1>1. /\ log' = log /\ next_seq'[c] = next_seq[c] /\ filters'[c] = filters[c]
      /\ sock[c] = "open" /\ out[c] # <<>> /\ m = Head(out[c]) /\ IsSeq(out[c])
      /\ result'[c] = result[c] \/ (Awaited(m, c) /\ call[c].op = "ack")
  BY Zenon DEF Takes, SameServer, SameBus, SameAsked, ConnShape
<1>2. Moved(c)
  BY TakesMoved, Zenon
<1>3. CASE result'[c] = result[c]
  BY <1>1, <1>2, <1>3, MovedReturned, Zenon
<1>4. CASE Awaited(m, c) /\ call[c].op = "ack"
  <2>1. 1 \in DOMAIN out[c] /\ out[c][1] = m /\ DOMAIN out[c] = 1..Len(out[c])
    BY <1>1, SeqTail, SeqElems, Zenon
  <2>2. Confirms(m, c)
    BY <1>4, Zenon DEF Awaited, Numbered, Confirms, Latest
  <2>3. PICK i : Mine(c, i) /\ (FiltersMatch(InForce(c), log[i]) => Got(c, 1, i))
    BY <1>1, <2>1, <2>2, Zenon DEF Answered
  <2>4. ~Before(c, 1, i)
    BY <2>1 DEF Before
  <2>5. Received(c, i) => Received(c, i)'
    BY <1>2, <2>3, Zenon DEF Moved, Mine
  <2>6. InForce(c)' = InForce(c) /\ Mine(c, i)'
    BY <1>1, <2>3, Zenon DEF InForce, Mine, Latest
  <2> QED BY <1>1, <2>3, <2>4, <2>5, <2>6, Zenon DEF Returned, Got
<1> QED BY <1>1, <1>3, <1>4, Zenon

\* Every step keeps the answers.
LEMMA AnsweredStep ==
    ASSUME Shapes, [Next]_vars,
           \A c \in Conns : /\ Ordered(c) /\ Registered(c) /\ Numbered(c) /\ Filtered(c)
                            /\ Queued(c) /\ Answered(c) /\ Returned(c)
    PROVE  \A c \in Conns : Answered(c)' /\ Returned(c)'
<1> SUFFICES ASSUME NEW c \in Conns PROVE Answered(c)' /\ Returned(c)'
  BY Zenon
<1>1. /\ Ordered(c) /\ Registered(c) /\ Numbered(c) /\ Filtered(c)
      /\ Queued(c) /\ Answered(c) /\ Returned(c)
      /\ ConnShape(c) /\ IsSeq(log)
  BY Zenon DEF Shapes
<1>2. CASE Handles(c)
  BY <1>1, <1>2, HandlesAnswered, Zenon
<1>3. CASE Asks(c)
  BY <1>1, <1>3, AsksAnswered, Zenon
<1>4. ASSUME Moved(c), log' = log, next_seq'[c] = next_seq[c], filters'[c] = filters[c],
             sock'[c] = sock[c], result'[c] = result[c]
      PROVE  Answered(c)' /\ Returned(c)'
  BY <1>1, <1>4, MovedAnswered, MovedReturned, Zenon
<1>5. CASE Aside(c) \/ Halts(c) \/ Accepted(c) \/ Relays(c) \/ ReaderStops(c) \/ WriterStops(c)
  <2>1. /\ log' = log /\ next_seq'[c] = next_seq[c] /\ filters'[c] = filters[c]
        /\ sock'[c] = sock[c] /\ result'[c] = result[c] /\ last'[c] = last[c]
        /\ rx_queue'[c] = rx_queue[c] /\ (out'[c] = out[c] \/ out'[c] = <<>>)
    BY <1>5, Zenon DEF Aside, Halts, Accepted, Relays, ReaderStops, WriterStops, SameCan,
       SameWire, SameBus, SameAsked
  <2> QED BY <1>4, <2>1, SameMoved, Zenon
<1>6. CASE GivesUp(c)
  <2>1. /\ log' = log /\ next_seq'[c] = next_seq[c] /\ filters'[c] = filters[c]
        /\ sock'[c] = sock[c] /\ result'[c] = result[c] /\ last'[c] = last[c]
        /\ rx_queue'[c] = rx_queue[c] /\ out'[c] = out[c]
    BY <1>6, Zenon DEF GivesUp, SameServer, SameWire, SameBus, SameAsked
  <2> QED BY <1>4, <2>1, SameMoved, Zenon
<1>7. CASE Closes(c)
  BY <1>7, Zenon DEF Closes, Answered, Returned
<1>8. CASE Connects(c)
  <2>1. /\ log' = log /\ next_seq'[c] = next_seq[c] /\ filters'[c] = filters[c]
        /\ result'[c] = result[c] /\ last'[c] = last[c] /\ reader[c] = "none"
        /\ rx_queue'[c] = rx_queue[c] /\ out'[c] = out[c]
    BY <1>1, <1>8, Zenon DEF Connects, SameServer, SameBus, SameAsked, Registered, Fresh
  <2>2. Returned(c)'
    BY <1>1, <2>1, SameMoved, MovedReturned, Zenon
  <2>3. DOMAIN out'[c] = {}
    BY <1>1, <2>1, SeqNone, Zenon DEF Registered, Absent
  <2> QED BY <2>2, <2>3, Zenon DEF Answered
<1>9. CASE Receives(c)
  <2>1. /\ log' = log /\ next_seq'[c] = next_seq[c] /\ filters'[c] = filters[c]
        /\ sock'[c] = sock[c] /\ result'[c] = result[c]
    BY <1>9, Zenon DEF Receives, SameServer, SameBus, SameAsked
  <2> QED BY <1>1, <1>4, <1>9, <2>1, ReceivesMoved, Zenon
<1>10. ASSUME NEW m, Takes(c, m)
       PROVE  Answered(c)' /\ Returned(c)'
  <2>1. /\ log' = log /\ next_seq'[c] = next_seq[c] /\ filters'[c] = filters[c]
        /\ sock'[c] = sock[c]
    BY <1>10, Zenon DEF Takes, SameServer, SameBus, SameAsked
  <2>2. Answered(c)'
    BY <1>1, <1>10, <2>1, TakesMoved, MovedAnswered, Zenon
  <2> QED BY <1>1, <1>10, <2>2, TakesReturned, Zenon
<1>11. CASE Own(c)
  BY <1>3, <1>5, <1>6, <1>7, <1>8, <1>9, <1>10, <1>11, Zenon DEF Own
<1> QED BY <1>2, <1>5, <1>11, Steps, Zenon

\* A send that returned with an acknowledgement was broadcast, and its own
\* frame came first if the sender's filters accept it: bus_loop answers after
\* the broadcast, and wait_for_ack compares the sequence numbers.
THEOREM AckIsOfTheSend == Spec => []AckedWasSent
<1> DEFINE Inv ==
       /\ Shapes
       /\ \A c \in Conns : /\ Ordered(c) /\ Registered(c) /\ Numbered(c) /\ Filtered(c)
                           /\ Queued(c) /\ Answered(c) /\ Returned(c)
<1>1. Init => Inv
  <2> SUFFICES ASSUME Init, NEW c \in Conns
               PROVE  Filtered(c) /\ Queued(c) /\ Answered(c) /\ Returned(c)
    BY InitShapes, InitOrdered, InitRegistered, InitNumbered, Zenon
  <2>1. sock[c] = "none" /\ up[c] = <<>> /\ result[c] = "none"
    BY Zenon DEF Init, ServerInit
  <2> QED BY <2>1, SeqNone, Zenon DEF Filtered, Live, Queued, Answered, Returned
<1>2. Inv /\ [Next]_vars => Inv'
  BY ShapesStep, OrderStep, RegisteredStep, NumberedStep, FilteredStep, QueuedStep,
     AnsweredStep, Zenon
<1>3. Inv => AckedWasSent
  BY Zenon DEF AckedWasSent, Returned, Mine, Latest, Received
<1> QED BY <1>1, <1>2, <1>3, PTL DEF Spec
===============================================================================
