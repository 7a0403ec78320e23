------------------------------ MODULE UnixOrder -------------------------------
(***************************************************************************)
(* What the Unix bus keeps for any clients, identifiers, filter lists,     *)
(* programs and moments of shutdown: the order of the frames, the filters  *)
(* it applies, and what it remembers of its connections.                   *)
(***************************************************************************)
EXTENDS UnixProofs

-------------------------------------------------------------------------------
(* The order of the bus *)

Logged(m, l) == m.at \in DOMAIN l /\ m.frame = l[m.at]

\* What c has not received continues what it received, in the order of the log.
\* What waits in rx_queue comes before what waits in the socket, and a call
\* of recv looks at the socket only when rx_queue is empty.
Ordered(c) ==
    LET rx == rx_queue[c]
        q == out[c]
    IN  /\ last[c] \in 0..Len(log)
        /\ call[c].op = "recv" => rx = <<>>
        /\ \A i \in DOMAIN q : IsFrame(q[i]) => Logged(q[i], log) /\ q[i].at > last[c]
        /\ \A i, j \in DOMAIN q :
              j < i /\ IsFrame(q[i]) /\ IsFrame(q[j]) => q[j].at < q[i].at
        /\ \A i \in DOMAIN q, j \in DOMAIN rx : IsFrame(q[i]) => rx[j].at < q[i].at
        /\ \A i \in DOMAIN rx : IsFrame(rx[i]) /\ Logged(rx[i], log) /\ rx[i].at > last[c]
        /\ \A i, j \in DOMAIN rx : j < i => rx[j].at < rx[i].at

\* The order seen depends on what the client has and the log.
LEMMA SameOrder ==
    ASSUME NEW c, Ordered(c), log' = log, last'[c] = last[c],
           call'[c].op = "recv" => call[c].op = "recv" \/ rx_queue'[c] = <<>>,
           rx_queue'[c] \in {rx_queue[c], <<>>}, out'[c] \in {out[c], <<>>}
    PROVE  Ordered(c)'
<1>1. CASE rx_queue'[c] = rx_queue[c] /\ out'[c] = out[c]
  BY <1>1, Zenon DEF Ordered, Logged
<1>2. CASE rx_queue'[c] = <<>> \/ out'[c] = <<>>
  <2>1. \A i \in DOMAIN rx_queue'[c] : i \in DOMAIN rx_queue[c] /\ rx_queue'[c] = rx_queue[c]
    BY <1>2, SeqNone, Zenon
  <2>2. \A i \in DOMAIN out'[c] : i \in DOMAIN out[c] /\ out'[c] = out[c]
    BY <1>2, SeqNone, Zenon
  <2>3. call'[c].op = "recv" => rx_queue'[c] = <<>>
    BY Zenon DEF Ordered
  <2> QED BY <2>1, <2>2, <2>3, Zenon DEF Ordered, Logged
<1> QED BY <1>1, <1>2, Zenon

\* A waiting call moves a frame to the end of rx_queue, drops a message that
\* is no frame, or returns the frame.
LEMMA TakesOrder ==
    ASSUME NEW c \in Conns, ConnShape(c), IsSeq(log), Ordered(c), NEW m, Takes(c, m)
    PROVE  Ordered(c)'
<1> DEFINE rx == rx_queue[c]
           q == out[c]
           r == out'[c]
           rs == rx_queue'[c]
<1>1. /\ IsSeq(q) /\ q # <<>> /\ r = Tail(q) /\ m = Head(q) /\ log' = log
      /\ IsSeq(rx)
  BY Zenon DEF ConnShape, Takes, SameServer, SameBus
<1> HIDE DEF q, r, rx, rs
<1>2. /\ Len(q) \in Nat /\ DOMAIN q = 1..Len(q) /\ Len(rx) \in Nat
      /\ DOMAIN rx = 1..Len(rx)
  BY <1>1, SeqElems, Zenon
<1>3. /\ DOMAIN r = 1..(Len(q) - 1) /\ m = q[1] /\ 1 \in DOMAIN q
      /\ \A i \in DOMAIN r : i + 1 \in DOMAIN q /\ r[i] = q[i + 1]
  BY <1>1, SeqTail, Zenon
<1>4. Len(log) \in Nat /\ DOMAIN log = 1..Len(log)
  BY SeqElems, Zenon
<1>o. /\ last[c] \in 0..Len(log)
      /\ call[c].op = "recv" => rx = <<>>
      /\ \A i \in DOMAIN q : IsFrame(q[i]) => Logged(q[i], log) /\ q[i].at > last[c]
      /\ \A i, j \in DOMAIN q :
            j < i /\ IsFrame(q[i]) /\ IsFrame(q[j]) => q[j].at < q[i].at
      /\ \A i \in DOMAIN q, j \in DOMAIN rx : IsFrame(q[i]) => rx[j].at < q[i].at
      /\ \A i \in DOMAIN rx : IsFrame(rx[i]) /\ Logged(rx[i], log) /\ rx[i].at > last[c]
      /\ \A i, j \in DOMAIN rx : j < i => rx[j].at < rx[i].at
  BY Zenon DEF Ordered, q, rx
<1>5. /\ \A i \in DOMAIN r : IsFrame(r[i]) => Logged(r[i], log) /\ r[i].at > last[c]
      /\ \A i, j \in DOMAIN r :
            j < i /\ IsFrame(r[i]) /\ IsFrame(r[j]) => r[j].at < r[i].at
      /\ \A i \in DOMAIN r, j \in DOMAIN rx : IsFrame(r[i]) => rx[j].at < r[i].at
      /\ IsFrame(m) => /\ Logged(m, log) /\ m.at > last[c]
                       /\ \A i \in DOMAIN r : IsFrame(r[i]) => m.at < r[i].at
                       /\ \A j \in DOMAIN rx : rx[j].at < m.at
  BY <1>2, <1>3, <1>o, SMTT(20)
<1>6. \A x : Logged(x, log') <=> Logged(x, log)
  BY <1>1, Zenon DEF Logged
<1>7. CASE rs = rx /\ last'[c] = last[c] /\ (call'[c].op = "recv" => call[c].op = "recv")
  BY <1>1, <1>o, <1>5, <1>6, <1>7, Zenon DEF Ordered, r, rs
<1>8. CASE /\ rs = Append(rx, m) /\ IsFrame(m) /\ last'[c] = last[c]
           /\ call'[c].op # "recv"
  <2>1. /\ DOMAIN rs = 1..(Len(rx) + 1) /\ rs[Len(rx) + 1] = m
        /\ \A i \in DOMAIN rx : rs[i] = rx[i]
    BY <1>1, <1>8, SeqAppend
  <2>2. \A i \in DOMAIN rs : (i \in DOMAIN rx /\ rs[i] = rx[i]) \/ (i = Len(rx) + 1 /\ rs[i] = m)
    BY <1>2, <2>1
  <2>3. \A i \in DOMAIN rs : IsFrame(rs[i]) /\ Logged(rs[i], log) /\ rs[i].at > last[c]
    BY <1>o, <1>5, <1>8, <2>2, Zenon
  <2>4. \A i, j \in DOMAIN rs : j < i => rs[j].at < rs[i].at
    <3> SUFFICES ASSUME NEW i \in DOMAIN rs, NEW j \in DOMAIN rs, j < i
                 PROVE  rs[j].at < rs[i].at
      BY Zenon
    <3>1. j \in DOMAIN rx /\ rs[j] = rx[j]
      BY <1>2, <2>1, <2>2
    <3> QED BY <1>o, <1>5, <1>8, <2>2, <3>1, Zenon
  <2>5. \A i \in DOMAIN r, j \in DOMAIN rs : IsFrame(r[i]) => rs[j].at < r[i].at
    BY <1>5, <1>8, <2>2, Zenon
  <2> QED BY <1>1, <1>o, <1>5, <1>6, <1>8, <2>3, <2>4, <2>5, Zenon DEF Ordered, r, rs
<1>9. CASE rs = rx /\ rx = <<>> /\ IsFrame(m) /\ last'[c] = m.at
  <2>1. DOMAIN rs = {}
    BY <1>9, SeqNone, Zenon
  <2>2. m.at \in 0..Len(log)
    BY <1>4, <1>5, <1>9 DEF Logged
  <2> QED BY <1>1, <1>5, <1>6, <1>9, <2>1, <2>2, Zenon DEF Ordered, r, rs
<1>10. Idle.op # "recv"
  BY Zenon DEF Idle
<1>11. CASE call[c].op = "recv"
  BY <1>7, <1>9, <1>10, <1>11, <1>o, Zenon DEF Takes, Awaited, rx, rs
<1>12. CASE call[c].op # "recv"
  BY <1>7, <1>8, <1>10, <1>12, Zenon DEF Takes, rx, rs
<1> QED BY <1>11, <1>12, Zenon

\* A frame is taken from rx_queue, or, when it is empty, the first one of the
\* socket.
LEMMA ReceivesOrder ==
    ASSUME NEW c \in Conns, ConnShape(c), IsSeq(log), Ordered(c), Receives(c)
    PROVE  Ordered(c)'
<1> DEFINE rx == rx_queue[c]
           q == out[c]
           r == out'[c]
           rs == rx_queue'[c]
<1>1. IsSeq(q) /\ IsSeq(rx) /\ log' = log /\ call[c].op = "idle"
  BY Zenon DEF ConnShape, Receives, SameServer, SameBus
<1>o. /\ last[c] \in 0..Len(log)
      /\ call[c].op = "recv" => rx = <<>>
      /\ \A i \in DOMAIN q : IsFrame(q[i]) => Logged(q[i], log) /\ q[i].at > last[c]
      /\ \A i, j \in DOMAIN q :
            j < i /\ IsFrame(q[i]) /\ IsFrame(q[j]) => q[j].at < q[i].at
      /\ \A i \in DOMAIN q, j \in DOMAIN rx : IsFrame(q[i]) => rx[j].at < q[i].at
      /\ \A i \in DOMAIN rx : IsFrame(rx[i]) /\ Logged(rx[i], log) /\ rx[i].at > last[c]
      /\ \A i, j \in DOMAIN rx : j < i => rx[j].at < rx[i].at
  BY Zenon DEF Ordered
<1>2. \A x : Logged(x, log') <=> Logged(x, log)
  BY <1>1, Zenon DEF Logged
<1>3. Len(log) \in Nat /\ DOMAIN log = 1..Len(log)
  BY SeqElems, Zenon
<1>4. /\ Len(q) \in Nat /\ DOMAIN q = 1..Len(q) /\ Len(rx) \in Nat
      /\ DOMAIN rx = 1..Len(rx)
  BY <1>1, SeqElems, Zenon
<1>5. CASE /\ rx # <<>> /\ rs = Tail(rx) /\ last'[c] = Head(rx).at
           /\ call'[c] = call[c] /\ r = q
  <2> HIDE DEF q, r, rx, rs
  <2>1. /\ DOMAIN rs = 1..(Len(rx) - 1) /\ Head(rx) = rx[1] /\ 1 \in DOMAIN rx
        /\ \A i \in DOMAIN rs : i + 1 \in DOMAIN rx /\ rs[i] = rx[i + 1]
    BY <1>1, <1>5, SeqTail, Zenon
  <2>2. last'[c] \in 0..Len(log) /\ last'[c] = rx[1].at
    BY <1>3, <1>5, <1>o, <2>1 DEF Logged
  <2>3. \A i \in DOMAIN rs : IsFrame(rs[i]) /\ Logged(rs[i], log) /\ rs[i].at > last'[c]
    BY <1>4, <1>o, <2>1, <2>2, SMTT(20)
  <2>4. \A i, j \in DOMAIN rs : j < i => rs[j].at < rs[i].at
    <3> SUFFICES ASSUME NEW i \in DOMAIN rs, NEW j \in DOMAIN rs, j < i
                 PROVE  rs[j].at < rs[i].at
      BY Zenon
    <3>1. j + 1 < i + 1
      BY <1>4, <2>1
    <3> QED BY <1>o, <2>1, <3>1, Zenon
  <2>5. \A i \in DOMAIN q, j \in DOMAIN rs : IsFrame(q[i]) => rs[j].at < q[i].at
    BY <1>o, <2>1, Zenon
  <2>6. \A i \in DOMAIN q : IsFrame(q[i]) => Logged(q[i], log) /\ q[i].at > last'[c]
    BY <1>o, <2>1, <2>2, Zenon
  <2> QED BY <1>1, <1>2, <1>5, <1>o, <2>2, <2>3, <2>4, <2>5, <2>6, Zenon DEF Ordered, q, r, rs
<1>6. CASE rx = <<>> /\ rs = <<>> /\ last'[c] = last[c] /\ r = q
  BY <1>1, <1>6, SameOrder, Zenon
<1>7. ASSUME NEW n \in 1..Len(q), rx = <<>>, rs = <<>>, call'[c] = call[c],
             \A i \in 1..(n - 1) : ~IsFrame(q[i]),
             last'[c] = IF IsFrame(q[n]) THEN q[n].at ELSE last[c],
             r = SubSeq(q, n + 1, Len(q))
      PROVE  Ordered(c)'
  <2> HIDE DEF q, r, rx, rs
  <2>1. /\ DOMAIN r = 1..(Len(q) - n)
        /\ \A i \in DOMAIN r : i + n \in DOMAIN q /\ r[i] = q[i + n]
    BY <1>1, <1>7, SeqSuffix, Zenon
  <2>2. n \in DOMAIN q
    BY <1>4, Zenon
  <2>3. last'[c] \in 0..Len(log) /\ (IsFrame(q[n]) => last'[c] = q[n].at)
        /\ (~IsFrame(q[n]) => last'[c] = last[c])
    BY <1>3, <1>7, <1>o, <2>2 DEF Logged
  <2>4. \A i \in DOMAIN r : IsFrame(r[i]) => Logged(r[i], log) /\ r[i].at > last'[c]
    <3> SUFFICES ASSUME NEW i \in DOMAIN r, IsFrame(r[i])
                 PROVE  Logged(r[i], log) /\ r[i].at > last'[c]
      BY Zenon
    <3>1. i + n \in DOMAIN q /\ r[i] = q[i + n] /\ n < i + n
      BY <1>4, <2>1
    <3>2. CASE IsFrame(q[n])
      <4>1. q[n].at < r[i].at
        BY <1>o, <2>2, <3>1, <3>2, Zenon
      <4> QED BY <1>o, <2>3, <3>1, <3>2, <4>1, Zenon
    <3>3. CASE ~IsFrame(q[n])
      BY <1>o, <2>3, <3>1, <3>3, Zenon
    <3> QED BY <3>2, <3>3, Zenon
  <2>6. \A i, j \in DOMAIN r :
            j < i /\ IsFrame(r[i]) /\ IsFrame(r[j]) => r[j].at < r[i].at
    <3> SUFFICES ASSUME NEW i \in DOMAIN r, NEW j \in DOMAIN r, j < i,
                        IsFrame(r[i]), IsFrame(r[j])
                 PROVE  r[j].at < r[i].at
      BY Zenon
    <3>1. /\ i + n \in DOMAIN q /\ r[i] = q[i + n]
          /\ j + n \in DOMAIN q /\ r[j] = q[j + n]
      BY <2>1, Zenon
    <3>2. j + n < i + n
      BY <1>4, <2>1
    <3> QED BY <1>o, <3>1, <3>2, Zenon
  <2>5. DOMAIN rs = {} /\ call'[c].op # "recv"
    BY <1>1, <1>7, SeqNone, Zenon
  <2> QED BY <1>1, <1>2, <2>3, <2>4, <2>5, <2>6, Zenon DEF Ordered, r, rs
<1> QED BY <1>5, <1>6, <1>7, Zenon DEF Receives

\* The bus thread adds the frame it appends to the log.
LEMMA HandlesOrder ==
    ASSUME Shapes, NEW c \in Conns, Ordered(c), Handles(c)
    PROVE  Ordered(c)'
<1> DEFINE rx == rx_queue[c]
           q == out[c]
           r == out'[c]
<1>1. /\ last'[c] = last[c] /\ rx_queue'[c] = rx /\ call'[c] = call[c]
      /\ IsSeq(log) /\ IsSeq(q)
  BY Zenon DEF Handles, SameCan, Shapes, ConnShape
<1>2. /\ Len(log) \in Nat /\ DOMAIN log = 1..Len(log)
      /\ Len(q) \in Nat /\ DOMAIN q = 1..Len(q)
  BY <1>1, SeqElems, Zenon
<1>3. \/ log' = log /\ ~Bcasts(c)
      \/ log' = Append(log, Head(cmds).frame)
  BY Zenon DEF Handles, Elsewhere, Adds, Drops, Sets, Bcasts, Registers, Removes
<1>4. /\ Len(log) <= Len(log') /\ Len(log') \in Nat
      /\ \A x : Logged(x, log) => Logged(x, log') /\ x.at \in 0..Len(log)
      /\ Bcasts(c) => /\ Len(log) + 1 \in DOMAIN log'
                      /\ log'[Len(log) + 1] = Head(cmds).frame
  <2>1. CASE log' = log /\ ~Bcasts(c)
    BY <1>2, <2>1 DEF Logged
  <2>2. CASE log' = Append(log, Head(cmds).frame)
    <3>1. /\ Len(log') = Len(log) + 1 /\ DOMAIN log' = 1..(Len(log) + 1)
          /\ \A i \in DOMAIN log : log'[i] = log[i]
          /\ log'[Len(log) + 1] = Head(cmds).frame
      BY <1>1, <2>2, SeqAppend
    <3> QED BY <1>2, <3>1 DEF Logged
  <2> QED BY <1>3, <2>1, <2>2, Zenon
<1>5. /\ \A i \in DOMAIN q : i \in DOMAIN r /\ r[i] = q[i]
      /\ \A i \in DOMAIN r : i \in DOMAIN q \/ News(c, i)
      /\ DOMAIN r = 1..Len(r)
  <2>1. Longer(c) /\ \A i \in DOMAIN r : i \in DOMAIN q \/ News(c, i)
    BY HandlesOut, Zenon
  <2> QED BY <2>1, SeqElems, Zenon DEF Longer
<1>6. \A i \in DOMAIN r : IsFrame(r[i]) =>
          \/ i \in DOMAIN q /\ r[i] = q[i]
          \/ /\ i = Len(q) + 1 /\ r[i].at = Len(log) + 1
             /\ Logged(r[i], log')
  <2> SUFFICES ASSUME NEW i \in DOMAIN r, IsFrame(r[i]), i \notin DOMAIN q
               PROVE  i = Len(q) + 1 /\ r[i].at = Len(log) + 1 /\ Logged(r[i], log')
    BY <1>5, Zenon
  <2>1. /\ Bcasts(c) /\ i = Len(q) + 1 /\ r[i].frame = Head(cmds).frame
        /\ r[i].at = Len(log) + 1
    BY <1>5, Zenon DEF News, IsFrame
  <2> QED BY <1>4, <2>1, Zenon DEF Logged
<1>o. /\ last[c] \in 0..Len(log)
      /\ call[c].op = "recv" => rx = <<>>
      /\ \A i \in DOMAIN q : IsFrame(q[i]) => Logged(q[i], log) /\ q[i].at > last[c]
      /\ \A i, j \in DOMAIN q :
            j < i /\ IsFrame(q[i]) /\ IsFrame(q[j]) => q[j].at < q[i].at
      /\ \A i \in DOMAIN q, j \in DOMAIN rx : IsFrame(q[i]) => rx[j].at < q[i].at
      /\ \A i \in DOMAIN rx : IsFrame(rx[i]) /\ Logged(rx[i], log) /\ rx[i].at > last[c]
      /\ \A i, j \in DOMAIN rx : j < i => rx[j].at < rx[i].at
  BY Zenon DEF Ordered
<1> HIDE DEF q, r, rx
<1>7. \A i \in DOMAIN r : IsFrame(r[i]) => Logged(r[i], log') /\ r[i].at > last[c]
  BY <1>2, <1>4, <1>6, <1>o
<1>8. \A i, j \in DOMAIN r :
          j < i /\ IsFrame(r[i]) /\ IsFrame(r[j]) => r[j].at < r[i].at
  BY <1>2, <1>4, <1>5, <1>6, <1>o, SMTT(20)
<1>9. \A i \in DOMAIN r, j \in DOMAIN rx : IsFrame(r[i]) => rx[j].at < r[i].at
  BY <1>2, <1>4, <1>6, <1>o
<1>10. /\ \A i \in DOMAIN rx : IsFrame(rx[i]) /\ Logged(rx[i], log') /\ rx[i].at > last[c]
       /\ last[c] \in 0..Len(log')
  BY <1>2, <1>4, <1>o
<1> QED BY <1>1, <1>7, <1>8, <1>9, <1>10, <1>o, Zenon DEF Ordered, r, rx

\* Every step keeps the order.
LEMMA OrderStep ==
    ASSUME Shapes, \A c \in Conns : Ordered(c), [Next]_vars
    PROVE  \A c \in Conns : Ordered(c)'
<1> SUFFICES ASSUME NEW c \in Conns PROVE Ordered(c)'
  BY Zenon
<1>1. Ordered(c) /\ ConnShape(c) /\ IsSeq(log)
  BY Zenon DEF Shapes
<1>2. CASE Aside(c) \/ Halts(c)
  BY <1>1, <1>2, SameOrder, Zenon DEF Aside, Halts, SameCan, SameWire, SameBus
<1>3. CASE Handles(c)
  BY <1>1, <1>3, HandlesOrder, Zenon
<1>4. CASE Receives(c)
  BY <1>1, <1>4, ReceivesOrder, Zenon
<1>5. ASSUME NEW m, Takes(c, m) PROVE Ordered(c)'
  BY <1>1, <1>5, TakesOrder, Zenon
<1>6. CASE \/ Accepted(c) \/ Relays(c) \/ ReaderStops(c) \/ WriterStops(c)
           \/ Connects(c) \/ Closes(c) \/ Asks(c) \/ GivesUp(c)
  <2>1. Idle.op # "recv" /\ [Idle EXCEPT !.op = "hello"].op # "recv"
    BY Zenon DEF Idle
  <2>2. /\ log' = log /\ last'[c] = last[c]
        /\ rx_queue'[c] \in {rx_queue[c], <<>>} /\ out'[c] \in {out[c], <<>>}
    BY <1>6, Zenon DEF Accepted, Relays, ReaderStops, WriterStops, Connects, Closes, Asks,
       GivesUp, SameBus, SameServer, SameCan, SameWire
  <2>3. call'[c] \in {call[c], Idle, [Idle EXCEPT !.op = "hello"]} \/ Asks(c)
    BY <1>6, Zenon DEF Accepted, Relays, ReaderStops, WriterStops, Connects, Closes,
       GivesUp, SameCan
  <2>4. Asks(c) => call'[c].op # "recv"
    BY <2>1 DEF Asks
  <2>5. call'[c].op = "recv" => call[c].op = "recv"
    BY <2>1, <2>3, <2>4, Zenon
  <2> QED BY <1>1, <2>2, <2>5, SameOrder, Zenon
<1> QED BY <1>2, <1>3, <1>4, <1>5, <1>6, Steps, Zenon DEF Own

\* At the start nobody has received anything.
LEMMA InitOrdered == Init => \A c \in Conns : Ordered(c)
<1>1. DOMAIN <<>> = {} /\ Len(<<>>) = 0
  BY SeqNone, Zenon
<1>2. Idle.op = "idle"
  BY Zenon DEF Idle
<1> QED BY <1>1, <1>2 DEF Ordered, Init, ServerInit

\* All clients see the one order of the bus, whatever becomes of the others
\* and of the server.
THEOREM OneOrder == Spec => []InBusOrder
<1> DEFINE Inv == Shapes /\ \A c \in Conns : Ordered(c)
<1>1. Init => Inv
  BY InitShapes, InitOrdered, Zenon
<1>2. Inv /\ [Next]_vars => Inv'
  BY ShapesStep, OrderStep, Zenon
<1>3. Inv => InBusOrder
  <2> SUFFICES ASSUME Inv, NEW c \in Conns, NEW i \in DOMAIN Inbox(c), IsFrame(Inbox(c)[i])
               PROVE  LET m == Inbox(c)[i] IN
                      /\ m.at \in DOMAIN log /\ m.frame = log[m.at]
                      /\ m.at > last[c]
                      /\ \A j \in 1..(i - 1) : IsFrame(Inbox(c)[j]) => Inbox(c)[j].at < m.at
    BY Zenon DEF InBusOrder
  <2> DEFINE rx == rx_queue[c]
             q == out[c]
             b == Inbox(c)
  <2>1. IsSeq(rx) /\ IsSeq(q)
    BY Zenon DEF Shapes, ConnShape
  <2>2. /\ Len(rx) \in Nat /\ DOMAIN rx = 1..Len(rx) /\ Len(q) \in Nat
        /\ DOMAIN q = 1..Len(q)
    BY <2>1, SeqElems, Zenon
  <2>3. /\ DOMAIN b = 1..(Len(rx) + Len(q))
        /\ \A k \in DOMAIN b : IF k <= Len(rx) THEN b[k] = rx[k] ELSE b[k] = q[k - Len(rx)]
    BY <2>1, <2>2, InboxElems, Zenon
  <2>o. Ordered(c)
    BY Zenon
  <2> HIDE DEF rx, q, b, Inv
  <2>4. CASE i <= Len(rx)
    <3>1. b[i] = rx[i] /\ i \in DOMAIN rx
      BY <2>2, <2>3, <2>4 DEF b
    <3>2. \A j \in 1..(i - 1) : b[j] = rx[j] /\ j \in DOMAIN rx /\ j < i
      BY <2>2, <2>3, <2>4 DEF b
    <3> QED BY <3>1, <3>2, <2>o, Zenon DEF Ordered, Logged, rx, b
  <2>5. CASE ~(i <= Len(rx))
    <3> DEFINE h == i - Len(rx)
    <3>1. b[i] = q[h] /\ h \in DOMAIN q
      BY <2>2, <2>3, <2>5 DEF b
    <3>2. \A j \in 1..(i - 1) : \/ b[j] = rx[j] /\ j \in DOMAIN rx
                                \/ /\ b[j] = q[j - Len(rx)] /\ j - Len(rx) \in DOMAIN q
                                   /\ j - Len(rx) < h
      BY <2>2, <2>3, <2>5, SMTT(20) DEF b
    <3> HIDE DEF h
    <3>3. /\ Logged(q[h], log) /\ q[h].at > last[c] /\ IsFrame(q[h])
      BY <3>1, <2>o, Zenon DEF Ordered, q, b
    <3>4. \A j \in 1..(i - 1) : IsFrame(b[j]) => b[j].at < q[h].at
      BY <3>1, <3>2, <3>3, <2>o, Zenon DEF Ordered, q, rx
    <3> QED BY <3>1, <3>3, <3>4, Zenon DEF Logged, b
  <2> QED BY <2>4, <2>5, Zenon
<1> QED BY <1>1, <1>2, <1>3, PTL DEF Spec

-------------------------------------------------------------------------------
(* Numbers *)

\* The numbers c has given to its requests, and 0.
Past(c) == 0..(next_seq[c] - 1)

\* A request of c, or something with the number 0 that the reader thread took
\* for one.
Genuine(m, c) ==
    /\ m.seq \in Past(c)
    /\ m.cmd = "send" /\ m.ack => m.frame.from = c /\ m.frame.no = m.seq

IsAnswer(m) == m.type \in {"ack", "filters_ack"}

\* A call waits for the answer to its own request, the latest.
Numbered(c) ==
    /\ call[c].op \in {"ack", "filters"} =>
          call[c].seq = next_seq[c] - 1 /\ call[c].seq # 0
    /\ call[c].op = "filters" => call[c].deadline = FALSE
    /\ \A m \in Range(up[c]) : m.cmd # "torn" => Genuine(m, c)
    /\ \A m \in Posted(c) : m.cmd \in {"send", "filters"} => Genuine(m, c)
    /\ c \in DOMAIN pending => pending[c].seq \in Past(c)
    /\ \A m \in Range(out[c]) : IsAnswer(m) => m.seq \in Past(c)

\* What was given stays given.
LEMMA PastGrows ==
    ASSUME NEW c, next_seq[c] \in Nat \ {0},
           next_seq'[c] = next_seq[c] \/ next_seq'[c] = next_seq[c] + 1
    PROVE  /\ \A k \in Past(c) : k \in Past(c)'
           /\ \A m : Genuine(m, c) => Genuine(m, c)'
           /\ 0 \in Past(c) /\ 0 \in Past(c)'
<1>1. /\ \A k \in Past(c) : k \in Past(c)' /\ k # next_seq[c]
      /\ 0 \in Past(c) /\ 0 \in Past(c)'
  BY DEF Past
<1> QED BY <1>1, Zenon DEF Genuine

\* Steps of others, and the end of the bus thread.
LEMMA AsideNumbered ==
    ASSUME IsSeq(cmds), NEW c, ConnShape(c), Numbered(c), Aside(c) \/ Halts(c)
    PROVE  Numbered(c)'
<1>1. /\ up'[c] = up[c] /\ out'[c] = out[c] /\ call'[c] = call[c]
      /\ next_seq'[c] = next_seq[c]
  BY Zenon DEF Aside, Halts, SameCan, SameWire, SameAsked
<1>2. Past(c)' = Past(c) /\ \A m : Genuine(m, c) => Genuine(m, c)'
  BY <1>1, Zenon DEF Past, Genuine
<1>3. CASE Aside(c)
  <2>1. Posted(c)' = Posted(c) /\ pending' = pending
    BY <1>3, AsidePosts, Zenon DEF Aside, SameBus
  <2> QED BY <1>1, <1>2, <2>1, Zenon DEF Numbered
<1>4. CASE Halts(c)
  <2>1. Posted(c)' = {} /\ c \notin DOMAIN pending'
    BY <1>4, HaltPosts, Zenon
  <2> QED BY <1>1, <1>2, <2>1, Zenon DEF Numbered
<1> QED BY <1>3, <1>4, Zenon

\* The bus thread answers with the number of the request.
LEMMA HandlesNumbered ==
    ASSUME Shapes, NEW c \in Conns, Numbered(c), Handles(c)
    PROVE  Numbered(c)'
<1>1. /\ up'[c] = up[c] /\ call'[c] = call[c] /\ next_seq'[c] = next_seq[c]
      /\ Elsewhere(c) \/ Adds(c) \/ Drops(c) \/ Sets(c) \/ Bcasts(c)
  BY Zenon DEF Handles, SameCan, SameAsked
<1>2. Past(c)' = Past(c) /\ \A m : Genuine(m, c) => Genuine(m, c)'
  BY <1>1, Zenon DEF Past, Genuine
<1>3. /\ Posted(c)' \subseteq Posted(c)
      /\ About(Head(cmds), c) => Head(cmds) \in Posted(c)
  BY HandlePosts, Zenon DEF Shapes
<1>4. /\ Sets(c) => Head(cmds).seq \in Past(c)
      /\ Bcasts(c) /\ Head(cmds).id = c => Head(cmds).seq \in Past(c)
  <2>1. /\ Sets(c) => About(Head(cmds), c) /\ Head(cmds).cmd \in {"send", "filters"}
        /\ Bcasts(c) /\ Head(cmds).id = c =>
              About(Head(cmds), c) /\ Head(cmds).cmd \in {"send", "filters"}
    BY Zenon DEF Sets, Bcasts, About
  <2> QED BY <1>3, <2>1, Zenon DEF Numbered, Genuine
<1>5. c \in DOMAIN pending' => pending'[c].seq \in Past(c)
  <2>1. CASE Sets(c)
    <3>1. \/ c \in DOMAIN pending /\ pending'[c] = pending[c]
          \/ c \notin DOMAIN pending'
          \/ pending'[c] = [seq |-> Head(cmds).seq, filters |-> Head(cmds).filters]
      BY <2>1, Zenon DEF Sets, SameReg
    <3>2. [seq |-> Head(cmds).seq, filters |-> Head(cmds).filters].seq = Head(cmds).seq
      BY Zenon
    <3> QED BY <1>4, <2>1, <3>1, <3>2, Zenon DEF Numbered
  <2>2. CASE Elsewhere(c) \/ Adds(c) \/ Drops(c) \/ Bcasts(c)
    <3>1. \/ c \in DOMAIN pending /\ pending'[c] = pending[c]
          \/ c \notin DOMAIN pending'
      BY <2>2, Zenon DEF Elsewhere, Adds, Drops, Bcasts, SameReg
    <3> QED BY <3>1, Zenon DEF Numbered
  <2> QED BY <1>1, <2>1, <2>2, Zenon
<1>6. \A m \in Range(out'[c]) : IsAnswer(m) => m.seq \in Past(c)
  <2>1. /\ \A i \in DOMAIN out[c] : i \in DOMAIN out'[c] /\ out'[c][i] = out[c][i]
        /\ \A i \in DOMAIN out'[c] : i \in DOMAIN out[c] \/ News(c, i)
    BY HandlesOut, Zenon DEF Longer
  <2>2. ASSUME NEW i, News(c, i), IsAnswer(out'[c][i])
        PROVE  out'[c][i].seq \in Past(c)
    <3>1. \/ c \in DOMAIN pending /\ out'[c][i].seq = pending[c].seq
          \/ Sets(c) /\ out'[c][i].seq = Head(cmds).seq
          \/ Bcasts(c) /\ Head(cmds).id = c /\ out'[c][i].seq = Head(cmds).seq
      BY <2>2, Zenon DEF News, IsAnswer
    <3> QED BY <1>4, <3>1, Zenon DEF Numbered
  <2> SUFFICES ASSUME NEW i \in DOMAIN out'[c], IsAnswer(out'[c][i])
               PROVE  out'[c][i].seq \in Past(c)
    BY Zenon DEF Range
  <2>3. CASE i \in DOMAIN out[c]
    <3>1. out'[c][i] \in Range(out[c])
      BY <2>1, <2>3, Zenon DEF Range
    <3> QED BY <3>1, Zenon DEF Numbered
  <2> QED BY <2>1, <2>2, <2>3, Zenon
<1> QED BY <1>1, <1>2, <1>3, <1>5, <1>6, Zenon DEF Numbered

\* The threads of the connection hand on what the client numbered.
LEMMA ThreadsNumbered ==
    ASSUME IsSeq(cmds), NEW c \in Conns, ConnShape(c), Numbered(c),
           Accepted(c) \/ Relays(c) \/ ReaderStops(c) \/ WriterStops(c)
    PROVE  Numbered(c)'
<1>1. /\ call'[c] = call[c] /\ next_seq'[c] = next_seq[c] /\ pending' = pending
      /\ IsSeq(up[c]) /\ next_seq[c] \in Nat \ {0}
  BY Zenon DEF Accepted, Relays, ReaderStops, WriterStops, SameCan, SameAsked, SameBus,
     ConnShape
<1>2. /\ Past(c)' = Past(c) /\ (\A m : Genuine(m, c) => Genuine(m, c)') /\ 0 \in Past(c)
  BY <1>1, PastGrows, Zenon DEF Past
<1>3. Range(out'[c]) \subseteq Range(out[c])
  BY OutShrinks, Zenon DEF Own
<1>4. Range(up'[c]) \subseteq Range(up[c])
  <2>1. \/ up'[c] = up[c] \/ up'[c] = <<>>
        \/ up[c] # <<>> /\ up'[c] = Tail(up[c])
    BY Zenon DEF Accepted, Relays, ReaderStops, WriterStops, SameWire
  <2> QED BY <1>1, <2>1, EmptyRange, Leaves, Zenon
<1>5. \A m \in Posted(c)' : m \in Posted(c) \/ (m.cmd \in {"send", "filters"} => Genuine(m, c))
  <2>1. CASE cmds' = cmds
    BY <2>1, Zenon DEF Posted
  <2>2. ASSUME NEW x, Post(x), About(x, c), x.cmd \in {"send", "filters"} => Genuine(x, c)
        PROVE  \A m \in Posted(c)' :
                  m \in Posted(c) \/ (m.cmd \in {"send", "filters"} => Genuine(m, c))
    <3>1. Posted(c)' \subseteq Posted(c) \cup {x}
      BY <2>2, OwnPost, Zenon
    <3> QED BY <2>2, <3>1, Zenon
  <2>3. ASSUME NEW x, Registers(x, c) \/ Removes(x, c)
        PROVE  About(x, c) /\ x.cmd \notin {"send", "filters"}
    BY <2>3 DEF Registers, Removes, About
  <2>4. ASSUME NEW x, x.id = c, x.cmd \in {"send", "filters"}, Relays(c),
               \/ x = Head(up[c])
               \/ x.seq = 0 /\ (x.cmd = "send" => x.ack = FALSE)
        PROVE  About(x, c) /\ Genuine(x, c)
    <3>1. About(x, c) /\ x.cmd # "torn"
      BY <2>4, Zenon DEF About
    <3>2. CASE x = Head(up[c])
      <4>1. x \in Range(up[c])
        BY <1>1, <2>4, <3>2, Leaves, ZenonT(40) DEF Relays
      <4> QED BY <3>1, <4>1, Zenon DEF Numbered
    <3>3. CASE x.seq = 0 /\ (x.cmd = "send" => x.ack = FALSE)
      BY <1>2, <3>1, <3>3, Zenon DEF Genuine
    <3> QED BY <2>4, <3>1, <3>2, <3>3, Zenon
  <2>5. CASE Relays(c)
    BY <2>1, <2>2, <2>4, <2>5, Zenon DEF Relays
  <2>6. CASE Accepted(c) \/ ReaderStops(c) \/ WriterStops(c)
    BY <2>1, <2>2, <2>3, <2>6, Zenon DEF Accepted, ReaderStops, WriterStops
  <2> QED BY <2>5, <2>6, Zenon
<1> QED BY <1>1, <1>2, <1>3, <1>4, <1>5, Zenon DEF Numbered

\* A client gives each request a number of its own.
LEMMA ClientNumbered ==
    ASSUME NEW c \in Conns, ConnShape(c), Numbered(c),
           \/ Connects(c) \/ Closes(c) \/ Asks(c) \/ GivesUp(c) \/ Receives(c)
           \/ \E m : Takes(c, m)
    PROVE  Numbered(c)'
<1>1. cmds' = cmds /\ pending' = pending /\ IsSeq(up[c]) /\ next_seq[c] \in Nat \ {0}
  BY Zenon DEF Connects, Closes, Asks, GivesUp, Receives, Takes, SameServer, SameBus,
     ConnShape
<1>2. Posted(c)' = Posted(c)
  BY <1>1, Zenon DEF Posted
<1>3. Range(out'[c]) \subseteq Range(out[c])
  BY OutShrinks, Zenon DEF Own
<1>4. CASE Asks(c)
  <2>1. next_seq'[c] = next_seq[c] + 1
    BY <1>4, Zenon DEF Asks
  <2>2. /\ \A k \in Past(c) : k \in Past(c)'
        /\ \A m : Genuine(m, c) => Genuine(m, c)'
    BY <1>1, <2>1, PastGrows, Zenon
  <2>3. next_seq[c] \in Past(c)' /\ next_seq[c] = next_seq'[c] - 1 /\ next_seq[c] # 0
    BY <1>1, <2>1 DEF Past
  <2>4. PICK op \in {"idle", "ack", "filters"}, deadline \in BOOLEAN : \E msg :
          /\ Asked(c, op, deadline, msg)
          /\ \/ /\ ~ServerGone(c)
                /\ up'[c] = Append(up[c], msg)
                /\ call'[c] = IF op = "idle" THEN Idle ELSE
                      [op |-> op, seq |-> next_seq[c], deadline |-> deadline]
             \/ ServerGone(c) /\ up'[c] = up[c] /\ call'[c] = call[c]
    BY <1>4, Zenon DEF Asks
  <2>5. PICK msg :
          /\ Asked(c, op, deadline, msg)
          /\ up'[c] \in {Append(up[c], msg), up[c]}
          /\ \/ call'[c] = IF op = "idle" THEN Idle ELSE
                      [op |-> op, seq |-> next_seq[c], deadline |-> deadline]
             \/ call'[c] = call[c]
    BY <2>4, Zenon
  <2>6. Range(up'[c]) \subseteq Range(up[c]) \cup {msg}
    BY <1>1, <2>5, Joins, Zenon
  <2>7. msg.cmd # "torn" => Genuine(msg, c)'
    BY <2>3, <2>5 DEF Asked, Genuine, Update
  <2>8. /\ call'[c].op \in {"ack", "filters"} =>
              call'[c].seq = next_seq[c] /\ call'[c].op = op
        /\ call'[c].op = "filters" => call'[c].deadline = FALSE
    <3>1. call[c].op = "idle"
      BY <1>4, Zenon DEF Asks
    <3>2. op = "filters" => deadline = FALSE
      BY <2>5, Zenon DEF Asked
    <3> QED BY <2>5, <3>1, <3>2, IdleIs
  <2> QED BY <1>1, <1>2, <1>3, <2>2, <2>3, <2>6, <2>7, <2>8, Zenon DEF Numbered
<1>5. CASE ~Asks(c)
  <2>1. up'[c] = up[c] /\ next_seq'[c] = next_seq[c]
    BY <1>5, Zenon DEF Connects, Closes, GivesUp, Receives, Takes, SameWire, SameAsked
  <2>2. Past(c)' = Past(c) /\ \A m : Genuine(m, c) => Genuine(m, c)'
    BY <2>1, Zenon DEF Past, Genuine
  <2>3. call'[c].op \in {"ack", "filters"} => call'[c] = call[c]
    <3>1. \/ call'[c] = call[c] \/ call'[c] = Idle \/ call'[c].op = "recv"
          \/ call'[c] = [Idle EXCEPT !.op = "hello"]
      BY <1>5, Zenon DEF Connects, Closes, GivesUp, Receives, Takes
    <3> QED BY <3>1, IdleIs, Zenon
  <2>4. "filters" \in {"ack", "filters"}
    BY Zenon
  <2> QED BY <1>1, <1>2, <1>3, <2>1, <2>2, <2>3, <2>4, Zenon DEF Numbered
<1> QED BY <1>4, <1>5, Zenon

\* Every step keeps the numbers.
LEMMA NumberedStep ==
    ASSUME Shapes, \A c \in Conns : Numbered(c), [Next]_vars
    PROVE  \A c \in Conns : Numbered(c)'
<1> SUFFICES ASSUME NEW c \in Conns PROVE Numbered(c)'
  BY Zenon
<1>1. Numbered(c) /\ ConnShape(c) /\ IsSeq(cmds)
  BY Zenon DEF Shapes
<1>2. CASE Aside(c) \/ Halts(c)
  BY <1>1, <1>2, AsideNumbered, Zenon
<1>3. CASE Handles(c)
  BY <1>1, <1>3, HandlesNumbered, Zenon
<1>4. CASE Own(c)
  BY <1>1, <1>4, ThreadsNumbered, ClientNumbered, Zenon DEF Own
<1> QED BY <1>2, <1>3, <1>4, Steps, Zenon

\* At the start nothing has been asked.
LEMMA InitNumbered == Init => \A c \in Conns : Numbered(c)
<1> SUFFICES ASSUME Init, NEW c \in Conns PROVE Numbered(c)
  BY Zenon
<1>1. /\ call[c] = Idle /\ up[c] = <<>> /\ out[c] = <<>> /\ cmds = <<>>
      /\ c \notin DOMAIN pending
  BY SeqNone, Zenon DEF Init, ServerInit
<1>2. Posted(c) = {}
  BY <1>1, EmptyRange, Zenon DEF Posted
<1> QED BY <1>1, <1>2, IdleIs, EmptyRange, Zenon DEF Numbered

-------------------------------------------------------------------------------
(* Filters in force *)

\* c waits for connect, or is connected.
Live(c) == sock[c] = "open" /\ (call[c].op = "hello" \/ Reading(c))

\* The messages of c on their way to the bus thread, and those of them that
\* change its filters.
Underway(c) == Range(up[c]) \cup Posted(c)
Updates(m) == m.cmd = "filters" /\ m.seq # 0
NoUpdate(c) == \A m \in Underway(c) : ~Updates(m)

\* The filters of the bus thread are the client's.
Exact(c) == c \in DOMAIN clients => clients[c] = InForce(c)

\* The filters accept the frames on their way to c, or those behind the
\* message k.
Clean(c) ==
    \A m \in Range(out[c]) : IsFrame(m) => FiltersMatch(InForce(c), m.frame)
CleanFrom(c, k) ==
    \A i \in DOMAIN out[c] :
        i > k /\ IsFrame(out[c][i]) => FiltersMatch(InForce(c), out[c][i].frame)

Quiet(c) == NoUpdate(c) /\ Exact(c) /\ Clean(c)

\* The update that set_filters waits for, and its answer.
Change(c) == Update(c, call[c].seq, InForce(c))
Answers(m, c) == m.type = "filters_ack" /\ m.seq = call[c].seq

\* The update is in one place, and behind its answer the filters hold.
Changing(c) ==
    /\ \A m \in Underway(c) : Updates(m) => m = Change(c)
    /\ Sole(up[c], Change(c)) /\ Sole(cmds, Change(c))
    /\ Change(c) \in Range(up[c]) => Change(c) \notin Posted(c)
    /\ \A k \in DOMAIN out[c] :
          Answers(out[c][k], c) => NoUpdate(c) /\ Exact(c) /\ CleanFrom(c, k)

\* Until a client asks for new filters, and once it has the answer, its own
\* and those of the bus thread are the same.
Filtered(c) ==
    Live(c) =>
        /\ c \notin DOMAIN pending
        /\ call[c].op # "filters" => Quiet(c)
        /\ call[c].op = "filters" => Changing(c)

\* A client without filters.
LEMMA NoFilters ==
    ASSUME NEW c, filters[c] = <<>>
    PROVE  InForce(c) = <<>>
  BY SeqNone DEF InForce

\* The update of set_filters.
LEMMA ChangeIs ==
    ASSUME NEW c
    PROVE  /\ About(Change(c), c) /\ Change(c).seq = call[c].seq
           /\ Change(c).filters = InForce(c) /\ Change(c).cmd = "filters"
  BY Zenon DEF Change, Update, About

\* Steps of others, and the end of the bus thread.
LEMMA AsideFiltered ==
    ASSUME IsSeq(cmds), NEW c, Filtered(c), Aside(c) \/ Halts(c)
    PROVE  Filtered(c)'
<1>1. /\ reader'[c] = reader[c] /\ sock'[c] = sock[c] /\ up'[c] = up[c]
      /\ out'[c] = out[c] /\ call'[c] = call[c] /\ filters'[c] = filters[c]
  BY Zenon DEF Aside, Halts, SameCan, SameThreads, SameWire, SameAsked
<1>2. InForce(c)' = InForce(c) /\ (Live(c)' => Live(c))
  BY <1>1, Zenon DEF InForce, Live, Reading
<1>3. Change(c)' = Change(c)
  BY <1>1, <1>2, Zenon DEF Change
<1>4. /\ \A k : CleanFrom(c, k) => CleanFrom(c, k)'
      /\ Clean(c) => Clean(c)'
      /\ \A m : Answers(m, c)' => Answers(m, c)
  BY <1>1, <1>2, Zenon DEF CleanFrom, Clean, Answers
<1>5. /\ Posted(c)' \subseteq Posted(c) /\ (Exact(c) => Exact(c)')
      /\ c \in DOMAIN pending' => c \in DOMAIN pending
      /\ Sole(cmds, Change(c)) => Sole(cmds', Change(c))
  <2>1. CASE Aside(c)
    <3>1. /\ Posted(c)' = Posted(c) /\ clients' = clients /\ pending' = pending
          /\ Sole(cmds, Change(c)) => Sole(cmds', Change(c))
      BY <2>1, AsidePosts, ChangeIs, Zenon DEF Aside, SameBus
    <3> QED BY <1>2, <3>1, Zenon DEF Exact
  <2>2. CASE Halts(c)
    BY <2>2, HaltPosts, Zenon DEF Exact
  <2> QED BY <2>1, <2>2, Zenon
<1>6. Underway(c)' \subseteq Underway(c) /\ (NoUpdate(c) => NoUpdate(c)')
  BY <1>1, <1>5, Zenon DEF Underway, NoUpdate
<1>7. Quiet(c) => Quiet(c)'
  BY <1>4, <1>5, <1>6, Zenon DEF Quiet
<1>8. Changing(c) => Changing(c)'
  BY <1>1, <1>3, <1>4, <1>5, <1>6, Zenon DEF Changing
<1> QED BY <1>1, <1>2, <1>5, <1>7, <1>8, Zenon DEF Filtered

\* The bus thread broadcasts with the filters that are in force.
LEMMA HandlesClean ==
    ASSUME Shapes, NEW c \in Conns, Registered(c), Live(c), Handles(c),
           c \notin DOMAIN pending, NoUpdate(c), Exact(c)
    PROVE  /\ c \notin DOMAIN pending' /\ NoUpdate(c)' /\ Exact(c)'
           /\ Clean(c) => Clean(c)'
           /\ \A k : CleanFrom(c, k) => CleanFrom(c, k)'
<1>1. /\ up'[c] = up[c] /\ call'[c] = call[c] /\ filters'[c] = filters[c]
      /\ Elsewhere(c) \/ Adds(c) \/ Drops(c) \/ Sets(c) \/ Bcasts(c)
  BY Zenon DEF Handles, SameCan, SameAsked
<1>2. InForce(c)' = InForce(c)
  BY <1>1, Zenon DEF InForce
<1>3. /\ Posted(c)' \subseteq Posted(c)
      /\ About(Head(cmds), c) => Head(cmds) \in Posted(c)
  BY HandlePosts, Zenon DEF Shapes
<1>4. NoUpdate(c)'
  BY <1>1, <1>3, Zenon DEF NoUpdate, Underway
<1>5. Sets(c) => Head(cmds).seq = 0
  <2>1. Sets(c) => About(Head(cmds), c) /\ Head(cmds).cmd = "filters"
    BY Zenon DEF Sets, About
  <2> QED BY <1>3, <2>1, Zenon DEF NoUpdate, Underway, Updates
<1>6. Sets(c) => SameReg(c)
  BY <1>5, Zenon DEF Sets
<1>7. c \notin DOMAIN pending'
  BY <1>1, <1>6, Zenon DEF Elsewhere, Adds, Drops, Bcasts, SameReg
<1>8. Exact(c)'
  <2>1. CASE Adds(c)
    <3>1. Add(c) \in Posted(c)
      <4>1. Registers(Head(cmds), c)
        BY <2>1, Zenon DEF Adds
      <4>2. Head(cmds) = Add(c) /\ About(Add(c), c)
        BY <4>1, AddIs, Zenon
      <4> QED BY <1>3, <4>2, Zenon
    <3>2. filters[c] = <<>>
      BY <3>1, Zenon DEF Registered, Added, Greeting, Live
    <3>3. clients'[c] = <<>>
      BY <2>1, Zenon DEF Adds
    <3> QED BY <1>2, <3>2, <3>3, NoFilters, Zenon DEF Exact
  <2>2. CASE ~Adds(c)
    BY <1>1, <1>2, <1>6, <2>2, Zenon DEF Exact, Elsewhere, Drops, Bcasts, SameReg
  <2> QED BY <2>1, <2>2, Zenon
<1>9. /\ \A i \in DOMAIN out[c] : i \in DOMAIN out'[c] /\ out'[c][i] = out[c][i]
      /\ \A i \in DOMAIN out'[c] : i \in DOMAIN out[c] \/ News(c, i)
  BY HandlesOut, Zenon DEF Longer
<1>10. \A i : News(c, i) /\ IsFrame(out'[c][i]) => FiltersMatch(InForce(c), out'[c][i].frame)
  <2> SUFFICES ASSUME NEW i, News(c, i), IsFrame(out'[c][i])
               PROVE  FiltersMatch(InForce(c), out'[c][i].frame)
    BY Zenon
  <2>1. /\ out'[c][i].frame = Head(cmds).frame
        /\ c \in DOMAIN clients /\ FiltersMatch(clients[c], Head(cmds).frame)
    BY Zenon DEF News, IsFrame
  <2> QED BY <2>1, Zenon DEF Exact
<1>11. Clean(c) => Clean(c)'
  <2> SUFFICES ASSUME Clean(c), NEW i \in DOMAIN out'[c], IsFrame(out'[c][i])
               PROVE  FiltersMatch(InForce(c), out'[c][i].frame)
    BY <1>2, Zenon DEF Clean, Range
  <2>1. CASE i \in DOMAIN out[c]
    BY <1>9, <2>1, Zenon DEF Clean, Range
  <2> QED BY <1>9, <1>10, <2>1, Zenon
<1>12. \A k : CleanFrom(c, k) => CleanFrom(c, k)'
  <2> SUFFICES ASSUME NEW k, CleanFrom(c, k), NEW i \in DOMAIN out'[c], i > k,
                      IsFrame(out'[c][i])
               PROVE  FiltersMatch(InForce(c), out'[c][i].frame)
    BY <1>2, Zenon DEF CleanFrom
  <2>1. CASE i \in DOMAIN out[c]
    BY <1>9, <2>1, Zenon DEF CleanFrom
  <2> QED BY <1>9, <1>10, <2>1, Zenon
<1> QED BY <1>4, <1>7, <1>8, <1>11, <1>12, Zenon

\* A client that is connected is registered.
LEMMA KnownClient ==
    ASSUME NEW c, Registered(c), sock[c] = "open", call[c].op # "hello", Reading(c),
           bus = "running"
    PROVE  c \in DOMAIN clients /\ Add(c) \notin Posted(c) /\ writer[c] = "running"
  BY Zenon DEF Registered, Served, Added

\* The bus thread handles a command while c waits for new filters.
LEMMA HandlesChanging ==
    ASSUME Shapes, NEW c \in Conns, Registered(c), Numbered(c), Live(c), Handles(c),
           c \notin DOMAIN pending, call[c].op = "filters", Changing(c)
    PROVE  c \notin DOMAIN pending' /\ Changing(c)'
<1>1. /\ up'[c] = up[c] /\ call'[c] = call[c] /\ filters'[c] = filters[c]
      /\ bus = "running"
      /\ Elsewhere(c) \/ Adds(c) \/ Drops(c) \/ Sets(c) \/ Bcasts(c)
  BY Zenon DEF Handles, SameCan, SameAsked
<1>2. InForce(c)' = InForce(c)
  BY <1>1, Zenon DEF InForce
<1>3. Change(c)' = Change(c) /\ \A m : Answers(m, c)' <=> Answers(m, c)
  BY <1>1, <1>2, Zenon DEF Change, Answers
<1>4. /\ Posted(c)' \subseteq Posted(c)
      /\ About(Head(cmds), c) => Head(cmds) \in Posted(c)
      /\ \A u : Sole(cmds, u) => /\ Sole(cmds', u)
                                 /\ u = Head(cmds) => u \notin Posted(c)'
  BY HandlePosts, Zenon DEF Shapes
<1>5. c \in DOMAIN clients /\ ~Adds(c)
  <2>1. c \in DOMAIN clients /\ Add(c) \notin Posted(c)
    BY <1>1, KnownClient, Zenon DEF Live
  <2>2. Adds(c) => Head(cmds) = Add(c)
    BY AddIs, Zenon DEF Adds
  <2>3. About(Add(c), c)
    BY AddIs, Zenon
  <2> QED BY <1>4, <2>1, <2>2, <2>3, Zenon
<1>6. c \notin DOMAIN pending'
  <2>1. CASE Sets(c)
    BY <1>5, <2>1, Zenon DEF Sets, SameReg
  <2>2. CASE ~Sets(c)
    BY <1>1, <1>5, <2>2, Zenon DEF Elsewhere, Drops, Bcasts, SameReg
  <2> QED BY <2>1, <2>2, Zenon
<1>7. /\ \A m \in Underway(c)' : Updates(m) => m = Change(c)
      /\ Sole(up'[c], Change(c)) /\ Sole(cmds', Change(c))
      /\ Change(c) \in Range(up'[c]) => Change(c) \notin Posted(c)'
  BY <1>1, <1>4, Zenon DEF Changing, Underway
<1>8. ASSUME NEW k \in DOMAIN out'[c], Answers(out'[c][k], c)
      PROVE  NoUpdate(c)' /\ Exact(c)' /\ CleanFrom(c, k)'
  <2>1. /\ \A i \in DOMAIN out[c] : i \in DOMAIN out'[c] /\ out'[c][i] = out[c][i]
        /\ \A i \in DOMAIN out'[c] : i \in DOMAIN out[c] \/ News(c, i)
        /\ Len(out[c]) \in Nat /\ DOMAIN out[c] = 1..Len(out[c])
        /\ Len(out'[c]) \in Nat /\ DOMAIN out'[c] = 1..Len(out'[c])
    <3>1. Longer(c) /\ \A i \in DOMAIN out'[c] : i \in DOMAIN out[c] \/ News(c, i)
      BY HandlesOut, Zenon
    <3>2. IsSeq(out[c]) /\ IsSeq(out'[c])
      BY <3>1, Zenon DEF Longer, Shapes, ConnShape
    <3> QED BY <3>1, <3>2, SeqElems, Zenon DEF Longer
  <2>2. CASE k \in DOMAIN out[c]
    <3>1. NoUpdate(c) /\ Exact(c) /\ CleanFrom(c, k)
      BY <1>8, <2>1, <2>2, Zenon DEF Changing
    <3> QED BY <3>1, HandlesClean, Zenon
  <2>3. CASE k \notin DOMAIN out[c]
    <3>1. Sets(c) /\ Head(cmds).seq = call[c].seq
      BY <1>5, <1>8, <2>1, <2>3, Zenon DEF News, Answers
    <3>2. call[c].seq # 0
      BY Zenon DEF Numbered
    <3>3. Head(cmds).cmd = "filters" /\ About(Head(cmds), c) /\ ~Bcasts(c)
      BY <3>1, Zenon DEF Sets, About, Bcasts
    <3>4. Head(cmds) \in Posted(c) /\ Head(cmds) = Change(c)
      BY <1>4, <3>1, <3>2, <3>3, Zenon DEF Changing, Underway, Updates
    <3>5. NoUpdate(c)'
      BY <1>1, <1>4, <1>7, <3>4, Zenon DEF Changing, NoUpdate, Underway
    <3>6. Exact(c)'
      <4>1. clients'[c] = Head(cmds).filters
        BY <1>5, <3>1, <3>2, Zenon DEF Sets
      <4> QED BY <1>2, <3>4, <4>1, ChangeIs, Zenon DEF Exact
    <3>7. CleanFrom(c, k)'
      <4> SUFFICES ASSUME NEW i \in DOMAIN out'[c], i > k, IsFrame(out'[c][i])
                   PROVE  FALSE
        BY Zenon DEF CleanFrom
      <4>1. i \notin DOMAIN out[c]
        BY <2>1, <2>3
      <4>2. News(c, i)
        BY <2>1, <4>1, Zenon
      <4> QED BY <3>3, <4>2, Zenon DEF News, IsFrame
    <3> QED BY <3>5, <3>6, <3>7, Zenon
  <2> QED BY <2>2, <2>3, Zenon
<1> QED BY <1>3, <1>6, <1>7, <1>8, Zenon DEF Changing

\* The bus thread handles a command.
LEMMA HandlesFiltered ==
    ASSUME Shapes, NEW c \in Conns, Registered(c), Numbered(c), Filtered(c), Handles(c)
    PROVE  Filtered(c)'
<1>1. /\ call'[c] = call[c] /\ (Live(c)' => Live(c))
  BY Zenon DEF Handles, SameCan, SameThreads, Live, Reading
<1>2. CASE Live(c) /\ call[c].op = "filters"
  BY <1>1, <1>2, HandlesChanging, Zenon DEF Filtered
<1>3. CASE Live(c) /\ call[c].op # "filters"
  BY <1>1, <1>3, HandlesClean, Zenon DEF Filtered, Quiet
<1> QED BY <1>1, <1>2, <1>3, Zenon DEF Filtered

\* accept_loop takes the connection.
LEMMA AcceptedFiltered ==
    ASSUME IsSeq(cmds), NEW c \in Conns, Registered(c), Filtered(c), Accepted(c)
    PROVE  Filtered(c)'
<1> SUFFICES ASSUME Live(c)' PROVE Filtered(c)'
  BY Zenon DEF Filtered
<1>1. /\ sock'[c] = sock[c] /\ reader[c] = "none" /\ acceptor # "ended"
      /\ call'[c] = call[c] /\ up'[c] = up[c] /\ out'[c] = out[c]
      /\ filters'[c] = filters[c] /\ clients' = clients /\ pending' = pending
  BY Zenon DEF Accepted, SameCan, SameWire, SameBus, SameAsked
<1>2. sock[c] = "open" /\ call[c].op = "hello"
  BY <1>1, Zenon DEF Live, Registered, Absent
<1>3. call[c].op # "filters" /\ Quiet(c) /\ c \notin DOMAIN pending
  BY <1>2, Zenon DEF Filtered, Live
<1>4. Posted(c)' \subseteq Posted(c) \cup {Add(c)}
  <2>1. Post(Add(c)) /\ About(Add(c), c)
    BY AddIs, Zenon DEF Accepted
  <2> QED BY <2>1, OwnPost, Zenon
<1>5. ~Updates(Add(c))
  BY Zenon DEF Updates, Add
<1>6. InForce(c)' = InForce(c)
  BY <1>1, Zenon DEF InForce
<1>7. NoUpdate(c)'
  BY <1>1, <1>3, <1>4, <1>5, Zenon DEF Quiet, NoUpdate, Underway
<1>8. Exact(c)' /\ Clean(c)'
  BY <1>1, <1>3, <1>6, Zenon DEF Quiet, Exact, Clean
<1> QED BY <1>1, <1>3, <1>7, <1>8, Zenon DEF Filtered, Quiet

\* The reader thread hands on a message.
LEMMA RelaysFiltered ==
    ASSUME IsSeq(cmds), NEW c \in Conns, ConnShape(c), Numbered(c), Filtered(c), Relays(c)
    PROVE  Filtered(c)'
<1>1. /\ sock'[c] = sock[c] /\ Reading(c) /\ up[c] # <<>> /\ up'[c] = Tail(up[c])
      /\ call'[c] = call[c] /\ out'[c] = out[c] /\ filters'[c] = filters[c]
      /\ clients' = clients /\ pending' = pending /\ IsSeq(up[c])
  BY Zenon DEF Relays, SameCan, SameBus, SameAsked, ConnShape
<1>2. InForce(c)' = InForce(c) /\ (Live(c)' => Live(c))
  BY <1>1, Zenon DEF InForce, Live
<1>3. Change(c)' = Change(c) /\ \A m : Answers(m, c)' <=> Answers(m, c)
  BY <1>1, <1>2, Zenon DEF Change, Answers
<1>4. /\ Exact(c) => Exact(c)'
      /\ Clean(c) => Clean(c)'
      /\ \A k : CleanFrom(c, k) => CleanFrom(c, k)'
  BY <1>1, <1>2, Zenon DEF Exact, Clean, CleanFrom
<1>5. /\ Range(up'[c]) \subseteq Range(up[c]) /\ Head(up[c]) \in Range(up[c])
      /\ \A u : Sole(up[c], u) => /\ Sole(up'[c], u)
                                  /\ u = Head(up[c]) => u \notin Range(up'[c])
  <2>1. /\ Range(Tail(up[c])) \subseteq Range(up[c]) /\ Head(up[c]) \in Range(up[c])
        /\ \A u : Sole(up[c], u) =>
              Sole(Tail(up[c]), u) /\ (u = Head(up[c]) => u \notin Range(Tail(up[c])))
    BY <1>1, Leaves, Zenon
  <2> QED BY <1>1, <2>1, Zenon
<1>6. \/ cmds' = cmds /\ Posted(c)' = Posted(c)
      \/ \E x : /\ Posted(c)' \subseteq Posted(c) \cup {x}
                /\ \A u : Sole(cmds, u) /\ (u = x => u \notin Posted(c)) => Sole(cmds', u)
                /\ x = Head(up[c]) \/ ~Updates(x)
  <2>1. CASE cmds' = cmds
    BY <2>1, Zenon DEF Posted
  <2>2. ASSUME NEW x, Post(x), x.id = c, x.cmd \in {"send", "filters"},
               x = Head(up[c]) \/ x.seq = 0
        PROVE  /\ Posted(c)' \subseteq Posted(c) \cup {x}
               /\ \A u : Sole(cmds, u) /\ (u = x => u \notin Posted(c)) => Sole(cmds', u)
               /\ x = Head(up[c]) \/ ~Updates(x)
    <3>1. About(x, c)
      BY <2>2, AddIs, Zenon
    <3> QED BY <2>2, <3>1, OwnPost, Zenon DEF Updates
  <2> QED BY <2>1, <2>2, Zenon DEF Relays
<1>7. \A m \in Underway(c)' : Updates(m) => m \in Underway(c)
  BY <1>5, <1>6, Zenon DEF Underway
<1>8. NoUpdate(c) => NoUpdate(c)'
  BY <1>7, Zenon DEF NoUpdate
<1>9. ASSUME call[c].op = "filters", Changing(c)
      PROVE  Changing(c)'
  <2>1. call[c].seq # 0
    BY <1>9, Zenon DEF Numbered
  <2>2. Updates(Change(c))
    BY <2>1, ChangeIs, Zenon DEF Updates
  <2>3. /\ \A m \in Underway(c)' : Updates(m) => m = Change(c)
        /\ Sole(up'[c], Change(c))
    BY <1>5, <1>7, <1>9, Zenon DEF Changing
  <2>4. Sole(cmds', Change(c))
    BY <1>5, <1>6, <1>9, <2>2, Zenon DEF Changing
  <2>5. Change(c) \in Range(up'[c]) => Change(c) \notin Posted(c)'
    BY <1>5, <1>6, <1>9, <2>2, Zenon DEF Changing
  <2>6. \A k \in DOMAIN out'[c] :
            Answers(out'[c][k], c) => NoUpdate(c)' /\ Exact(c)' /\ CleanFrom(c, k)'
    BY <1>1, <1>4, <1>8, <1>9, Zenon DEF Changing
  <2> QED BY <1>3, <2>3, <2>4, <2>5, <2>6, Zenon DEF Changing
<1>10. Quiet(c) => Quiet(c)'
  BY <1>4, <1>8, Zenon DEF Quiet
<1> QED BY <1>1, <1>2, <1>9, <1>10, Zenon DEF Filtered

\* The threads of the connection end.
LEMMA StopsFiltered ==
    ASSUME NEW c \in Conns, Registered(c), Filtered(c), ReaderStops(c) \/ WriterStops(c)
    PROVE  Filtered(c)'
<1> SUFFICES ASSUME Live(c)' PROVE Filtered(c)'
  BY Zenon DEF Filtered
<1>1. /\ sock'[c] = sock[c] /\ call'[c] = call[c] /\ filters'[c] = filters[c]
      /\ clients' = clients /\ pending' = pending
  BY Zenon DEF ReaderStops, WriterStops, SameCan, SameBus, SameAsked
<1>2. ~ReaderStops(c)
  <2> SUFFICES ASSUME ReaderStops(c) PROVE FALSE
    BY Zenon
  <2>1. sock[c] = "open" /\ call[c].op = "hello"
    BY <1>1, Zenon DEF ReaderStops, Live, Reading
  <2> QED BY <2>1, Zenon DEF ReaderStops, Registered, Greeting
<1>3. /\ reader'[c] = reader[c] /\ up'[c] = up[c] /\ out'[c] = <<>> /\ cmds' = cmds
      /\ out[c] = <<>>
  BY <1>1, <1>2, Zenon DEF WriterStops, Live
<1>4. /\ InForce(c)' = InForce(c) /\ Live(c) /\ Posted(c)' = Posted(c)
  BY <1>1, <1>3, Zenon DEF InForce, Live, Reading, Posted
<1>5. /\ Change(c)' = Change(c) /\ Underway(c)' = Underway(c)
      /\ \A m : Answers(m, c)' <=> Answers(m, c)
  BY <1>1, <1>3, <1>4, Zenon DEF Change, Answers, Underway
<1>6. /\ NoUpdate(c) => NoUpdate(c)'
      /\ Exact(c) => Exact(c)'
      /\ Clean(c) => Clean(c)'
      /\ \A k : CleanFrom(c, k) => CleanFrom(c, k)'
  BY <1>1, <1>3, <1>4, <1>5, Zenon DEF NoUpdate, Exact, Clean, CleanFrom
<1>7. Quiet(c) => Quiet(c)'
  BY <1>6, Zenon DEF Quiet
<1>8. Changing(c) => Changing(c)'
  BY <1>1, <1>3, <1>4, <1>5, <1>6, Zenon DEF Changing
<1> QED BY <1>1, <1>4, <1>7, <1>8, Zenon DEF Filtered

\* A connect: nobody knows the client yet.
LEMMA ConnectsFiltered ==
    ASSUME NEW c \in Conns, Registered(c), Connects(c)
    PROVE  Filtered(c)'
<1>1. /\ reader[c] = "none" /\ up'[c] = up[c] /\ out'[c] = out[c]
      /\ call'[c].op = "hello" /\ cmds' = cmds /\ clients' = clients
      /\ pending' = pending
  BY Zenon DEF Connects, Registered, Fresh, SameServer, SameBus, Idle
<1>2. /\ up[c] = <<>> /\ out[c] = <<>> /\ Posted(c) = {}
      /\ c \notin DOMAIN clients /\ c \notin DOMAIN pending
  BY <1>1, Zenon DEF Registered, Absent
<1>3. Posted(c)' = {} /\ Range(up'[c]) = {} /\ Range(out'[c]) = {}
  BY <1>1, <1>2, EmptyRange, Zenon DEF Posted
<1>4. Quiet(c)'
  BY <1>1, <1>2, <1>3, Zenon DEF Quiet, NoUpdate, Underway, Exact, Clean
<1> QED BY <1>1, <1>2, <1>4, Zenon DEF Filtered

\* A client asks: the update it may send is the only one.
LEMMA AsksFiltered ==
    ASSUME NEW c \in Conns, ConnShape(c), Numbered(c), Filtered(c), Asks(c)
    PROVE  Filtered(c)'
<1> SUFFICES ASSUME Live(c)' PROVE Filtered(c)'
  BY Zenon DEF Filtered
<1>1. /\ sock[c] = "open" /\ call[c].op = "idle" /\ reader'[c] = reader[c]
      /\ out'[c] = out[c] /\ cmds' = cmds /\ clients' = clients /\ pending' = pending
      /\ IsSeq(up[c]) /\ next_seq[c] \in Nat \ {0}
  BY Zenon DEF Asks, SameServer, SameThreads, SameBus, ConnShape
<1>2. PICK op \in {"idle", "ack", "filters"}, deadline \in BOOLEAN : \E msg :
        /\ Asked(c, op, deadline, msg)
        /\ \/ /\ ~ServerGone(c)
              /\ up'[c] = Append(up[c], msg)
              /\ call'[c] = IF op = "idle" THEN Idle ELSE
                    [op |-> op, seq |-> next_seq[c], deadline |-> deadline]
           \/ ServerGone(c) /\ up'[c] = up[c] /\ call'[c] = call[c]
  BY Zenon DEF Asks
<1>3. PICK msg :
        /\ Asked(c, op, deadline, msg)
        /\ \/ /\ ~ServerGone(c)
              /\ up'[c] = Append(up[c], msg)
              /\ call'[c] = IF op = "idle" THEN Idle ELSE
                    [op |-> op, seq |-> next_seq[c], deadline |-> deadline]
           \/ ServerGone(c) /\ up'[c] = up[c] /\ call'[c] = call[c]
  BY <1>2, Zenon
<1>4. call'[c].op # "hello" /\ call[c].op # "hello" /\ call[c].op # "filters"
  BY <1>1, <1>3, IdleIs
<1>5. Reading(c)
  BY <1>1, <1>4, Zenon DEF Live, Reading
<1>6. ~ServerGone(c)
  BY <1>5, Zenon DEF ServerGone, Reading
<1>7. up'[c] = Append(up[c], msg) /\ Quiet(c) /\ c \notin DOMAIN pending'
  BY <1>1, <1>3, <1>4, <1>5, <1>6, Zenon DEF Filtered, Live
<1>8. Range(up'[c]) = Range(up[c]) \cup {msg} /\ Posted(c)' = Posted(c)
  BY <1>1, <1>7, Joins, Zenon DEF Posted
<1>9. CASE msg.cmd # "filters"
  <2>1. filters'[c] = filters[c] /\ call'[c].op # "filters"
    BY <1>3, <1>6, <1>9, IdleIs DEF Asked
  <2>2. InForce(c)' = InForce(c)
    BY <2>1, Zenon DEF InForce
  <2>3. NoUpdate(c)'
    BY <1>7, <1>8, <1>9, Zenon DEF Quiet, NoUpdate, Underway, Updates
  <2>4. Exact(c)' /\ Clean(c)'
    BY <1>1, <1>7, <2>2, Zenon DEF Quiet, Exact, Clean
  <2> QED BY <1>7, <2>1, <2>3, <2>4, Zenon DEF Filtered, Quiet
<1>10. CASE msg.cmd = "filters"
  <2>1. op = "filters" /\ msg = Update(c, next_seq[c], InForce(c)')
    BY <1>3, <1>10, Zenon DEF Asked
  <2>2. call'[c].op = "filters" /\ call'[c].seq = next_seq[c]
    BY <1>3, <1>6, <2>1
  <2>3. Change(c)' = msg
    BY <2>1, <2>2, Zenon DEF Change
  <2>4. Updates(msg) /\ About(msg, c)
    BY <1>1, <2>1, Zenon DEF Updates, Update, About
  <2>5. msg \notin Range(up[c]) /\ msg \notin Posted(c)
    BY <1>7, <2>4, Zenon DEF Quiet, NoUpdate, Underway
  <2>6. \A m \in Underway(c)' : Updates(m) => m = Change(c)'
    BY <1>7, <1>8, <2>3, Zenon DEF Quiet, NoUpdate, Underway
  <2>7. Sole(up'[c], Change(c)')
    <3>1. Sole(up[c], msg)
      BY <2>5, Zenon DEF Sole, Range
    <3>2. Sole(Append(up[c], msg), msg)
      BY <1>1, <2>5, <3>1, Joins, Zenon
    <3> QED BY <1>7, <2>3, <3>2, Zenon
  <2>8. Sole(cmds', Change(c)')
    BY <1>1, <2>3, <2>4, <2>5, Zenon DEF Sole, Posted, Range
  <2>9. Change(c)' \notin Posted(c)'
    BY <1>8, <2>3, <2>5, Zenon
  <2>10. \A k \in DOMAIN out'[c] : ~Answers(out[c][k], c)'
    <3> SUFFICES ASSUME NEW k \in DOMAIN out'[c], Answers(out[c][k], c)'
                 PROVE  FALSE
      BY Zenon
    <3>1. k \in DOMAIN out[c] /\ IsAnswer(out[c][k]) /\ out[c][k].seq = next_seq[c]
      BY <1>1, <2>2, Zenon DEF Answers, IsAnswer
    <3>2. next_seq[c] \in Past(c)
      BY <3>1, Zenon DEF Numbered, Range
    <3> QED BY <1>1, <3>2 DEF Past
  <2>11. Changing(c)'
    BY <2>6, <2>7, <2>8, <2>9, <2>10, Zenon DEF Changing
  <2> QED BY <1>7, <2>2, <2>11, Zenon DEF Filtered
<1> QED BY <1>9, <1>10, Zenon

\* A call ends without its answer, or a program asks for a frame.
LEMMA IdleFiltered ==
    ASSUME NEW c \in Conns, ConnShape(c), Registered(c), Numbered(c), Filtered(c),
           Closes(c) \/ GivesUp(c) \/ Receives(c)
    PROVE  Filtered(c)'
<1> SUFFICES ASSUME Live(c)' PROVE Filtered(c)'
  BY Zenon DEF Filtered
<1>1. ~Closes(c)
  BY Zenon DEF Closes, Live
<1>2. /\ sock'[c] = sock[c] /\ reader'[c] = reader[c] /\ up'[c] = up[c]
      /\ filters'[c] = filters[c] /\ cmds' = cmds /\ clients' = clients
      /\ pending' = pending
  BY <1>1, Zenon DEF GivesUp, Receives, SameServer, SameThreads, SameBus, SameAsked, SameWire
<1>3. call'[c].op \in {"idle", "recv"}
  BY <1>1, IdleIs, Zenon DEF GivesUp, Receives
<1>4. sock[c] = "open" /\ Reading(c)
  BY <1>2, <1>3, Zenon DEF Live, Reading
<1>5. call[c].op # "filters"
  <2>1. ~ServerGone(c)
    BY <1>4, Zenon DEF ServerGone, Reading
  <2>2. GivesUp(c) => call[c].deadline
    BY <2>1, Zenon DEF GivesUp
  <2> QED BY <1>1, <2>2, Zenon DEF Numbered, Receives
<1>6. Quiet(c) /\ c \notin DOMAIN pending
  BY <1>4, <1>5, Zenon DEF Filtered, Live
<1>7. Range(out'[c]) \subseteq Range(out[c])
  BY OutShrinks, Zenon DEF Own
<1>8. InForce(c)' = InForce(c) /\ Posted(c)' = Posted(c)
  BY <1>2, Zenon DEF InForce, Posted
<1>9. Quiet(c)'
  BY <1>2, <1>6, <1>7, <1>8, Zenon DEF Quiet, NoUpdate, Underway, Exact, Clean
<1> QED BY <1>2, <1>3, <1>6, <1>9, Zenon DEF Filtered

\* A call reads a message.
LEMMA TakesFiltered ==
    ASSUME NEW c \in Conns, ConnShape(c), Filtered(c), NEW m, Takes(c, m)
    PROVE  Filtered(c)'
<1> SUFFICES ASSUME Live(c)' PROVE Filtered(c)'
  BY Zenon DEF Filtered
<1>1. /\ sock'[c] = sock[c] /\ reader'[c] = reader[c] /\ up'[c] = up[c]
      /\ filters'[c] = filters[c] /\ cmds' = cmds /\ clients' = clients
      /\ pending' = pending /\ IsSeq(out[c]) /\ sock[c] = "open"
      /\ out[c] # <<>> /\ m = Head(out[c]) /\ out'[c] = Tail(out[c])
  BY Zenon DEF Takes, SameServer, SameThreads, SameBus, SameAsked, ConnShape
<1>2. \/ call'[c] = call[c]
      \/ Awaited(m, c) /\ call'[c] = Idle
      \/ call[c].op = "recv" /\ call'[c] = Idle
  BY Zenon DEF Takes
<1>3. Live(c)
  BY <1>1, <1>2, IdleIs, Zenon DEF Live, Reading
<1>4. /\ InForce(c)' = InForce(c) /\ Posted(c)' = Posted(c) /\ Underway(c)' = Underway(c)
  BY <1>1, Zenon DEF InForce, Posted, Underway
<1>5. /\ NoUpdate(c) => NoUpdate(c)'
      /\ Exact(c) => Exact(c)'
  BY <1>1, <1>4, Zenon DEF NoUpdate, Exact
<1>6. c \notin DOMAIN pending'
  BY <1>1, <1>3, Zenon DEF Filtered
<1>7. /\ 1 \in DOMAIN out[c] /\ out[c][1] = m
      /\ \A i \in DOMAIN out'[c] : i \in Nat /\ i + 1 \in DOMAIN out[c]
                                   /\ out'[c][i] = out[c][i + 1]
  BY <1>1, SeqTail, SeqElems
<1>8. ASSUME NEW k, k \in Nat, CleanFrom(c, k + 1)
      PROVE  \A i \in DOMAIN out'[c] : i > k /\ IsFrame(out'[c][i]) =>
                FiltersMatch(InForce(c), out'[c][i].frame)
  <2> SUFFICES ASSUME NEW i \in DOMAIN out'[c], i > k, IsFrame(out'[c][i])
               PROVE  FiltersMatch(InForce(c), out'[c][i].frame)
    BY Zenon
  <2>1. i + 1 > k + 1 /\ i + 1 \in DOMAIN out[c] /\ out'[c][i] = out[c][i + 1]
    BY <1>7, <1>8
  <2> QED BY <1>8, <2>1, Zenon DEF CleanFrom
<1>9. CASE call[c].op # "filters"
  <2>1. Quiet(c) /\ call'[c].op # "filters"
    BY <1>2, <1>3, <1>9, IdleIs, Zenon DEF Filtered
  <2>2. Range(out'[c]) \subseteq Range(out[c])
    BY OutShrinks, Zenon DEF Own
  <2>3. Quiet(c)'
    BY <1>4, <1>5, <2>1, <2>2, Zenon DEF Quiet, Clean
  <2> QED BY <1>6, <2>1, <2>3, Zenon DEF Filtered
<1>10. CASE call[c].op = "filters" /\ call'[c] = call[c]
  <2>1. Changing(c)
    BY <1>3, <1>10, Zenon DEF Filtered
  <2>2. Change(c)' = Change(c) /\ \A x : Answers(x, c)' <=> Answers(x, c)
    BY <1>4, <1>10, Zenon DEF Change, Answers
  <2>3. ASSUME NEW k \in DOMAIN out'[c], Answers(out'[c][k], c)
        PROVE  NoUpdate(c)' /\ Exact(c)' /\ CleanFrom(c, k)'
    <3>1. k \in Nat /\ k + 1 \in DOMAIN out[c] /\ out'[c][k] = out[c][k + 1]
      BY <1>7, Zenon
    <3>2. NoUpdate(c) /\ Exact(c) /\ CleanFrom(c, k + 1)
      BY <2>1, <2>3, <3>1, Zenon DEF Changing
    <3>3. CleanFrom(c, k)'
      BY <1>4, <1>8, <3>1, <3>2, Zenon DEF CleanFrom
    <3> QED BY <1>5, <3>2, <3>3, Zenon
  <2>4. Changing(c)'
    BY <1>1, <1>4, <2>1, <2>2, <2>3, Zenon DEF Changing
  <2> QED BY <1>6, <1>10, <2>4, Zenon DEF Filtered
<1>11. CASE call[c].op = "filters" /\ call'[c] # call[c]
  <2>1. Changing(c) /\ Answers(m, c) /\ call'[c].op # "filters"
    BY <1>2, <1>3, <1>11, IdleIs, Zenon DEF Filtered, Awaited, Answers
  <2>2. NoUpdate(c) /\ Exact(c) /\ CleanFrom(c, 1)
    BY <1>7, <2>1, Zenon DEF Changing
  <2>3. \A i \in DOMAIN out'[c] : IsFrame(out'[c][i]) =>
            FiltersMatch(InForce(c), out'[c][i].frame)
    <3> SUFFICES ASSUME NEW i \in DOMAIN out'[c], IsFrame(out'[c][i])
                 PROVE  FiltersMatch(InForce(c), out'[c][i].frame)
      BY Zenon
    <3>1. i + 1 > 1 /\ i + 1 \in DOMAIN out[c] /\ out'[c][i] = out[c][i + 1]
      <4>1. i # 0
        BY <1>1, SeqTail, SeqElems
      <4> QED BY <1>7, <4>1
    <3> QED BY <2>2, <3>1, Zenon DEF CleanFrom
  <2>4. Clean(c)'
    BY <1>4, <2>3, Zenon DEF Clean, Range
  <2> QED BY <1>5, <1>6, <2>1, <2>2, <2>4, Zenon DEF Filtered, Quiet
<1> QED BY <1>9, <1>10, <1>11, Zenon

\* Every step keeps the filters.
LEMMA FilteredStep ==
    ASSUME Shapes, [Next]_vars,
           \A c \in Conns : Registered(c) /\ Numbered(c) /\ Filtered(c)
    PROVE  \A c \in Conns : Filtered(c)'
<1> SUFFICES ASSUME NEW c \in Conns PROVE Filtered(c)'
  BY Zenon
<1>1. Registered(c) /\ Numbered(c) /\ Filtered(c) /\ ConnShape(c) /\ IsSeq(cmds)
  BY Zenon DEF Shapes
<1>2. CASE Aside(c) \/ Halts(c)
  BY <1>1, <1>2, AsideFiltered, Zenon
<1>3. CASE Handles(c)
  BY <1>1, <1>3, HandlesFiltered, Zenon
<1>4. CASE Own(c)
  BY <1>1, <1>4, AcceptedFiltered, RelaysFiltered, StopsFiltered, ConnectsFiltered,
     AsksFiltered, IdleFiltered, TakesFiltered, Zenon DEF Own
<1> QED BY <1>2, <1>3, <1>4, Steps, Zenon

\* A client that is in no set_filters call has on its way only frames that the
\* filters it asked for accept: set_filters waits for FiltersAck, and bus_loop
\* applies the filters before it answers.
THEOREM FiltersHold == Spec => []FiltersInForce
<1> DEFINE Inv == Shapes /\ \A c \in Conns : Registered(c) /\ Numbered(c) /\ Filtered(c)
<1>1. Init => Inv
  <2> SUFFICES ASSUME Init, NEW c \in Conns PROVE Filtered(c)
    BY InitShapes, InitRegistered, InitNumbered, Zenon
  <2>1. sock[c] = "none"
    BY Zenon DEF Init
  <2> QED BY <2>1, Zenon DEF Filtered, Live
<1>2. Inv /\ [Next]_vars => Inv'
  BY ShapesStep, RegisteredStep, NumberedStep, FilteredStep, Zenon
<1>3. Inv => FiltersInForce
  BY Zenon DEF FiltersInForce, Settled, Connected, Filtered, Live, Quiet, Clean, Reading
<1> QED BY <1>1, <1>2, <1>3, PTL DEF Spec

-------------------------------------------------------------------------------
(* Leaving *)

\* Once the bus thread has ended nothing is kept and nothing more is posted.
Ended ==
    /\ bus \in {"running", "ended"}
    /\ bus = "ended" => cmds = <<>> /\ clients = <<>> /\ pending = <<>>

OnlyRemoved(c, j) ==
    \A i \in DOMAIN cmds : i > j /\ About(cmds[i], c) => Removes(cmds[i], c)

\* The reader thread's own RemoveClient is the last word of a connection, up
\* to another RemoveClient of the writer thread: it is handled, or it is on
\* its way.
Leaving(c) ==
    reader[c] = "ended" =>
        \/ c \notin DOMAIN clients \cup DOMAIN pending /\ OnlyRemoved(c, 0)
        \/ \E j \in DOMAIN cmds : Removes(cmds[j], c) /\ OnlyRemoved(c, j)

\* The bus thread ends once.
LEMMA EndedStep ==
    ASSUME Shapes, Ended, [Next]_vars
    PROVE  Ended'
<1>1. CASE SameBus /\ (cmds' = cmds \/ Post([cmd |-> "shutdown"]))
  BY <1>1, Zenon DEF SameBus, Post, Ended
<1>2. ASSUME NEW c \in Conns, Own(c) PROVE Ended'
  BY <1>2, OwnPosts, Zenon DEF SameBus, Ended
<1>3. CASE BusLoop
  BY <1>3, Zenon DEF BusLoop, Ended
<1> QED BY <1>1, <1>2, <1>3, Steps, Zenon

\* A command is added, about another or a RemoveClient.
LEMMA PostLeaving ==
    ASSUME NEW c, IsSeq(cmds), Leaving(c), reader'[c] = reader[c],
           clients' = clients, pending' = pending,
           NEW x, ~About(x, c) \/ Removes(x, c), cmds' = Append(cmds, x)
    PROVE  Leaving(c)'
<1>1. Len(cmds) \in Nat /\ DOMAIN cmds = 1..Len(cmds)
  BY SeqElems, Zenon
<1>2. /\ DOMAIN cmds' = 1..(Len(cmds) + 1) /\ cmds'[Len(cmds) + 1] = x
      /\ \A i \in DOMAIN cmds : cmds'[i] = cmds[i] /\ i \in DOMAIN cmds'
  BY <1>1, SeqAppend
<1>3. \A j : OnlyRemoved(c, j) => OnlyRemoved(c, j)'
  <2> SUFFICES ASSUME NEW j, OnlyRemoved(c, j), NEW i \in DOMAIN cmds', i > j,
                      About(cmds'[i], c)
               PROVE  Removes(cmds'[i], c)
    BY Zenon DEF OnlyRemoved
  <2>1. CASE i \in DOMAIN cmds
    BY <1>2, <2>1, Zenon DEF OnlyRemoved
  <2>2. CASE i \notin DOMAIN cmds
    <3>1. cmds'[i] = x
      BY <1>1, <1>2, <2>2
    <3> QED BY <3>1, Zenon
  <2> QED BY <2>1, <2>2, Zenon
<1> QED BY <1>2, <1>3, Zenon DEF Leaving

\* The threads and the client of c take a step.
LEMMA OwnLeaving ==
    ASSUME Shapes, Ended, NEW c \in Conns, Leaving(c), Own(c)
    PROVE  Leaving(c)'
<1>1. IsSeq(cmds) /\ SameBus
  BY OwnPosts, Zenon DEF Shapes
<1>2. CASE Accepted(c) \/ Relays(c)
  BY <1>2, Zenon DEF Accepted, Relays, Leaving
<1>3. CASE ReaderStops(c)
  <2>1. PICK x : Removes(x, c) /\ Post(x)
    BY <1>3, Zenon DEF ReaderStops
  <2>2. CASE bus = "running"
    <3>1. cmds' = Append(cmds, x)
      BY <2>1, <2>2, Zenon DEF Post
    <3>2. /\ DOMAIN cmds' = 1..(Len(cmds) + 1) /\ cmds'[Len(cmds) + 1] = x
          /\ Len(cmds) \in Nat
      BY <1>1, <3>1, SeqAppend, SeqElems, Zenon
    <3>3. PICK k : k = Len(cmds) + 1
      BY Zenon
    <3>4. k \in DOMAIN cmds' /\ cmds'[k] = x /\ OnlyRemoved(c, k)'
      BY <3>2, <3>3 DEF OnlyRemoved
    <3> QED BY <2>1, <3>4, Zenon DEF Leaving
  <2>3. CASE bus # "running"
    <3>1. cmds' = <<>> /\ clients' = <<>> /\ pending' = <<>>
      BY <1>1, <2>1, <2>3, Zenon DEF Post, Ended, SameBus
    <3> QED BY <3>1, SeqNone, Zenon DEF Leaving, OnlyRemoved
  <2> QED BY <2>2, <2>3, Zenon
<1>4. CASE WriterStops(c)
  <2>1. cmds' = cmds \/ \E x : Removes(x, c) /\ cmds' = Append(cmds, x)
    BY <1>4, Zenon DEF WriterStops, Post
  <2>2. reader'[c] = reader[c] /\ clients' = clients /\ pending' = pending
    BY <1>1, <1>4, Zenon DEF WriterStops, SameBus
  <2>3. CASE cmds' = cmds
    BY <2>2, <2>3, Zenon DEF Leaving, OnlyRemoved
  <2> QED BY <1>1, <2>1, <2>2, <2>3, PostLeaving, Zenon
<1>5. CASE \/ Connects(c) \/ Closes(c) \/ Asks(c) \/ GivesUp(c) \/ Receives(c)
           \/ \E m : Takes(c, m)
  <2>1. SameServer(c)
    BY <1>5, Zenon DEF Connects, Closes, Asks, GivesUp, Receives, Takes
  <2> QED BY <2>1, Zenon DEF SameServer, SameThreads, SameBus, Leaving, OnlyRemoved
<1> QED BY <1>2, <1>3, <1>4, <1>5, Zenon DEF Own

\* The bus thread handles a command.
LEMMA HandlesLeaving ==
    ASSUME Shapes, NEW c \in Conns, Leaving(c), Handles(c)
    PROVE  Leaving(c)'
<1>1. /\ IsSeq(cmds) /\ cmds # <<>> /\ cmds' = Tail(cmds) /\ reader'[c] = reader[c]
      /\ Elsewhere(c) \/ Adds(c) \/ Drops(c) \/ Sets(c) \/ Bcasts(c)
  BY Zenon DEF Handles, SameThreads, Shapes
<1>2. /\ Len(cmds) \in Nat /\ DOMAIN cmds = 1..Len(cmds)
      /\ DOMAIN cmds' = 1..(Len(cmds) - 1)
      /\ Head(cmds) = cmds[1] /\ 1 \in DOMAIN cmds
      /\ \A i \in DOMAIN cmds' : i + 1 \in DOMAIN cmds /\ cmds'[i] = cmds[i + 1]
  BY <1>1, SeqElems, SeqTail, Zenon
<1>3. \A j \in Nat : OnlyRemoved(c, j + 1) => OnlyRemoved(c, j)'
  BY <1>2 DEF OnlyRemoved
<1>4. OnlyRemoved(c, 0) => OnlyRemoved(c, 0)'
  BY <1>2 DEF OnlyRemoved
<1>a. Adds(c) => ~Removes(Head(cmds), c)
  BY DEF Adds, Registers, Removes
<1>5. Removes(Head(cmds), c) => Drops(c)
  <2>1. Sets(c) \/ Bcasts(c) => ~Removes(Head(cmds), c)
    BY Zenon DEF Sets, Bcasts, Removes
  <2>2. Removes(Head(cmds), c) => About(Head(cmds), c)
    BY Zenon DEF Removes, About
  <2> QED BY <1>1, <1>a, <2>1, <2>2, Zenon DEF Elsewhere
<1>6. Drops(c) => c \notin DOMAIN clients' \cup DOMAIN pending'
  BY Zenon DEF Drops
<1>7. ASSUME OnlyRemoved(c, 0), c \notin DOMAIN clients \cup DOMAIN pending
      PROVE  c \notin DOMAIN clients' \cup DOMAIN pending'
  <2>1. CASE About(Head(cmds), c)
    BY <1>2, <1>5, <1>6, <1>7, <2>1 DEF OnlyRemoved
  <2>2. CASE ~About(Head(cmds), c)
    <3>1. ~Adds(c) /\ ~Sets(c)
      BY <2>2 DEF Adds, Sets, Registers, About
    <3>2. CASE Elsewhere(c) \/ Bcasts(c)
      BY <1>7, <3>2, Zenon DEF Elsewhere, Bcasts, SameReg
    <3> QED BY <1>1, <1>6, <3>1, <3>2, Zenon
  <2> QED BY <2>1, <2>2, Zenon
<1>8. ASSUME NEW j \in DOMAIN cmds, Removes(cmds[j], c), OnlyRemoved(c, j),
             reader'[c] = "ended"
      PROVE  Leaving(c)'
  <2>1. CASE j = 1
    <3>1. Drops(c) /\ OnlyRemoved(c, 0)'
      BY <1>2, <1>3, <1>5, <1>8, <2>1
    <3> QED BY <1>6, <3>1, Zenon DEF Leaving
  <2>2. CASE j # 1
    <3>1. j - 1 \in Nat /\ (j - 1) + 1 = j /\ j - 1 \in DOMAIN cmds'
      BY <1>2, <2>2
    <3>2. Removes(cmds'[j - 1], c) /\ OnlyRemoved(c, j - 1)'
      BY <1>2, <1>3, <1>8, <3>1, Zenon
    <3> QED BY <3>1, <3>2, Zenon DEF Leaving
  <2> QED BY <2>1, <2>2, Zenon
<1> QED BY <1>1, <1>4, <1>7, <1>8, Zenon DEF Leaving

\* Every step keeps the last word of a connection.
LEMMA LeavingStep ==
    ASSUME Shapes, Ended, \A c \in Conns : Leaving(c), [Next]_vars
    PROVE  \A c \in Conns : Leaving(c)'
<1> SUFFICES ASSUME NEW c \in Conns PROVE Leaving(c)'
  BY Zenon
<1>1. Leaving(c) /\ IsSeq(cmds)
  BY Zenon DEF Shapes
<1>2. CASE Aside(c)
  <2>1. CASE cmds' = cmds
    BY <1>1, <1>2, <2>1, Zenon DEF Aside, SameThreads, SameBus, Leaving, OnlyRemoved
  <2>2. ASSUME NEW x, cmds' = Append(cmds, x), ~About(x, c)
        PROVE  Leaving(c)'
    BY <1>1, <1>2, <2>2, PostLeaving, Zenon DEF Aside, SameThreads, SameBus
  <2> QED BY <1>2, <2>1, <2>2, Zenon DEF Aside
<1>3. CASE Halts(c)
  BY <1>3, SeqNone, Zenon DEF Halts, Leaving, OnlyRemoved
<1> QED BY <1>1, <1>2, <1>3, OwnLeaving, HandlesLeaving, Steps, Zenon

\* A client whose reader thread has ended is forgotten once its commands are
\* handled, in whatever order its threads end.
THEOREM Forgotten == Spec => []GoneIsForgotten
<1> DEFINE Inv == Shapes /\ Ended /\ \A c \in Conns : Leaving(c)
<1>1. Init => Inv
  <2> SUFFICES ASSUME Init PROVE Inv
    BY Zenon
  <2>1. Shapes
    BY InitShapes, Zenon
  <2>2. Ended /\ \A c \in Conns : Leaving(c)
    BY Zenon DEF Init, ServerInit, Ended, Leaving
  <2> QED BY <2>1, <2>2, Zenon
<1>2. Inv /\ [Next]_vars => Inv'
  BY ShapesStep, EndedStep, LeavingStep, Zenon
<1>3. Inv => GoneIsForgotten
  BY Zenon DEF Leaving, GoneIsForgotten, Removes
<1> QED BY <1>1, <1>2, <1>3, PTL DEF Spec
===============================================================================
