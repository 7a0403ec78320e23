------------------------------ MODULE LinuxProofs -----------------------------
(***************************************************************************)
(* What is proved of the sockets of Linux: the mode of a raw socket, the   *)
(* wait of a call on an ISO-TP socket, and the demultiplexer over many.    *)
(***************************************************************************)
EXTENDS KernelUdsDemux, IsoTpSocket, SocketMode,
        FiniteSetTheorems, SequenceTheorems, TLAPS

(* The mode of a raw socket *)

\* What makes ModeIsAsAsked inductive: the copy is never wrong when it says
\* that the socket does not block, a call that switches the socket found it
\* as the program wants it, and only a failure leaves a timeout behind.
ModeInv ==
    /\ o_nonblock \in BOOLEAN /\ nonblocking \in BOOLEAN /\ wanted \in BOOLEAN
    /\ snd_timeout \in {"own", "call"}
    /\ running \in {"idle", "try", "toggled", "timed", "timedAgain"}
    /\ nonblocking => o_nonblock
    /\ running = "try" => nonblocking
    /\ running = "toggled" => o_nonblock /\ ~nonblocking
    /\ "mode" \notin spoiled =>
          IF running = "toggled" THEN ~wanted ELSE o_nonblock = wanted
    /\ "timeout" \notin spoiled =>
          /\ running # "timedAgain"
          /\ running # "timed" => snd_timeout = "own"

\* Every call that switches the mode, and every setting, keeps it.
LEMMA ModeStep == ModeInv /\ [ModeNext]_modeVars => ModeInv'
<1> SUFFICES ASSUME ModeInv, [ModeNext]_modeVars PROVE ModeInv'
  BY Zenon
<1> USE DEF ModeInv
<1>1. CASE WithNonblocking
  <2>1. /\ running = "idle" /\ UNCHANGED <<snd_timeout, wanted, spoiled>>
        /\ \/ nonblocking /\ running' = "try" /\ UNCHANGED <<o_nonblock, nonblocking>>
           \/ o_nonblock /\ nonblocking' /\ running' = "try" /\ UNCHANGED o_nonblock
           \/ ~o_nonblock /\ o_nonblock' /\ running' = "toggled" /\ UNCHANGED nonblocking
        /\ nonblocking' \in BOOLEAN /\ o_nonblock' \in BOOLEAN
    BY <1>1, Zenon DEF WithNonblocking
  <2> QED BY <2>1
<1>2. CASE NonblockingEnds
  BY <1>2, Zenon DEF NonblockingEnds
<1>3. CASE WithWriteTimeout
  BY <1>3, Zenon DEF WithWriteTimeout
<1>4. CASE WriteTimeoutEnds
  BY <1>4, Zenon DEF WriteTimeoutEnds
<1>5. CASE \E on \in BOOLEAN : SetNonblocking(on)
  BY <1>5 DEF SetNonblocking
<1>6. CASE \E on \in BOOLEAN : SetInnerNonblocking(on)
  BY <1>6 DEF SetInnerNonblocking
<1>7. CASE UNCHANGED modeVars
  BY <1>7, Zenon DEF modeVars
<1> QED BY <1>1, <1>2, <1>3, <1>4, <1>5, <1>6, <1>7, Zenon DEF ModeNext

\* try_send and try_recv never block, and a socket has between calls the mode
\* and the timeout of the program unless a system call failed.
THEOREM ModeIsKept == ModeSpec => []ModeIsAsAsked
<1>1. ModeInit => ModeInv
  <2> SUFFICES ASSUME ModeInit PROVE ModeInv
    BY Zenon
  <2>1. /\ o_nonblock \in BOOLEAN /\ wanted = o_nonblock
        /\ nonblocking = FALSE \/ nonblocking = o_nonblock
    BY Zenon DEF ModeInit
  <2>2. /\ nonblocking \in BOOLEAN /\ wanted \in BOOLEAN
        /\ (nonblocking => o_nonblock)
    <3>1. CASE nonblocking = FALSE
      BY <2>1, <3>1, Zenon
    <3>2. CASE nonblocking = o_nonblock
      BY <2>1, <3>2, Zenon
    <3> QED BY <2>1, <3>1, <3>2, Zenon
  <2> QED BY <2>1, <2>2, Zenon DEF ModeInit, ModeInv
<1>2. ModeInv => ModeIsAsAsked
  BY Zenon DEF ModeInv, ModeIsAsAsked
<1> QED BY <1>1, <1>2, ModeStep, PTL DEF ModeSpec

-------------------------------------------------------------------------------
(* Waiting on a socket *)

SocketSpec == SocketInit /\ [][SocketNext]_socketVars

SocketTypeOK ==
    /\ api \in {"sync", "recv_one", "recv_one_into"}
    /\ queued \in Nat
    /\ busy \in BOOLEAN
    /\ edge \in BOOLEAN
    /\ ready \subseteq {"read", "write"}
    /\ reported \in BOOLEAN
    /\ pc \in {"idle", "trySend", "waitSend", "clearSend",
               "tryRecv", "waitRecv", "clearRecv"}

\* What makes NeverWaitsInVain inductive.  recv_one_into waits before it
\* tries, so with it a payload must be remembered at all times; and where it
\* is about to clear the readiness, the report of a payload that came since
\* its attempt must keep it from doing so.
Remembered ==
    /\ NeverWaitsInVain
    /\ api = "recv_one_into" /\ queued > 0 =>
          \/ edge
          \/ "read" \in ready /\ (pc = "clearRecv" => reported)

\* Every step of the call, the kernel and the driver keeps the readiness.
LEMMA RememberedStep ==
    ASSUME SocketTypeOK, Remembered, SocketNext
    PROVE  SocketTypeOK' /\ Remembered'
<1> USE DEF SocketTypeOK, Remembered, NeverWaitsInVain, Goto
<1>1. CASE StartSend
  BY <1>1, Zenon DEF StartSend
<1>2. CASE TrySend
  BY <1>2, Zenon DEF TrySend
<1>3. CASE StartRecv
  BY <1>3, Zenon DEF StartRecv
<1>4. CASE TryRecv
  BY <1>4 DEF TryRecv
<1>5. CASE PollFd
  BY <1>5, Zenon DEF PollFd
<1>6. CASE AwaitReady
  BY <1>6, Zenon DEF AwaitReady
<1>7. CASE ClearReady
  BY <1>7, Zenon DEF ClearReady, Clear
<1>8. CASE TimeOut
  BY <1>8, Zenon DEF TimeOut
<1>9. CASE PayloadArrives
  BY <1>9 DEF PayloadArrives
<1>10. CASE TransmissionEnds
  BY <1>10, Zenon DEF TransmissionEnds
<1>11. CASE Driver
  BY <1>11, Zenon DEF Driver, Possible
<1> QED BY <1>1, <1>2, <1>3, <1>4, <1>5, <1>6, <1>7, <1>8, <1>9, <1>10, <1>11, Zenon
        DEF SocketNext

\* A call on a TokioSocketCanIsoTp never waits for a payload or for room that
\* is there already, whatever the driver and the kernel do in between.
THEOREM WaitsAreAnswered == SocketSpec => []NeverWaitsInVain
<1>1. SocketInit => SocketTypeOK /\ Remembered
  <2> SUFFICES ASSUME SocketInit PROVE SocketTypeOK /\ Remembered
    BY Zenon
  <2>1. SocketTypeOK
    BY Zenon DEF SocketInit, SocketTypeOK
  <2>2. ~(queued > 0) /\ pc = "idle"
    BY DEF SocketInit
  <2> QED BY <2>1, <2>2, Zenon DEF Remembered, NeverWaitsInVain
<1>2. SocketTypeOK /\ Remembered /\ [SocketNext]_socketVars
      => SocketTypeOK' /\ Remembered'
  <2> SUFFICES ASSUME SocketTypeOK, Remembered, [SocketNext]_socketVars
               PROVE  SocketTypeOK' /\ Remembered'
    BY Zenon
  <2>1. CASE UNCHANGED socketVars
    BY <2>1, Zenon DEF socketVars, SocketTypeOK, Remembered, NeverWaitsInVain
  <2> QED BY <2>1, RememberedStep, Zenon
<1>3. Remembered => NeverWaitsInVain
  BY Zenon DEF Remembered
<1> QED BY <1>1, <1>2, <1>3, PTL DEF SocketSpec

-------------------------------------------------------------------------------
(* The demultiplexer *)

Payload == [no : Nat, len : Nat]

DemuxTypeOK ==
    /\ options.max_rx_payload \in Nat
    /\ options.flow_control \in Seq(KernelFc) /\ Len(options.flow_control) <= 1
    /\ rx_flow_control \in RequestedFc
    /\ peers \in Seq([addr : Addrs, fc : KernelFc])
    /\ kernel \in [Addrs -> [queue : Seq(Payload), busy : BOOLEAN,
                             error : BOOLEAN]]
    /\ sending \subseteq Addrs
    /\ arrived \in [Addrs -> Seq(Payload)]
    /\ received \in [Addrs -> Seq(Payload)]

\* What makes UniformFlowControl inductive: the encoding of the flow control
\* asked for is in force.
InForce ==
    \A i \in DOMAIN peers : peers[i].addr \notin stale =>
        peers[i].fc = FcOf(rx_flow_control)

\* An encoded separation time is a byte, and decodes to one that is shorter by
\* less than a millisecond, or to the longest there is.
LEMMA EncodedStMin ==
    ASSUME NEW time \in Nat
    PROVE  LET got == StMinToDuration(DurationToStMin(time)) IN
           /\ DurationToStMin(time) \in 0..255
           /\ got <= time
           /\ IF time < 128000 THEN time - got < 1000 ELSE got = 127000
<1> DEFINE q == time \div 1000
           h == time \div 100
<1>1. /\ q \in Nat /\ 1000 * q <= time /\ time < 1000 * q + 1000
      /\ h \in Nat /\ 100 * h <= time /\ time < 100 * h + 100
      /\ time % 100 = time - 100 * h
  OBVIOUS
<1>2. CASE Fine(time)
  <2>1. time = 100 * h /\ h \in 1..9
    BY <1>1, <1>2 DEF Fine
  <2>2. DurationToStMin(time) = 240 + h
    BY <1>2, Zenon DEF DurationToStMin
  <2> HIDE DEF q, h
  <2>3. 240 + h \in 241..249 /\ 240 + h \notin 0..127 /\ ((240 + h) - 240) * 100 = time
    BY <2>1
  <2>4. StMinToDuration(240 + h) = time
    BY <2>3 DEF StMinToDuration
  <2> QED BY <2>1, <2>2, <2>4
<1>3. CASE ~Fine(time) /\ q <= 127
  <2>1. DurationToStMin(time) = q /\ q \in 0..127
    BY <1>1, <1>3 DEF DurationToStMin
  <2> HIDE DEF q, h
  <2>2. StMinToDuration(q) = q * 1000
    BY <2>1 DEF StMinToDuration
  <2> QED BY <1>1, <2>1, <2>2
<1>4. CASE ~Fine(time) /\ ~(q <= 127)
  <2>1. DurationToStMin(time) = 127
    BY <1>4 DEF DurationToStMin
  <2>2. StMinToDuration(127) = 127000
    BY DEF StMinToDuration
  <2> HIDE DEF q, h
  <2>3. time >= 128000
    BY <1>1, <1>4
  <2> QED BY <2>1, <2>2, <2>3
<1> QED BY <1>2, <1>3, <1>4, SMTT(20)

\* The STmin bytes that are not reserved
Unreserved == (0..127) \cup (241..249)

\* A byte that is not reserved is decoded and encoded to itself.
LEMMA DecodedStMin ==
    ASSUME NEW raw \in Unreserved
    PROVE  DurationToStMin(StMinToDuration(raw)) = raw
<1>1. CASE raw \in 0..127
  <2>1. StMinToDuration(raw) = raw * 1000
    BY <1>1 DEF StMinToDuration
  <2>2. ~Fine(raw * 1000) /\ (raw * 1000) \div 1000 = raw
    BY <1>1 DEF Fine
  <2> QED BY <1>1, <2>1, <2>2 DEF DurationToStMin
<1>2. CASE raw \in 241..249
  <2>1. StMinToDuration(raw) = (raw - 240) * 100
    BY <1>2 DEF StMinToDuration
  <2>2. Fine((raw - 240) * 100) /\ ((raw - 240) * 100) \div 100 = raw - 240
    BY <1>2 DEF Fine
  <2> QED BY <1>2, <2>1, <2>2 DEF DurationToStMin
<1> QED BY <1>1, <1>2, Zenon DEF Unreserved

\* What a socket is opened with, and what it is set to, are three bytes.
LEMMA FcTypes ==
    ASSUME DemuxTypeOK
    PROVE  /\ ApplyKernelOptions(options) \in KernelFc
           /\ \A fc \in RequestedFc : FcOf(fc) \in KernelFc
<1>1. ApplyKernelOptions(options) \in KernelFc
  <2>1. CASE options.flow_control = <<>>
    BY <2>1 DEF ApplyKernelOptions, NoFc, KernelFc
  <2>2. CASE options.flow_control # <<>>
    <3>1. options.flow_control[1] \in KernelFc
      BY <2>2 DEF DemuxTypeOK
    <3> QED BY <2>2, <3>1, Zenon DEF ApplyKernelOptions
  <2> QED BY <2>1, <2>2, Zenon
<1>2. ASSUME NEW fc \in RequestedFc PROVE FcOf(fc) \in KernelFc
  <2>1. fc.block_size \in 0..255 /\ fc.st_min \in Nat
    BY Zenon DEF RequestedFc
  <2>2. DurationToStMin(fc.st_min) \in 0..255
    BY <2>1, EncodedStMin
  <2>3. ApplyKernelOptions(options).wftmax \in 0..255
    BY <1>1, Zenon DEF KernelFc
  <2> QED BY <2>1, <2>2, <2>3, Zenon DEF FcOf, KernelFc
<1> QED BY <1>1, <1>2, Zenon

\* What reading makes of a payload is a payload.
LEMMA ReadType ==
    ASSUME DemuxTypeOK, NEW p \in Payload
    PROVE  Read(p) \in Payload
<1>1. options.max_rx_payload \in Nat /\ p.len \in Nat
  BY Zenon DEF DemuxTypeOK, Payload
<1>2. (IF p.len <= options.max_rx_payload THEN p.len ELSE options.max_rx_payload)
         \in Nat
  BY <1>1, Zenon
<1> QED BY <1>2, Zenon DEF Read, Payload

\* Reading goes through a queue payload by payload.
LEMMA ReadAllElems ==
    ASSUME DemuxTypeOK, NEW q \in Seq(Payload)
    PROVE  /\ ReadAll(q) \in Seq(Payload) /\ Len(ReadAll(q)) = Len(q)
           /\ \A i \in 1..Len(q) : ReadAll(q)[i] = Read(q[i])
<1>1. DOMAIN q = 1..Len(q) /\ Len(q) \in Nat /\ \A i \in 1..Len(q) : q[i] \in Payload
  OBVIOUS
<1>2. ReadAll(q) \in [1..Len(q) -> Payload]
  BY <1>1, ReadType, Zenon DEF ReadAll
<1>3. ReadAll(q) \in Seq(Payload) /\ Len(ReadAll(q)) = Len(q)
  BY <1>1, <1>2, SeqDef
<1> QED BY <1>1, <1>3, Zenon DEF ReadAll

\* A payload that arrives at the end of a queue is read last.
LEMMA ReadAllAppend ==
    ASSUME DemuxTypeOK, NEW q \in Seq(Payload), NEW p \in Payload
    PROVE  ReadAll(Append(q, p)) = Append(ReadAll(q), Read(p))
<1>1. /\ Append(q, p) \in Seq(Payload) /\ Len(Append(q, p)) = Len(q) + 1
      /\ \A i \in 1..Len(q) : Append(q, p)[i] = q[i]
      /\ Append(q, p)[Len(q) + 1] = p /\ Len(q) \in Nat
  BY AppendProperties
<1>2. /\ ReadAll(q) \in Seq(Payload) /\ Len(ReadAll(q)) = Len(q)
      /\ \A i \in 1..Len(q) : ReadAll(q)[i] = Read(q[i])
  BY ReadAllElems, Zenon
<1> DEFINE s == ReadAll(Append(q, p))
           t == Append(ReadAll(q), Read(p))
<1>3. /\ s \in Seq(Payload) /\ Len(s) = Len(q) + 1
      /\ \A i \in 1..(Len(q) + 1) : s[i] = Read(Append(q, p)[i])
  BY <1>1, ReadAllElems, Zenon
<1>4. /\ t \in Seq(Payload) /\ Len(t) = Len(q) + 1
      /\ \A i \in 1..Len(q) : t[i] = ReadAll(q)[i]
      /\ t[Len(q) + 1] = Read(p)
  BY <1>2, ReadType, AppendProperties
<1>5. \A i \in 1..(Len(q) + 1) : i \in 1..Len(q) \/ i = Len(q) + 1
  BY <1>1
<1> HIDE DEF s, t
<1>6. \A i \in 1..Len(s) : s[i] = t[i]
  BY <1>1, <1>2, <1>3, <1>4, <1>5
<1>7. s = t
  BY <1>3, <1>4, <1>6, SeqEqual, Zenon
<1> QED BY <1>7, Zenon DEF s, t

\* The first payload is read first.
LEMMA ReadAllTail ==
    ASSUME DemuxTypeOK, NEW q \in Seq(Payload), q # <<>>
    PROVE  /\ ReadAll(q) # <<>> /\ Head(ReadAll(q)) = Read(Head(q))
           /\ Tail(ReadAll(q)) = ReadAll(Tail(q))
<1>1. /\ Tail(q) \in Seq(Payload) /\ Len(Tail(q)) = Len(q) - 1
      /\ \A i \in 1..(Len(q) - 1) : Tail(q)[i] = q[i + 1]
      /\ Len(q) \in Nat \ {0} /\ Head(q) = q[1]
  BY HeadTailProperties, EmptySeq
<1>2. /\ ReadAll(q) \in Seq(Payload) /\ Len(ReadAll(q)) = Len(q)
      /\ \A i \in 1..Len(q) : ReadAll(q)[i] = Read(q[i])
  BY ReadAllElems, Zenon
<1>3. ReadAll(q) # <<>> /\ Head(ReadAll(q)) = ReadAll(q)[1]
  BY <1>1, <1>2, EmptySeq
<1> DEFINE s == Tail(ReadAll(q))
           t == ReadAll(Tail(q))
<1>4. /\ s \in Seq(Payload) /\ Len(s) = Len(q) - 1
      /\ \A i \in 1..(Len(q) - 1) : s[i] = ReadAll(q)[i + 1]
  BY <1>2, <1>3, HeadTailProperties
<1>5. /\ t \in Seq(Payload) /\ Len(t) = Len(q) - 1
      /\ \A i \in 1..(Len(q) - 1) : t[i] = Read(Tail(q)[i])
  BY <1>1, ReadAllElems, Zenon
<1>6. \A i \in 1..(Len(q) - 1) : i + 1 \in 1..Len(q)
  BY <1>1
<1> HIDE DEF s, t
<1>7. \A i \in 1..Len(s) : s[i] = t[i]
  BY <1>1, <1>2, <1>4, <1>5, <1>6
<1>8. s = t
  BY <1>4, <1>5, <1>7, SeqEqual, Zenon
<1>9. Head(ReadAll(q)) = Read(Head(q))
  BY <1>1, <1>2, <1>3
<1> QED BY <1>3, <1>8, <1>9, Zenon DEF s, t

\* Moving the head of one sequence to the end of another keeps their
\* concatenation, and what is appended to the second comes last.
LEMMA MoveHead ==
    ASSUME NEW S, NEW r \in Seq(S), NEW q \in Seq(S)
    PROVE  /\ q # <<>> => Append(r, Head(q)) \o Tail(q) = r \o q
           /\ \A e \in S : r \o Append(q, e) = Append(r \o q, e)
<1>1. ASSUME q # <<>> PROVE Append(r, Head(q)) \o Tail(q) = r \o q
  <2>1. Head(q) \in S /\ Tail(q) \in Seq(S)
    BY <1>1, HeadTailProperties, Zenon
  <2>2. Append(r, Head(q)) = r \o <<Head(q)>> /\ <<Head(q)>> \in Seq(S)
    BY <2>1, AppendIsConcat
  <2>3. <<Head(q)>> \o Tail(q) = q
    BY <1>1
  <2> QED BY <2>1, <2>2, <2>3, ConcatAssociative, SMTT(20)
<1>2. ASSUME NEW e \in S PROVE r \o Append(q, e) = Append(r \o q, e)
  <2>1. Append(q, e) = q \o <<e>> /\ <<e>> \in Seq(S)
    BY AppendIsConcat
  <2>2. r \o q \in Seq(S)
    BY ConcatProperties, Zenon
  <2>3. Append(r \o q, e) = (r \o q) \o <<e>>
    BY <2>2, AppendIsConcat, Zenon
  <2> QED BY <2>1, <2>3, ConcatAssociative
<1> QED BY <1>1, <1>2, Zenon

\* A set of numbers that is not empty has a least one.
LEMMA LeastOf ==
    ASSUME NEW S \in SUBSET Nat, S # {}
    PROVE  \E i \in S : \A j \in S : i <= j
<1>1. PICK i \in S : \A j \in S : <<j, i>> \notin OpToRel(<, Nat)
  BY NatLessThanWellFounded, WFMin, Zenon
<1>2. \A x, y \in Nat : <<x, y>> \in OpToRel(<, Nat) <=> x < y
  BY Zenon DEF OpToRel
<1>3. \A j \in S : ~(j < i) /\ j \in Nat /\ i \in Nat
  BY <1>1, <1>2, Zenon
<1> QED BY <1>3

\* All three together are the inductive invariant of the demultiplexer.
DemuxInv == DemuxTypeOK /\ InForce /\ PerPeerInOrder

\* What does not touch the queues and histories keeps the order.
LEMMA SameOrder ==
    ASSUME PerPeerInOrder, UNCHANGED <<options, arrived, received>>,
           \A a \in Addrs : kernel'[a].queue = kernel[a].queue
    PROVE  PerPeerInOrder'
  BY Zenon DEF PerPeerInOrder, ReadAll, Read

\* A new peer's socket has the flow control asked for, or is known not to.
LEMMA OpenPeerStep ==
    ASSUME DemuxTypeOK, InForce, NEW a \in Addrs, OpenPeer(a),
           UNCHANGED <<options, rx_flow_control>>
    PROVE  peers' \in Seq([addr : Addrs, fc : KernelFc]) /\ InForce'
<1>1. PICK fc \in KernelFc :
         /\ peers' = Append(peers, [addr |-> a, fc |-> fc])
         /\ fc = FcOf(rx_flow_control) \/ a \in stale'
         /\ stale \subseteq stale'
  BY FcTypes, Zenon DEF OpenPeer, DemuxTypeOK
<1> DEFINE p == [addr |-> a, fc |-> fc]
           n == Len(peers)
<1>2. p \in [addr : Addrs, fc : KernelFc] /\ p.addr = a /\ p.fc = fc
  BY Zenon
<1>3. peers' = Append(peers, p) /\ peers \in Seq([addr : Addrs, fc : KernelFc])
  BY <1>1, Zenon DEF DemuxTypeOK
<1> HIDE DEF p
<1>4. /\ peers' \in Seq([addr : Addrs, fc : KernelFc])
      /\ DOMAIN peers' = 1..(n + 1) /\ DOMAIN peers = 1..n /\ n \in Nat
      /\ peers'[n + 1] = p /\ \A i \in 1..n : peers'[i] = peers[i]
  BY <1>2, <1>3, AppendProperties, LenProperties
<1>5. \A i \in 1..(n + 1) : i \in 1..n \/ i = n + 1
  BY <1>4
<1>6. FcOf(rx_flow_control)' = FcOf(rx_flow_control)
  BY Zenon DEF FcOf, ApplyKernelOptions
<1> HIDE DEF n
<1>7. ASSUME NEW i \in DOMAIN peers', peers'[i].addr \notin stale'
      PROVE  peers'[i].fc = FcOf(rx_flow_control)
  BY <1>1, <1>2, <1>4, <1>5, <1>7, Zenon DEF InForce
<1> QED BY <1>4, <1>6, <1>7, Zenon DEF InForce

\* register_peer, and the start of a send
LEMMA OpensStep ==
    ASSUME DemuxInv, NEW a \in Addrs, RegisterPeer(a) \/ SendTo(a)
    PROVE  DemuxInv'
<1>1. /\ UNCHANGED <<options, rx_flow_control, kernel, arrived, received>>
      /\ sending' \subseteq Addrs
      /\ OpenPeer(a) \/ UNCHANGED <<peers, stale>>
  BY Zenon DEF RegisterPeer, SendTo, DemuxInv, DemuxTypeOK
<1>2. peers' \in Seq([addr : Addrs, fc : KernelFc]) /\ InForce'
  <2>1. CASE OpenPeer(a)
    BY <1>1, <2>1, OpenPeerStep, Zenon DEF DemuxInv
  <2>2. CASE UNCHANGED <<peers, stale>>
    BY <1>1, <2>2, Zenon DEF DemuxInv, DemuxTypeOK, InForce, FcOf, ApplyKernelOptions
  <2> QED BY <1>1, <2>1, <2>2, Zenon
<1>3. PerPeerInOrder'
  BY <1>1, SameOrder, Zenon DEF DemuxInv
<1>4. DemuxTypeOK'
  BY <1>1, <1>2, Zenon DEF DemuxInv, DemuxTypeOK
<1> QED BY <1>2, <1>3, <1>4, Zenon DEF DemuxInv

\* The end of a send, and of a transmission, or an error of the socket
LEMMA BusyStep ==
    ASSUME DemuxInv, SendEnds \/ \E a \in Addrs : KernelSends(a)
    PROVE  DemuxInv'
<1>1. /\ UNCHANGED <<options, rx_flow_control, peers, arrived, received, stale>>
      /\ sending' \subseteq Addrs
  BY Zenon DEF SendEnds, KernelSends, DemuxInv, DemuxTypeOK
<1>2. /\ kernel' \in [Addrs -> [queue : Seq(Payload), busy : BOOLEAN,
                                error : BOOLEAN]]
      /\ \A a \in Addrs : kernel'[a].queue = kernel[a].queue
  <2> DEFINE K == [queue : Seq(Payload), busy : BOOLEAN, error : BOOLEAN]
  <2>1. kernel \in [Addrs -> K] /\ sending \subseteq Addrs
    BY Zenon DEF DemuxInv, DemuxTypeOK
  <2>2. \/ kernel' = kernel
        \/ \E a \in Addrs : \/ kernel' = [kernel EXCEPT ![a].busy = TRUE]
                            \/ kernel' = [kernel EXCEPT ![a].busy = FALSE]
                            \/ kernel' = [kernel EXCEPT ![a].busy = FALSE,
                                                       ![a].error = TRUE]
    BY <2>1, Zenon DEF SendEnds, KernelSends
  <2>3. ASSUME NEW a \in Addrs, NEW k \in K, k.queue = kernel[a].queue,
               kernel' = [kernel EXCEPT ![a] = k]
        PROVE  /\ kernel' \in [Addrs -> K]
               /\ \A b \in Addrs : kernel'[b].queue = kernel[b].queue
    BY <2>1, <2>3, Zenon
  <2>4. ASSUME NEW a \in Addrs, NEW busy1 \in BOOLEAN, NEW error1 \in BOOLEAN
        PROVE  /\ [kernel[a] EXCEPT !.busy = busy1] \in K
               /\ [kernel[a] EXCEPT !.busy = busy1].queue = kernel[a].queue
               /\ [kernel[a] EXCEPT !.busy = busy1, !.error = error1] \in K
               /\ [kernel[a] EXCEPT !.busy = busy1, !.error = error1].queue
                     = kernel[a].queue
    BY <2>1, Zenon
  <2>5. \/ kernel' = kernel
        \/ \E a \in Addrs :
              \/ kernel' = [kernel EXCEPT ![a] = [kernel[a] EXCEPT !.busy = TRUE]]
              \/ kernel' = [kernel EXCEPT ![a] = [kernel[a] EXCEPT !.busy = FALSE]]
              \/ kernel' = [kernel EXCEPT ![a] = [kernel[a] EXCEPT !.busy = FALSE,
                                                                !.error = TRUE]]
    BY <2>1, <2>2, Zenon
  <2> HIDE DEF K
  <2>6. CASE kernel' = kernel
    BY <2>1, <2>6, Zenon DEF K
  <2>7. ASSUME NEW a \in Addrs, NEW k \in K, k.queue = kernel[a].queue,
               kernel' = [kernel EXCEPT ![a] = k]
        PROVE  /\ kernel' \in [Addrs -> [queue : Seq(Payload), busy : BOOLEAN,
                                         error : BOOLEAN]]
               /\ \A b \in Addrs : kernel'[b].queue = kernel[b].queue
    BY <2>3, <2>7, Zenon DEF K
  <2> QED BY <2>4, <2>5, <2>6, <2>7, Zenon
<1>3. PerPeerInOrder'
  BY <1>1, <1>2, SameOrder, Zenon DEF DemuxInv
<1>4. DemuxTypeOK' /\ InForce'
  BY <1>1, <1>2, Zenon DEF DemuxInv, DemuxTypeOK, InForce, FcOf, ApplyKernelOptions
<1> QED BY <1>3, <1>4, Zenon DEF DemuxInv

\* set_rx_flow_control
LEMMA SetStep ==
    ASSUME DemuxInv, NEW fc \in FlowControls, SetRxFlowControl(fc)
    PROVE  DemuxInv'
<1>1. /\ UNCHANGED <<options, kernel, sending, arrived, received>>
      /\ rx_flow_control' = fc /\ fc \in RequestedFc /\ DemuxTypeOK
  BY DemuxAssumption, Zenon DEF SetRxFlowControl, DemuxInv
<1>2. PICK done \in 0..Len(peers) :
         /\ peers' = [i \in DOMAIN peers |->
                         IF i <= done THEN [peers[i] EXCEPT !.fc = FcOf(fc)]
                                      ELSE peers[i]]
         /\ stale' = {peers[i].addr : i \in (done + 1)..Len(peers)}
  <2>1. Len(peers) \in Nat
    BY <1>1, LenProperties, Zenon DEF DemuxTypeOK
  <2>2. Len(peers) \in 0..Len(peers)
    BY <2>1
  <2> QED BY <2>2, Zenon DEF SetRxFlowControl
<1>3. /\ DOMAIN peers = 1..Len(peers) /\ Len(peers) \in Nat
      /\ \A i \in 1..Len(peers) : peers[i] \in [addr : Addrs, fc : KernelFc]
  BY <1>1, LenProperties, ElementOfSeq, Zenon DEF DemuxTypeOK
<1>4. FcOf(fc) \in KernelFc /\ FcOf(rx_flow_control)' = FcOf(fc)
  BY <1>1, FcTypes, Zenon DEF FcOf, ApplyKernelOptions
<1>5. \A i \in 1..Len(peers) :
         /\ peers'[i] \in [addr : Addrs, fc : KernelFc]
         /\ peers'[i].addr = peers[i].addr
         /\ i <= done => peers'[i].fc = FcOf(fc)
  BY <1>2, <1>3, <1>4, Zenon
<1>6. peers' \in [1..Len(peers) -> [addr : Addrs, fc : KernelFc]]
  BY <1>2, <1>3, <1>5, Zenon
<1>7. peers' \in Seq([addr : Addrs, fc : KernelFc])
  <2> DEFINE P == [addr : Addrs, fc : KernelFc]
             n == Len(peers)
  <2>1. n \in Nat /\ peers' \in [1..n -> P]
    BY <1>3, <1>6, Zenon
  <2> HIDE DEF P, n
  <2>2. peers' \in Seq(P)
    BY <2>1, SeqDef, Zenon
  <2> QED BY <2>2, Zenon DEF P
<1>8. InForce'
  <2> SUFFICES ASSUME NEW i \in DOMAIN peers', peers'[i].addr \notin stale'
               PROVE  peers'[i].fc = FcOf(fc)
    BY <1>4, Zenon DEF InForce
  <2>1. i \in 1..Len(peers)
    BY <1>2, <1>3, Zenon
  <2>2. peers[i].addr \notin stale'
    BY <1>5, <2>1, Zenon
  <2>3. i \notin (done + 1)..Len(peers)
    BY <1>2, <2>2, Zenon
  <2>4. i <= done
    BY <1>3, <2>1, <2>3
  <2> QED BY <1>5, <2>1, <2>4, Zenon
<1>9. PerPeerInOrder'
  BY <1>1, SameOrder, Zenon DEF DemuxInv
<1> QED BY <1>1, <1>7, <1>8, <1>9, Zenon DEF DemuxInv, DemuxTypeOK

\* A payload that recv_one hands over leaves the front of the queue.
LEMMA RecvStep ==
    ASSUME DemuxInv, RecvOne
    PROVE  DemuxInv'
<1>1. /\ UNCHANGED <<options, rx_flow_control, peers, sending, arrived, stale>>
      /\ DemuxTypeOK
  BY Zenon DEF RecvOne, DemuxInv
<1>2. PICK a \in Addrs : RecvReady(a)
  <2>1. \E i \in Ready : i = Lowest(Ready)
    <3>a. Ready # {} /\ Ready \subseteq DOMAIN peers
      BY Zenon DEF RecvOne, Ready
    <3>b. DOMAIN peers = 1..Len(peers) /\ Len(peers) \in Nat
      BY <1>1 DEF DemuxTypeOK
    <3>1. Ready # {} /\ Ready \in SUBSET Nat
      BY <3>a, <3>b
    <3>2. PICK i \in Ready : \A j \in Ready : i <= j
      BY <3>1, LeastOf, Zenon
    <3> QED BY <3>2, Zenon DEF Lowest
  <2>2. Lowest(Ready) \in DOMAIN peers
    BY <2>1, Zenon DEF Ready
  <2>3. peers[Lowest(Ready)].addr \in Addrs
    <3>1. \A i \in DOMAIN peers : peers[i] \in [addr : Addrs, fc : KernelFc]
      BY <1>1, ElementOfSeq, LenProperties, Zenon DEF DemuxTypeOK
    <3> QED BY <2>2, <3>1, Zenon
  <2> QED BY <2>3, Zenon DEF RecvOne
<1>3. CASE kernel[a].error
  <2>1. /\ kernel' = [kernel EXCEPT ![a].error = FALSE] /\ received' = received
    BY <1>2, <1>3, Zenon DEF RecvReady
  <2>2. /\ kernel' \in [Addrs -> [queue : Seq(Payload), busy : BOOLEAN,
                                  error : BOOLEAN]]
        /\ \A b \in Addrs : kernel'[b].queue = kernel[b].queue
    BY <1>1, <2>1, Zenon DEF DemuxTypeOK
  <2>3. PerPeerInOrder'
    BY <1>1, <2>1, <2>2, SameOrder, Zenon DEF DemuxInv
  <2> QED BY <1>1, <2>1, <2>2, <2>3, Zenon
          DEF DemuxInv, DemuxTypeOK, InForce, FcOf, ApplyKernelOptions
<1>4. CASE ~kernel[a].error
  <2> DEFINE q == kernel[a].queue
             p == Read(Head(q))
  <2>1. /\ q # <<>>
        /\ kernel' = [kernel EXCEPT ![a].queue = Tail(@)]
        /\ received' = [received EXCEPT ![a] = Append(@, p)]
    BY <1>2, <1>4, Zenon DEF RecvReady
  <2>2. /\ q \in Seq(Payload) /\ received[a] \in Seq(Payload)
        /\ kernel \in [Addrs -> [queue : Seq(Payload), busy : BOOLEAN,
                                 error : BOOLEAN]]
        /\ received \in [Addrs -> Seq(Payload)]
    BY <1>1, Zenon DEF DemuxTypeOK
  <2>3. Head(q) \in Payload /\ Tail(q) \in Seq(Payload)
    BY <2>1, <2>2, HeadTailProperties, Zenon
  <2>4. p \in Payload
    BY <1>1, <2>3, ReadType, Zenon
  <2> HIDE DEF p
  <2>5. received' \in [Addrs -> Seq(Payload)] /\ received'[a] = Append(received[a], p)
        /\ \A b \in Addrs \ {a} : received'[b] = received[b]
    BY <2>1, <2>2, <2>4
  <2>6. /\ kernel' \in [Addrs -> [queue : Seq(Payload), busy : BOOLEAN,
                                  error : BOOLEAN]]
        /\ kernel'[a].queue = Tail(q)
        /\ \A b \in Addrs \ {a} : kernel'[b] = kernel[b]
    BY <2>1, <2>2, <2>3, Zenon
  <2>7. Append(received[a], p) \o ReadAll(Tail(q)) = received[a] \o ReadAll(q)
    <3>1. /\ ReadAll(q) # <<>> /\ Head(ReadAll(q)) = p
          /\ Tail(ReadAll(q)) = ReadAll(Tail(q)) /\ ReadAll(q) \in Seq(Payload)
      BY <1>1, <2>1, <2>2, ReadAllTail, ReadAllElems, Zenon DEF p
    <3> QED BY <2>2, <3>1, MoveHead, Zenon
  <2> HIDE DEF q
  <2>8. \A s : ReadAll(s)' = ReadAll(s)
    BY <1>1, Zenon DEF ReadAll, Read
  <2>9. PerPeerInOrder'
    <3> SUFFICES ASSUME NEW b \in Addrs
                 PROVE  received'[b] \o ReadAll(kernel[b].queue)' = ReadAll(arrived[b])'
      BY Zenon DEF PerPeerInOrder
    <3>1. received[b] \o ReadAll(kernel[b].queue) = ReadAll(arrived[b])
      BY Zenon DEF DemuxInv, PerPeerInOrder
    <3>2. ReadAll(arrived[b])' = ReadAll(arrived[b])
      BY <1>1, Zenon DEF ReadAll, Read
    <3>3. CASE b = a
      <4>1. ReadAll(kernel[b].queue)' = ReadAll(Tail(q))
        BY <1>1, <2>6, <3>3, Zenon DEF ReadAll, Read
      <4> QED BY <2>5, <2>7, <3>1, <3>2, <3>3, <4>1, Zenon DEF q
    <3>4. CASE b # a
      <4>1. ReadAll(kernel[b].queue)' = ReadAll(kernel[b].queue)
        BY <1>1, <2>6, <3>4, Zenon DEF ReadAll, Read
      <4> QED BY <2>5, <3>1, <3>2, <3>4, <4>1, Zenon
    <3> QED BY <3>3, <3>4, Zenon
  <2> QED BY <1>1, <2>5, <2>6, <2>9, Zenon
          DEF DemuxInv, DemuxTypeOK, InForce, FcOf, ApplyKernelOptions
<1> QED BY <1>3, <1>4, Zenon

\* The payloads that have arrived are finitely many, so they can be counted.
LEMMA ArrivalsFinite ==
    ASSUME DemuxTypeOK
    PROVE  Cardinality(Arrivals) \in Nat
<1> DEFINE At(a) == {<<a, i>> : i \in DOMAIN arrived[a]}
           All == {At(a) : a \in Addrs}
<1>1. ASSUME NEW a \in Addrs PROVE IsFiniteSet(At(a))
  <2>1. DOMAIN arrived[a] = 1..Len(arrived[a]) /\ Len(arrived[a]) \in Nat
    BY DEF DemuxTypeOK
  <2>2. IsFiniteSet(DOMAIN arrived[a])
    BY <2>1, FS_Interval
  <2> DEFINE f == [i \in DOMAIN arrived[a] |-> <<a, i>>]
  <2>3. f \in Surjection(DOMAIN arrived[a], At(a))
    BY Zenon DEF Surjection
  <2> HIDE DEF f
  <2> QED BY <2>2, <2>3, FS_Surjection, Zenon
<1>2. IsFiniteSet(All)
  <2> DEFINE g == [a \in Addrs |-> At(a)]
  <2>1. g \in Surjection(Addrs, All)
    BY Zenon DEF Surjection
  <2> HIDE DEF g, All
  <2> QED BY <2>1, FS_Surjection, DemuxAssumption, Zenon
<1>3. IsFiniteSet(UNION All)
  <2>1. \A T \in All : IsFiniteSet(T)
    BY <1>1, Zenon
  <2> HIDE DEF All
  <2> QED BY <1>2, <2>1, FS_UNION, Zenon
<1>4. Arrivals = UNION All
  BY Zenon DEF Arrivals
<1> QED BY <1>3, <1>4, FS_CardinalityType, Zenon

\* A payload that arrives is the last of its queue and of the history.
LEMMA ArriveStep ==
    ASSUME DemuxInv, NEW a \in Addrs, NEW len \in Lengths, KernelReceives(a, len)
    PROVE  DemuxInv'
<1> DEFINE p == [no |-> Cardinality(Arrivals) + 1, len |-> len]
           q == kernel[a].queue
<1>1. /\ UNCHANGED <<options, rx_flow_control, peers, sending, received, stale>>
      /\ kernel' = [kernel EXCEPT ![a].queue = Append(@, p)]
      /\ arrived' = [arrived EXCEPT ![a] = Append(@, p)]
      /\ DemuxTypeOK
  BY Zenon DEF KernelReceives, DemuxInv
<1>2. p \in Payload
  BY <1>1, ArrivalsFinite, DemuxAssumption DEF Payload
<1> HIDE DEF p
<1>3. /\ q \in Seq(Payload) /\ arrived[a] \in Seq(Payload)
      /\ received[a] \in Seq(Payload)
      /\ kernel \in [Addrs -> [queue : Seq(Payload), busy : BOOLEAN,
                               error : BOOLEAN]]
      /\ arrived \in [Addrs -> Seq(Payload)]
  BY <1>1, Zenon DEF DemuxTypeOK
<1>4. /\ arrived' \in [Addrs -> Seq(Payload)]
      /\ arrived'[a] = Append(arrived[a], p)
      /\ \A b \in Addrs \ {a} : arrived'[b] = arrived[b]
  BY <1>1, <1>2, <1>3
<1>5. Append(q, p) \in Seq(Payload)
  BY <1>2, <1>3
<1>6. /\ kernel' \in [Addrs -> [queue : Seq(Payload), busy : BOOLEAN,
                                error : BOOLEAN]]
      /\ kernel'[a].queue = Append(q, p)
      /\ \A b \in Addrs \ {a} : kernel'[b] = kernel[b]
  BY <1>1, <1>3, <1>5, Zenon
<1>7. received[a] \o ReadAll(Append(q, p))
        = Append(received[a] \o ReadAll(q), Read(p))
  <2>1. ReadAll(Append(q, p)) = Append(ReadAll(q), Read(p))
    BY <1>1, <1>2, <1>3, ReadAllAppend, Zenon
  <2>2. ReadAll(q) \in Seq(Payload) /\ Read(p) \in Payload
    BY <1>1, <1>2, <1>3, ReadAllElems, ReadType, Zenon
  <2>3. received[a] \in Seq(Payload)
    BY <1>3, Zenon
  <2>4. received[a] \o Append(ReadAll(q), Read(p))
          = Append(received[a] \o ReadAll(q), Read(p))
    BY <2>2, <2>3, MoveHead, Zenon
  <2> QED BY <2>1, <2>4, Zenon
<1>8. ReadAll(Append(arrived[a], p)) = Append(ReadAll(arrived[a]), Read(p))
  BY <1>1, <1>2, <1>3, ReadAllAppend, Zenon
<1> HIDE DEF q
<1>9. PerPeerInOrder'
  <2> SUFFICES ASSUME NEW b \in Addrs
               PROVE  received'[b] \o ReadAll(kernel[b].queue)' = ReadAll(arrived[b])'
    BY Zenon DEF PerPeerInOrder
  <2>1. received[b] \o ReadAll(kernel[b].queue) = ReadAll(arrived[b])
    BY Zenon DEF DemuxInv, PerPeerInOrder
  <2>2. CASE b = a
    <3>1. /\ ReadAll(kernel[b].queue)' = ReadAll(Append(q, p))
          /\ ReadAll(arrived[b])' = ReadAll(Append(arrived[a], p))
      BY <1>1, <1>4, <1>6, <2>2, Zenon DEF ReadAll, Read
    <3> QED BY <1>1, <1>7, <1>8, <2>1, <2>2, <3>1, Zenon DEF q
  <2>3. CASE b # a
    <3>1. /\ ReadAll(kernel[b].queue)' = ReadAll(kernel[b].queue)
          /\ ReadAll(arrived[b])' = ReadAll(arrived[b])
      BY <1>1, <1>4, <1>6, <2>3, Zenon DEF ReadAll, Read
    <3> QED BY <1>1, <2>1, <3>1, Zenon
  <2> QED BY <2>2, <2>3, Zenon
<1> QED BY <1>1, <1>4, <1>6, <1>9, Zenon
        DEF DemuxInv, DemuxTypeOK, InForce, FcOf, ApplyKernelOptions

\* At the start nothing has arrived and no socket is open.
LEMMA DemuxInit == Init => DemuxInv
<1> SUFFICES ASSUME Init PROVE DemuxInv
  BY Zenon
<1>1. options \in OptionSets /\ rx_flow_control = RequestedBy(options)
  BY Zenon DEF Init
<1>2. /\ options.max_rx_payload \in Nat
      /\ options.flow_control \in Seq(KernelFc) /\ Len(options.flow_control) <= 1
  BY <1>1, DemuxAssumption, Zenon
<1>3. RequestedBy(options) \in RequestedFc
  <2>1. CASE options.flow_control = <<>>
    BY <2>1 DEF RequestedBy, RequestedFc
  <2>2. CASE options.flow_control # <<>>
    <3> DEFINE fc == options.flow_control[1]
    <3>1. fc \in KernelFc
      BY <1>2, <2>2
    <3>2. fc.bs \in 0..255 /\ fc.stmin \in 0..255
      BY <3>1, Zenon DEF KernelFc
    <3>3. RequestedBy(options) = [block_size |-> fc.bs,
                                  st_min |-> StMinToDuration(fc.stmin)]
      BY <2>2, Zenon DEF RequestedBy
    <3> HIDE DEF fc
    <3>4. StMinToDuration(fc.stmin) \in Nat
      BY <3>2 DEF StMinToDuration
    <3> QED BY <3>2, <3>3, <3>4 DEF RequestedFc
  <2> QED BY <2>1, <2>2, Zenon
<1>4. DemuxTypeOK
  BY <1>1, <1>2, <1>3 DEF DemuxTypeOK, Init, Fresh
<1>5. InForce
  BY DEF InForce, Init
<1>6. ReadAll(<<>>) = <<>>
  BY DEF ReadAll
<1>7. PerPeerInOrder
  BY <1>6 DEF PerPeerInOrder, Init, Fresh
<1> QED BY <1>4, <1>5, <1>7, Zenon DEF DemuxInv

\* Every step of the demultiplexer and of the kernel keeps it.
LEMMA DemuxStep == DemuxInv /\ [Next]_vars => DemuxInv'
<1> SUFFICES ASSUME DemuxInv, [Next]_vars PROVE DemuxInv'
  BY Zenon
<1>1. CASE \E a \in Addrs : RegisterPeer(a) \/ SendTo(a)
  BY <1>1, OpensStep, Zenon
<1>2. CASE SendEnds \/ \E a \in Addrs : KernelSends(a)
  BY <1>2, BusyStep, Zenon
<1>3. CASE \E a \in Addrs, len \in Lengths : KernelReceives(a, len)
  BY <1>3, ArriveStep, Zenon
<1>4. CASE \E fc \in FlowControls : SetRxFlowControl(fc)
  BY <1>4, SetStep, Zenon
<1>5. CASE RecvOne
  BY <1>5, RecvStep, Zenon
<1>6. CASE UNCHANGED vars
  <2>1. DemuxTypeOK'
    BY <1>6, Zenon DEF vars, DemuxInv, DemuxTypeOK
  <2>2. InForce'
    BY <1>6, Zenon DEF vars, DemuxInv, InForce, FcOf, ApplyKernelOptions
  <2>3. PerPeerInOrder'
    BY <1>6, Zenon DEF vars, DemuxInv, PerPeerInOrder, ReadAll, Read
  <2> QED BY <2>1, <2>2, <2>3, Zenon DEF DemuxInv
<1> QED BY <1>1, <1>2, <1>3, <1>4, <1>5, <1>6, Zenon DEF Next

\* recv_one hands over every payload once, in order and under the address of
\* its peer, whatever the sockets fail at.
THEOREM PayloadsInOrder == Spec => []PerPeerInOrder
<1>1. DemuxInv => PerPeerInOrder
  BY Zenon DEF DemuxInv
<1> QED BY <1>1, DemuxInit, DemuxStep, PTL DEF Spec

\* The encoding in force is the flow control asked for, but for the rounding
\* of the separation time.
LEMMA InForceIsUniform == DemuxInv => UniformFlowControl
<1> SUFFICES ASSUME DemuxInv, NEW i \in DOMAIN peers, peers[i].addr \notin stale
             PROVE  LET fc == peers[i].fc
                        time == rx_flow_control.st_min
                        got == StMinToDuration(fc.stmin)
                    IN  /\ fc.bs = rx_flow_control.block_size
                        /\ fc.wftmax = ApplyKernelOptions(options).wftmax
                        /\ got <= time
                        /\ IF time < 128000 THEN time - got < 1000
                                            ELSE got = 127000
  BY DEF UniformFlowControl
<1>1. peers[i].fc = FcOf(rx_flow_control)
  BY Zenon DEF DemuxInv, InForce
<1>2. rx_flow_control.st_min \in Nat
  BY Zenon DEF DemuxInv, DemuxTypeOK, RequestedFc
<1>3. /\ peers[i].fc.bs = rx_flow_control.block_size
      /\ peers[i].fc.wftmax = ApplyKernelOptions(options).wftmax
      /\ peers[i].fc.stmin = DurationToStMin(rx_flow_control.st_min)
  BY <1>1 DEF FcOf
<1> QED BY <1>2, <1>3, EncodedStMin

\* Every socket has the flow control asked for last, the ones that are opened
\* later included, but for those that a failure kept from it.
THEOREM FlowControlIsUniform == Spec => []UniformFlowControl
  BY DemuxInit, DemuxStep, InForceIsUniform, PTL DEF Spec

\* A flow control given in the options reaches the sockets as given.
THEOREM OptionsReachSockets == Spec => ConfiguredReachesSockets
<1>1. DemuxInv /\ [Next]_vars =>
        \A i \in DOMAIN peers' :
           Len(peers') > Len(peers) /\ i = Len(peers')
             /\ rx_flow_control = RequestedBy(options)
             /\ options.flow_control # <<>>
             /\ options.flow_control[1].stmin \in (0..127) \cup (241..249)
           => peers'[i].fc = options.flow_control[1]
  <2> SUFFICES ASSUME DemuxInv, [Next]_vars, Len(peers') > Len(peers),
                      rx_flow_control = RequestedBy(options),
                      options.flow_control # <<>>,
                      options.flow_control[1].stmin \in (0..127) \cup (241..249)
               PROVE  peers'[Len(peers')].fc = options.flow_control[1]
    BY Zenon
  <2> DEFINE fc == options.flow_control[1]
  <2>1. fc \in KernelFc /\ Len(peers) \in Nat
    BY DEF DemuxInv, DemuxTypeOK
  <2>2. ApplyKernelOptions(options) = fc
    BY Zenon DEF ApplyKernelOptions
  <2>3. FcOf(RequestedBy(options)) = fc
    <3>1. RequestedBy(options) = [block_size |-> fc.bs,
                                  st_min |-> StMinToDuration(fc.stmin)]
      BY Zenon DEF RequestedBy
    <3>2. DurationToStMin(StMinToDuration(fc.stmin)) = fc.stmin
      <4>1. fc.stmin \in Unreserved
        BY Zenon DEF Unreserved
      <4> QED BY <4>1, DecodedStMin, Zenon
    <3> HIDE DEF fc
    <3>3. FcOf(RequestedBy(options)) = [bs |-> fc.bs, stmin |-> fc.stmin,
                                        wftmax |-> fc.wftmax]
      BY <2>2, <3>1, <3>2 DEF FcOf
    <3> QED BY <2>1, <3>3, Zenon DEF KernelFc
  <2>4. PICK a \in Addrs : OpenPeer(a)
    <3>1. CASE \E a \in Addrs : RegisterPeer(a) \/ SendTo(a)
      BY <2>1, <3>1 DEF RegisterPeer, SendTo
    <3>2. CASE \E c \in FlowControls : SetRxFlowControl(c)
      <4>1. DOMAIN peers' = DOMAIN peers
        BY <3>2, Zenon DEF SetRxFlowControl
      <4>2. peers' \in Seq([addr : Addrs, fc : KernelFc])
        BY DemuxStep, Zenon DEF DemuxInv, DemuxTypeOK
      <4>3. 1..Len(peers') = 1..Len(peers) /\ Len(peers') \in Nat
        BY <4>1, <4>2 DEF DemuxInv, DemuxTypeOK
      <4>4. Len(peers') \in 1..Len(peers')
        BY <2>1, <4>3
      <4> QED BY <2>1, <4>3, <4>4
    <3>3. CASE UNCHANGED peers
      BY <2>1, <3>3
    <3> QED BY <3>1, <3>2, <3>3, Zenon
            DEF Next, SendEnds, RecvOne, KernelReceives, KernelSends, vars
  <2>5. peers' = Append(peers, [addr |-> a, fc |-> fc])
    BY <2>2, <2>3, <2>4, Zenon DEF OpenPeer
  <2> DEFINE p == [addr |-> a, fc |-> fc]
  <2>6. p \in [addr : Addrs, fc : KernelFc] /\ p.fc = fc
    BY <2>1, Zenon
  <2>7. peers' = Append(peers, p) /\ peers \in Seq([addr : Addrs, fc : KernelFc])
    BY <2>5, Zenon DEF DemuxInv, DemuxTypeOK
  <2> HIDE DEF p, fc
  <2>8. peers'[Len(peers')] = p
    BY <2>6, <2>7, AppendProperties
  <2> QED BY <2>6, <2>8, Zenon DEF fc
<1> QED BY <1>1, DemuxInit, DemuxStep, PTL DEF Spec, ConfiguredReachesSockets
===============================================================================
