---------------------------- MODULE KernelUdsDemux ----------------------------
(***************************************************************************)
(* The demultiplexer over kernel ISO-TP sockets: one socket per peer       *)
(* address, opened on first use, and the SocketCanIsoTp operations it is   *)
(* made of.  Its methods take &mut self, so a call runs alone; the kernel  *)
(* side of the sockets moves between and, while a send polls, in a call.   *)
(*                                                                         *)
(* Durations are in microseconds.  The kernel (queues, transmit state and  *)
(* pending error of a socket) is modelled from how the code uses it.       *)
(***************************************************************************)
EXTENDS Integers, Sequences, FiniteSets

CONSTANTS
    Addrs,          \* addresses peers are registered under
    local_addr,
    OptionSets,     \* [max_rx_payload, flow_control: <<>> or <<[bs, stmin, wftmax]>>]
    FlowControls,   \* arguments of set_rx_flow_control: [block_size, st_min]
    Lengths,        \* lengths of the payloads peers send
    MayFail,        \* whether system calls and sockets fail
    MaxPayloads     \* bound on the payloads that arrive

VARIABLES
    options,
    rx_flow_control,
    peers,          \* Vec<PeerSocket>: [addr, fc], fc as the kernel has it
    kernel,         \* per address: [queue, busy, error]
    sending,        \* the address a send_to polls for, as a set of at most one
    arrived,        \* history: payloads that reached the socket of an address
    received,       \* history: payloads handed to on_payload under a reply_to
    stale           \* history: addresses whose socket was not given the flow
                    \* control asked for last, as a system call failed

vars == <<options, rx_flow_control, peers, kernel, sending, arrived, received, stale>>

\* The flow control of a socket, three bytes, and as the program asks for it.
KernelFc == [bs : 0..255, stmin : 0..255, wftmax : 0..255]
RequestedFc == [block_size : 0..255, st_min : Nat]

ASSUME DemuxAssumption ==
    /\ MaxPayloads \in Nat
    /\ MayFail \in BOOLEAN
    /\ Lengths \subseteq Nat \ {0}
    /\ IsFiniteSet(Addrs)
    /\ \A o \in OptionSets :
          /\ o.max_rx_payload \in Nat
          /\ o.flow_control \in Seq(KernelFc) /\ Len(o.flow_control) <= 1
    /\ FlowControls \subseteq RequestedFc

-----------------------------------------------------------------------------
(* STmin *)

\* isotp_stmin_to_duration(raw).unwrap_or(0)
StMinToDuration(raw) ==
    CASE raw \in 0..127 -> raw * 1000
      [] raw \in 241..249 -> (raw - 240) * 100
      [] OTHER -> 0

\* Mutant: the steps of 100 microseconds are left out.
DurationToWholeMillis(micros) ==
    IF micros \div 1000 <= 127 THEN micros \div 1000 ELSE 127

Fine(micros) == micros \in 100..900 /\ micros % 100 = 0

\* duration_to_isotp_stmin
DurationToStMin(micros) ==
    IF Fine(micros) THEN 240 + micros \div 100
    ELSE IF micros \div 1000 <= 127 THEN micros \div 1000 ELSE 127

\* KernelUdsDemux::new
RequestedBy(o) ==
    IF o.flow_control = <<>> THEN [block_size |-> 0, st_min |-> 0]
    ELSE [block_size |-> o.flow_control[1].bs,
          st_min |-> StMinToDuration(o.flow_control[1].stmin)]

-----------------------------------------------------------------------------
(* SocketCanIsoTp *)

NoFc == [bs |-> 0, stmin |-> 0, wftmax |-> 0]

\* apply_kernel_options, when no setsockopt fails: the flow control that the
\* kernel has then.  The options and link options set beside it are left out.
ApplyKernelOptions(o) == IF o.flow_control = <<>> THEN NoFc ELSE o.flow_control[1]

\* set_rx_flow_control, when setsockopt does not fail.  wft_max is the one
\* the socket was opened with.
FcOf(fc) ==
    [bs |-> fc.block_size, stmin |-> DurationToStMin(fc.st_min),
     wftmax |-> ApplyKernelOptions(options).wftmax]

\* open
CanOpen == options.max_rx_payload > 0

\* recv into rx_buf: a longer payload is cut off
Read(payload) ==
    [payload EXCEPT !.len = IF @ <= options.max_rx_payload THEN @
                            ELSE options.max_rx_payload]

Fresh == [queue |-> <<>>, busy |-> FALSE, error |-> FALSE]

-----------------------------------------------------------------------------
Registered == {peers[i].addr : i \in DOMAIN peers}

Init ==
    /\ options \in OptionSets
    /\ rx_flow_control = RequestedBy(options)
    /\ peers = <<>>
    /\ kernel = [a \in Addrs |-> Fresh]
    /\ sending = {}
    /\ arrived = [a \in Addrs |-> <<>>]
    /\ received = [a \in Addrs |-> <<>>]
    /\ stale = {}

\* Mutant: the peer's socket keeps the flow control it was opened with.
OpenPeerOnly(a) ==
    /\ a # local_addr /\ a \notin Registered
    /\ CanOpen
    /\ peers' = Append(peers, [addr |-> a, fc |-> ApplyKernelOptions(options)])
    /\ UNCHANGED stale

\* ensure_peer for an address without a socket.  A failure to set the flow
\* control of the new socket is not reported.
OpenPeer(a) ==
    /\ a # local_addr /\ a \notin Registered
    /\ CanOpen
    /\ \/ /\ peers' = Append(peers, [addr |-> a, fc |-> FcOf(rx_flow_control)])
          /\ UNCHANGED stale
       \/ /\ MayFail
          /\ peers' = Append(peers, [addr |-> a, fc |-> ApplyKernelOptions(options)])
          /\ stale' = stale \cup {a}

\* register_peer.  When it returns an error nothing has changed.
RegisterPeer(a) ==
    /\ sending = {}
    /\ OpenPeer(a)
    /\ UNCHANGED <<options, rx_flow_control, kernel, sending, arrived, received>>

\* send_to, up to its first look at the socket
SendTo(a) ==
    /\ sending = {}
    /\ \/ OpenPeer(a)
       \/ a \in Registered /\ UNCHANGED <<peers, stale>>
    /\ sending' = {a}
    /\ UNCHANGED <<options, rx_flow_control, kernel, arrived, received>>

\* SocketCanIsoTp::send_to: the kernel takes the payload, or the deadline
\* passes while it has one, or the call fails
SendEnds ==
    /\ \E a \in sending :
          \/ /\ ~kernel[a].busy
             /\ kernel' = [kernel EXCEPT ![a].busy = TRUE]
          \/ kernel[a].busy /\ UNCHANGED kernel
          \/ MayFail /\ UNCHANGED kernel
    /\ sending' = {}
    /\ UNCHANGED <<options, rx_flow_control, peers, arrived, received, stale>>

\* set_rx_flow_control: the sockets in turn, up to one that fails
SetRxFlowControl(fc) ==
    /\ sending = {}
    /\ rx_flow_control' = fc
    /\ \E done \in IF MayFail THEN 0..Len(peers) ELSE {Len(peers)} :
          /\ peers' = [i \in DOMAIN peers |->
                          IF i <= done THEN [peers[i] EXCEPT !.fc = FcOf(fc)]
                                       ELSE peers[i]]
          /\ stale' = {peers[i].addr : i \in (done + 1)..Len(peers)}
    /\ UNCHANGED <<options, kernel, sending, arrived, received>>

-----------------------------------------------------------------------------
(* Receiving *)

\* The sockets poll_fds reports
Ready ==
    {i \in DOMAIN peers : LET k == kernel[peers[i].addr]
                          IN  k.queue # <<>> \/ k.error}

Lowest(s) == CHOOSE i \in s : \A j \in s : i <= j

\* Mutant: a payload is read before the pending error is returned.
RecvReadyLosing(a) ==
    /\ kernel[a].queue # <<>>
    /\ kernel' = [kernel EXCEPT ![a].queue = Tail(@), ![a].error = FALSE]
    /\ received' = IF kernel[a].error THEN received
                   ELSE [received EXCEPT ![a] = Append(@, Read(Head(kernel[a].queue)))]

\* recv_one_ready.  The kernel returns a pending error before a payload.
RecvReady(a) ==
    /\ kernel[a].queue # <<>>
    /\ \/ /\ kernel[a].error
          /\ kernel' = [kernel EXCEPT ![a].error = FALSE]
          /\ UNCHANGED received
       \/ /\ ~kernel[a].error
          /\ kernel' = [kernel EXCEPT ![a].queue = Tail(@)]
          /\ received' = [received EXCEPT ![a] =
                             Append(@, Read(Head(kernel[a].queue)))]

\* recv_one: the first socket in order of registration.  When it has an error
\* and no payload the call returns with the error still pending, and without
\* a ready socket it times out; neither changes anything.
RecvOne ==
    /\ sending = {}
    /\ Ready # {}
    /\ RecvReady(peers[Lowest(Ready)].addr)
    /\ UNCHANGED <<options, rx_flow_control, peers, sending, arrived, stale>>

-----------------------------------------------------------------------------
(* The kernel *)

Arrivals == UNION {{<<a, i>> : i \in DOMAIN arrived[a]} : a \in Addrs}

\* A payload from a peer is complete.
KernelReceives(a, len) ==
    /\ a \in Registered
    /\ Cardinality(Arrivals) < MaxPayloads
    /\ LET payload == [no |-> Cardinality(Arrivals) + 1, len |-> len]
       IN  /\ kernel' = [kernel EXCEPT ![a].queue = Append(@, payload)]
           /\ arrived' = [arrived EXCEPT ![a] = Append(@, payload)]
    /\ UNCHANGED <<options, rx_flow_control, peers, sending, received, stale>>

\* A transmission ends, or a socket gets an error to report.
KernelSends(a) ==
    /\ \/ kernel[a].busy /\ kernel' = [kernel EXCEPT ![a].busy = FALSE]
       \/ /\ MayFail /\ a \in Registered /\ ~kernel[a].error
          /\ kernel' = [kernel EXCEPT ![a].busy = FALSE, ![a].error = TRUE]
    /\ UNCHANGED <<options, rx_flow_control, peers, sending, arrived, received, stale>>

Next ==
    \/ \E a \in Addrs : RegisterPeer(a) \/ SendTo(a) \/ KernelSends(a)
    \/ \E a \in Addrs, len \in Lengths : KernelReceives(a, len)
    \/ \E fc \in FlowControls : SetRxFlowControl(fc)
    \/ SendEnds
    \/ RecvOne

Spec == Init /\ [][Next]_vars

-----------------------------------------------------------------------------
(* Properties *)

ReadAll(payloads) == [i \in DOMAIN payloads |-> Read(payloads[i])]

\* recv_one hands over every payload once, in order, under the address of the
\* peer whose socket it arrived at, and an error it returns loses none.
PerPeerInOrder ==
    \A a \in Addrs :
        received[a] \o ReadAll(kernel[a].queue) = ReadAll(arrived[a])

\* Every socket has the flow control asked for last, those opened since
\* included: all of them after a set_rx_flow_control that returned Ok, the ones
\* before the failure and the ones opened later after one that did not.  Only a
\* socket at or behind the failure, or one for which ensure_peer ignored a
\* failure, may have another.  The separation time in force is the one asked
\* for, up to 127 ms, rounded down by less than a millisecond.
UniformFlowControl ==
    \A i \in DOMAIN peers : peers[i].addr \notin stale =>
        LET fc == peers[i].fc
            time == rx_flow_control.st_min
            got == StMinToDuration(fc.stmin)
        IN  /\ fc.bs = rx_flow_control.block_size
            /\ fc.wftmax = ApplyKernelOptions(options).wftmax
            /\ got <= time
            /\ IF time < 128000 THEN time - got < 1000 ELSE got = 127000

\* A flow control given in the options, with an STmin that is not reserved,
\* reaches the sockets as given although it is decoded and encoded again.
ConfiguredReachesSockets ==
    [][\A i \in DOMAIN peers' :
           Len(peers') > Len(peers) /\ i = Len(peers')
             /\ rx_flow_control = RequestedBy(options)
             /\ options.flow_control # <<>>
             /\ options.flow_control[1].stmin \in (0..127) \cup (241..249)
           => peers'[i].fc = options.flow_control[1]]_vars
===============================================================================
