------------------------------ MODULE IsoTpSocket -----------------------------
(***************************************************************************)
(* One kernel ISO-TP socket and the task that sends and receives on it:    *)
(* SocketCanIsoTp, which polls the descriptor, or TokioSocketCanIsoTp,     *)
(* which waits for the readiness that an AsyncFd remembers.                *)
(*                                                                         *)
(* The kernel reports to the runtime's driver when a payload arrives or a  *)
(* transmission ends (edge), and only then; the driver adds what is        *)
(* possible at that time to the remembered readiness.  A guard that        *)
(* readable or writable returned clears it only if the driver has not      *)
(* reported since.  Kernel, driver and AsyncFd are external.               *)
(***************************************************************************)
EXTENDS Integers

CONSTANTS
    MaxArrivals,    \* bound on payloads that arrive
    MaxSends        \* bound on calls of send_to

VARIABLES
    api,            \* how the program receives: "sync", "recv_one" or
                    \* "recv_one_into"
    queued,         \* payloads in the socket
    busy,           \* the kernel transmits
    edge,           \* the kernel has something to report
    ready,          \* what AsyncFd remembers: a subset of "read" and "write"
    reported,       \* the driver has reported since the guard was returned
    pc,             \* where the call is
    arrivals, calls

socketVars == <<api, queued, busy, edge, ready, reported, pc, arrivals, calls>>

ASSUME IsoTpSocketAssumption == MaxArrivals \in Nat /\ MaxSends \in Nat

\* open: the registration with the driver reports what is possible.
SocketInit ==
    /\ api \in {"sync", "recv_one", "recv_one_into"}
    /\ queued = 0
    /\ busy = FALSE
    /\ edge = TRUE
    /\ ready = {}
    /\ reported = FALSE
    /\ pc = "idle"
    /\ arrivals = 0
    /\ calls = 0

\* What the descriptor can do without blocking.
Possible == (IF queued > 0 THEN {"read"} ELSE {}) \cup
            (IF busy THEN {} ELSE {"write"})

Goto(next) == pc' = next

-----------------------------------------------------------------------------
(* Sending: the first attempt comes before any wait *)

\* send_to begins
StartSend ==
    /\ pc = "idle" /\ calls < MaxSends
    /\ calls' = calls + 1
    /\ Goto("trySend")
    /\ UNCHANGED <<api, queued, busy, edge, ready, reported, arrivals>>

\* libc::send: taken, or WouldBlock, or another error
TrySend ==
    /\ pc = "trySend"
    /\ \/ ~busy /\ busy' = TRUE /\ Goto("idle")
       \/ busy /\ Goto("waitSend") /\ UNCHANGED busy
       \/ Goto("idle") /\ UNCHANGED busy
    /\ UNCHANGED <<api, queued, edge, ready, reported, arrivals, calls>>

-----------------------------------------------------------------------------
(* Receiving *)

\* Mutant: recv_one waits before its first attempt.
StartRecvWaiting ==
    /\ pc = "idle"
    /\ Goto("waitRecv")
    /\ UNCHANGED <<api, queued, busy, edge, ready, reported, arrivals, calls>>

\* recv_one begins with an attempt, recv_one_into with readable
StartRecv ==
    /\ pc = "idle"
    /\ Goto(IF api = "recv_one_into" THEN "waitRecv" ELSE "tryRecv")
    /\ UNCHANGED <<api, queued, busy, edge, ready, reported, arrivals, calls>>

\* libc::recv.  A payload is taken, also one that recv_one_into then reports
\* as too long for its buffer; or there is an error; or it would block.
TryRecv ==
    /\ pc = "tryRecv"
    /\ \/ queued > 0 /\ queued' = queued - 1 /\ Goto("idle")
       \/ /\ queued = 0
          /\ Goto(IF api = "recv_one_into" THEN "clearRecv" ELSE "waitRecv")
          /\ UNCHANGED queued
       \/ Goto("idle") /\ UNCHANGED queued
    /\ UNCHANGED <<api, busy, edge, ready, reported, arrivals, calls>>

-----------------------------------------------------------------------------
(* Waiting *)

\* poll_fd looks at the descriptor itself
PollFd ==
    /\ api = "sync"
    /\ \/ pc = "waitSend" /\ "write" \in Possible /\ Goto("trySend")
       \/ pc = "waitRecv" /\ "read" \in Possible /\ Goto("tryRecv")
    /\ UNCHANGED <<api, queued, busy, edge, ready, reported, arrivals, calls>>

\* writable and readable return a guard
AwaitReady ==
    /\ api # "sync"
    /\ \/ pc = "waitSend" /\ "write" \in ready /\ Goto("clearSend")
       \/ /\ pc = "waitRecv" /\ "read" \in ready
          /\ Goto(IF api = "recv_one_into" THEN "tryRecv" ELSE "clearRecv")
    /\ reported' = FALSE
    /\ UNCHANGED <<api, queued, busy, edge, ready, arrivals, calls>>

Clear(what) == ready' = IF reported THEN ready ELSE ready \ {what}

\* guard.clear_ready, and try_io when its attempt would block
ClearReady ==
    /\ \/ pc = "clearSend" /\ Clear("write") /\ Goto("trySend")
       \/ /\ pc = "clearRecv" /\ Clear("read")
          /\ Goto(IF api = "recv_one_into" THEN "waitRecv" ELSE "tryRecv")
    /\ UNCHANGED <<api, queued, busy, edge, reported, arrivals, calls>>

\* The timeout around the loop, or the deadline of poll_fd.  Between a system
\* call that succeeds and the return nothing is awaited.
TimeOut ==
    /\ pc \in {"waitSend", "waitRecv"}
    /\ Goto("idle")
    /\ UNCHANGED <<api, queued, busy, edge, ready, reported, arrivals, calls>>

-----------------------------------------------------------------------------
(* The kernel and the driver *)

PayloadArrives ==
    /\ arrivals < MaxArrivals
    /\ arrivals' = arrivals + 1
    /\ queued' = queued + 1
    /\ edge' = TRUE
    /\ UNCHANGED <<api, busy, ready, reported, pc, calls>>

TransmissionEnds ==
    /\ busy
    /\ busy' = FALSE
    /\ edge' = TRUE
    /\ UNCHANGED <<api, queued, ready, reported, pc, arrivals, calls>>

Driver ==
    /\ edge
    /\ edge' = FALSE
    /\ ready' = ready \cup Possible
    /\ reported' = (reported \/ Possible # {})
    /\ UNCHANGED <<api, queued, busy, pc, arrivals, calls>>

SocketNext ==
    \/ StartSend \/ TrySend \/ StartRecv \/ TryRecv
    \/ PollFd \/ AwaitReady \/ ClearReady \/ TimeOut
    \/ PayloadArrives \/ TransmissionEnds \/ Driver

-----------------------------------------------------------------------------

\* A call never waits for what is there already: a payload in the socket, or
\* room to send, is known to the poll, remembered by AsyncFd or about to be
\* reported.  It holds for a program that receives with one of the functions;
\* recv_one takes the readiness away that recv_one_into waits for.
NeverWaitsInVain ==
    api # "sync" =>
        /\ pc = "waitRecv" /\ queued > 0 => "read" \in ready \/ edge
        /\ pc = "waitSend" /\ ~busy => "write" \in ready \/ edge
===============================================================================
