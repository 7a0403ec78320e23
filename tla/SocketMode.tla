------------------------------ MODULE SocketMode ------------------------------
(***************************************************************************)
(* The mode of a raw SocketCAN socket: what the calls of the adapter do to *)
(* O_NONBLOCK and to the write timeout of the socket, and to the copy of   *)
(* O_NONBLOCK the adapter keeps.  Each system call may fail.  Sending,     *)
(* receiving and waiting without a try or a timeout changes none of these  *)
(* and is left out.                                                        *)
(***************************************************************************)
VARIABLES
    o_nonblock,     \* the socket does not block
    nonblocking,    \* SocketCan::nonblocking
    snd_timeout,    \* "own": the program's write timeout, or "call": of a call
    running,        \* the call in progress: idle, try, toggled or timed
    wanted,         \* history: the program wants a socket that does not block
    spoiled         \* history: settings a failed system call did not restore

modeVars == <<o_nonblock, nonblocking, snd_timeout, running, wanted, spoiled>>

\* new, where a failed look at the socket counts as blocking; open makes a
\* socket that blocks
ModeInit ==
    /\ o_nonblock \in BOOLEAN
    /\ nonblocking \in {FALSE, o_nonblock}
    /\ snd_timeout = "own"
    /\ running = "idle"
    /\ wanted = o_nonblock
    /\ spoiled = {}

-----------------------------------------------------------------------------
(* try_send and try_recv *)

\* Mutant: the copy says nonblocking as soon as the socket was switched.
WithNonblockingCached ==
    /\ running = "idle"
    /\ \/ nonblocking /\ running' = "try" /\ UNCHANGED <<o_nonblock, nonblocking>>
       \/ /\ ~nonblocking /\ ~o_nonblock
          /\ o_nonblock' = TRUE
          /\ nonblocking' = TRUE
          /\ running' = "toggled"
    /\ UNCHANGED <<snd_timeout, wanted, spoiled>>

\* with_nonblocking up to f(socket).  A system call that fails ends it with
\* nothing changed.
WithNonblocking ==
    /\ running = "idle"
    /\ \/ /\ nonblocking
          /\ running' = "try"
          /\ UNCHANGED <<o_nonblock, nonblocking>>
       \/ /\ ~nonblocking /\ o_nonblock
          /\ nonblocking' = TRUE
          /\ running' = "try"
          /\ UNCHANGED o_nonblock
       \/ /\ ~nonblocking /\ ~o_nonblock
          /\ o_nonblock' = TRUE
          /\ running' = "toggled"
          /\ UNCHANGED nonblocking
    /\ UNCHANGED <<snd_timeout, wanted, spoiled>>

\* The rest of with_nonblocking.  When the socket cannot be switched back the
\* result is the error, and a frame that was read is lost.
NonblockingEnds ==
    /\ \/ running = "try" /\ UNCHANGED <<o_nonblock, spoiled>>
       \/ running = "toggled" /\ o_nonblock' = FALSE /\ UNCHANGED spoiled
       \/ /\ running = "toggled"
          /\ spoiled' = spoiled \cup {"mode"}
          /\ UNCHANGED o_nonblock
    /\ running' = "idle"
    /\ UNCHANGED <<nonblocking, snd_timeout, wanted>>

-----------------------------------------------------------------------------
(* send_timeout *)

\* with_write_timeout up to f(socket)
WithWriteTimeout ==
    /\ running = "idle"
    /\ snd_timeout' = "call"
    /\ running' = IF snd_timeout = "own" THEN "timed" ELSE "timedAgain"
    /\ UNCHANGED <<o_nonblock, nonblocking, wanted, spoiled>>

\* The rest of with_write_timeout, also after a send that failed
WriteTimeoutEnds ==
    /\ \/ running = "timed" /\ snd_timeout' = "own" /\ UNCHANGED spoiled
       \/ running = "timedAgain" /\ UNCHANGED <<snd_timeout, spoiled>>
       \/ /\ running \in {"timed", "timedAgain"}
          /\ spoiled' = spoiled \cup {"timeout"}
          /\ UNCHANGED snd_timeout
    /\ running' = "idle"
    /\ UNCHANGED <<o_nonblock, nonblocking, wanted>>

-----------------------------------------------------------------------------
(* Settings the program changes *)

\* BlockingControl::set_nonblocking, when its system call does not fail
SetNonblocking(on) ==
    /\ running = "idle"
    /\ o_nonblock' = on
    /\ nonblocking' = on
    /\ wanted' = on
    /\ spoiled' = spoiled \ {"mode"}
    /\ UNCHANGED <<snd_timeout, running>>

\* The program changes the socket through as_inner_mut.  It does not make a
\* socket block that the adapter has seen not to.
SetInnerNonblocking(on) ==
    /\ running = "idle"
    /\ nonblocking => on
    /\ o_nonblock' = on
    /\ wanted' = on
    /\ spoiled' = spoiled \ {"mode"}
    /\ UNCHANGED <<nonblocking, snd_timeout, running>>

ModeNext ==
    \/ WithNonblocking \/ NonblockingEnds
    \/ WithWriteTimeout \/ WriteTimeoutEnds
    \/ \E on \in BOOLEAN : SetNonblocking(on) \/ SetInnerNonblocking(on)

ModeSpec == ModeInit /\ [][ModeNext]_modeVars

-----------------------------------------------------------------------------

\* try_send and try_recv meet a socket that does not block, although the copy
\* of its mode is only refreshed now and then; and between calls the socket
\* has the mode and the write timeout of the program, unless a system call
\* that was to restore them failed.
ModeIsAsAsked ==
    /\ running \in {"try", "toggled"} => o_nonblock
    /\ running = "idle" =>
          /\ "mode" \notin spoiled => o_nonblock = wanted
          /\ "timeout" \notin spoiled => snd_timeout = "own"
===============================================================================
