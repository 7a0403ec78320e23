---------------------------- MODULE MCLinuxSockets ----------------------------
(***************************************************************************)
(* The three ways to a CAN bus on Linux, which share no state: the         *)
(* demultiplexer, one ISO-TP socket, and a raw socket.  A program opens    *)
(* one of them, so their state spaces add up instead of multiplying.       *)
(*                                                                         *)
(* Constants: options with and without a flow control, STmin bytes of each *)
(* range and a reserved one, durations at the boundaries of its encoding;  *)
(* identifiers of one and two bits under masks of up to two and three.     *)
(***************************************************************************)
EXTENDS KernelUdsDemux, IsoTpSocket, SocketCan

VARIABLE opened

Options(max, fc) == [max_rx_payload |-> max, flow_control |-> fc]
Configured(stmin) == <<[bs |-> 8, stmin |-> stmin, wftmax |-> 3]>>
Asked(bs, micros) == [block_size |-> bs, st_min |-> micros]

OptionsAtBoundaries ==
    {Options(2, <<>>)} \cup {Options(2, Configured(raw)) : raw \in {127, 200, 249}}
FlowControlsAtBoundaries == {Asked(0, 0), Asked(4, 950), Asked(4, 128000)}

IdMaskFilter(kind, raw, maskKind, mask) ==
    [kind |-> kind, raw |-> raw, maskKind |-> maskKind, mask |-> mask]
StandardFilters ==
    {IdMaskFilter("standard", raw, "standard", mask) : raw \in 0..1, mask \in 0..3}
ExtendedFilters ==
    {IdMaskFilter("extended", raw, "extended", mask) : raw \in 0..3, mask \in 0..7}
MixedFilter == IdMaskFilter("extended", 1, "standard", 1)
Lists ==
    {<<>>} \cup {<<f>> : f \in StandardFilters \cup ExtendedFilters}
           \cup {<<f, MixedFilter>> : f \in StandardFilters}
           \cup {<<f, IdMaskFilter("extended", 2, "extended", 3)>> : f \in StandardFilters}

LinuxInit ==
    /\ opened \in {"demux", "iso_tp", "raw"}
    /\ Init /\ SocketInit /\ CanInit
    /\ opened # "demux" => options = Options(2, <<>>)
    /\ opened # "iso_tp" => api = "sync"
    /\ opened # "raw" => ~o_nonblock

LinuxNext ==
    \/ opened = "demux" /\ Next /\ UNCHANGED <<opened, socketVars, canVars>>
    \/ opened = "iso_tp" /\ SocketNext /\ UNCHANGED <<opened, vars, canVars>>
    \/ opened = "raw" /\ CanNext /\ UNCHANGED <<opened, vars, socketVars>>

LinuxSpec == LinuxInit /\ [][LinuxNext]_<<opened, vars, socketVars, canVars>>
===============================================================================
