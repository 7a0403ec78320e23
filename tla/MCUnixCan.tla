------------------------------ MODULE MCUnixCan -------------------------------
(***************************************************************************)
(* Values for the constants of UnixCan: two identifiers, and filter lists  *)
(* that accept one of them, any (by a mask of the other kind), or do not   *)
(* fit a message.  Where only safety is checked, send and recv do nothing  *)
(* that send_timeout and recv_timeout cannot do.                           *)
(***************************************************************************)
EXTENDS UnixCan, TLC

CONSTANTS a, b

Id(raw) == [kind |-> "standard", raw |-> raw]

Filter(raw, maskKind) ==
    [kind |-> "standard", raw |-> raw, maskKind |-> maskKind, mask |-> "all"]

OneId == {Id(1)}
TwoIds == {Id(1), Id(2)}

NoLists == {}
ExactAndMixed == {<<Filter(2, "standard")>>, <<Filter(2, "extended")>>}
FitsAndTooLong == {<<Filter(1, "standard")>>,
                   <<Filter(1, "standard"), Filter(2, "standard")>>}

Sends == {"send", "try_send"}
Polling == {"send_timeout", "try_send", "recv_timeout", "try_recv", "set_filters"}
Answered == {"send", "send_timeout", "set_filters"}

CanSymmetry == Permutations(Conns)
===============================================================================
