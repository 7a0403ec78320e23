------------------------------ MODULE MCMailbox -------------------------------
(***************************************************************************)
(* Values for the constants of Mailbox: a payload of each kind that ingest *)
(* tells apart, from one peer, with bodies a receiver may tell apart, and  *)
(* more tasks than a Watch has receivers.                                  *)
(***************************************************************************)
EXTENDS Mailbox, TLC

CONSTANTS t1, t2, t3, q1, q2

Arrival(id, from, len, tag) ==
    [id |-> id, from |-> from, len |-> len, tag |-> tag]

Good == {Arrival(1, 16, 3, "x"), Arrival(1, 16, 3, "y")}
Bad == {Arrival(1, 16, 1, "x"), Arrival(1, 16, 5, "x"), Arrival(9, 16, 3, "x")}
GoodAndBad == Good \cup Bad

AnyBodyOrY == {{"x", "y"}, {"y"}}

MailboxSymmetry == Permutations({t1, t2, t3}) \cup Permutations({q1, q2})
===============================================================================
