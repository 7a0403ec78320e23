----------------------------- MODULE MCTokioQueue -----------------------------
(***************************************************************************)
(* Values for the constants of TokioQueue.                                 *)
(***************************************************************************)
EXTENDS TokioQueue

CONSTANTS c1, c2

Delivered(from) == [kind |-> "delivered", from |-> from]

AllKinds == {Delivered(17), Delivered(34), [kind |-> "backend"]}
===============================================================================
