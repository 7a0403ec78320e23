---------------------------- MODULE MCEmbassyQueue ----------------------------
(***************************************************************************)
(* Values for the constants of EmbassyQueue.                               *)
(***************************************************************************)
EXTENDS EmbassyQueue

CONSTANTS c1, c2

Delivered(from) == [kind |-> "delivered", from |-> from]

OneSource == {Delivered(17)}
===============================================================================
