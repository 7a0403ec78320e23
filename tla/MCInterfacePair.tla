--------------------------- MODULE MCInterfacePair ----------------------------
(***************************************************************************)
(* Values for the constants of InterfacePair: two types of message, and    *)
(* a value too long for the transmit buffer.                               *)
(***************************************************************************)
EXTENDS InterfacePair

CONSTANTS s1, s2, t1, q1

Value(id, max, used, tag) ==
    [id |-> id, from |-> 16, max |-> max, used |-> used, tag |-> tag]

SomeValues == {Value(1, 2, 1, "x"), Value(1, 2, 1, "y"), Value(2, 2, 1, "x"),
               Value(1, 3, 1, "x")}

Payloads == {Payload(v) : v \in SomeValues}

AnyBodyOrY == {{"x", "y"}, {"y"}}
===============================================================================
