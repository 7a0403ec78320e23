---------------------------- MODULE InterfacePair -----------------------------
(***************************************************************************)
(* The send side of one Interface joined to the receive side of another:   *)
(* what the transport has taken and not lost is what the pumps receive.    *)
(***************************************************************************)
EXTENDS InterfaceTx, Mailbox

pairVars == <<txVars, vars>>

PairInit == TxInit /\ Init

\* The transport drops a payload.  When it does shows only once the payload
\* would be the next to be received.
LoseOnWire ==
    /\ wire # <<>>
    /\ wire' = Tail(wire)
    /\ UNCHANGED <<tx_state, tx, send, sends, vars>>

\* recv_one_into hands over the oldest payload.
Pump(t) ==
    /\ wire # <<>>
    /\ PumpRecv(t, Head(wire))
    /\ wire' = Tail(wire)
    /\ UNCHANGED <<tx_state, tx, send, sends>>

PairNext ==
    \/ \E s \in Senders : (SenderStep(s) \/ SenderCalls(s)) /\ UNCHANGED vars
    \/ LoseOnWire
    \/ \E t \in Pumps : Pump(t)
    \/ (Callers \/ Steps) /\ UNCHANGED txVars

PairSpec == PairInit /\ [][PairNext]_pairVars

\* The pumps are called again and again, and every task is polled by its
\* executor; whether and when the transport takes, loses or reports anything
\* is left open.
FairPairSpec ==
    /\ PairSpec
    /\ \A t \in Pumps :
          /\ WF_pairVars(Pump(t))
          /\ WF_pairVars(PumpStep(t) /\ UNCHANGED txVars)
    /\ \A t \in Tasks : WF_pairVars(TaskStep(t) /\ UNCHANGED txVars)

-------------------------------------------------------------------------------

Bodies(s) == [i \in DOMAIN s |-> s[i].p]

\* What the pumps hold of a type: with one pump, at most one payload.
Held(id) ==
    LET held == {pump[t].got.p : t \in {q \in Pumps : pump[q].pc = "ingest"}}
        ofType == {p \in held : p.id = id}
    IN  IF ofType = {} THEN <<>> ELSE <<CHOOSE p \in ofType : TRUE>>

OnWire(id) == SelectSeq(wire, LAMBDA p : p.id = id)

Channel == INSTANCE TypedChannel WITH
    Types <- MESSAGE_IDS,
    Callers <- Senders,
    Packets <- {Payload(v) : v \in Values},
    Tests <- Predicates,
    putting <- [s \in Senders |->
                  IF send[s].pc = "idle" THEN {} ELSE {Payload(send[s].v)}],
    channel <- [id \in MESSAGE_IDS |->
                  Bodies(box[id]) \o Held(id) \o OnWire(id)],
    got <- [i \in DOMAIN taken |->
                  [p |-> taken[i].m.p, test |-> taken[i].pred]]

\* With one pump, the two sides are a TypedChannel: what is received is what
\* some call encoded, whole and once, in the order the transport took it,
\* also when two tasks share the transmit buffer, calls are dropped while
\* they send, and payloads are refused.
ImplementsChannel == Channel!Spec

\* Payloads the transport has taken and no mailbox has taken or refused
OnTheWay == wire # <<>> \/ \E t \in Pumps : pump[t].pc = "ingest"

\* A mailbox that is full does not hold up the pump, and so not the messages
\* of the other types behind it: what is on the wire leaves it, and the pump
\* is done with it.
WireDrains == OnTheWay ~> ~OnTheWay
===============================================================================
