------------------------------ MODULE ActorLoop -------------------------------
(***************************************************************************)
(* The actor of can-isotp-queue: one task owns the ISO-TP node, serves the *)
(* send requests of the endpoints in bursts, and between bursts polls the  *)
(* node once and passes what it received to the endpoints.  run_actor has  *)
(* a tokio and an embassy version; they differ in how a request is         *)
(* answered, which TokioQueue and EmbassyQueue add.                        *)
(***************************************************************************)
EXTENDS Integers, Sequences, Functions

CONSTANTS
    Clients,        \* tasks that send
    TxDepth,        \* slots of the request channel
    RxDepth,        \* slots of the event channel
    TxBurstLimit,   \* ActorConfig::tx_burst_limit
    AllowedFrom,    \* ActorConfig::allowed_reply_from: the sources that pass
    FixedReplyTo,   \* ActorConfig::fixed_reply_to, as a set of at most one
    CallSpace,      \* numbers that tell the requests of a client apart; more
                    \* than can be outstanding
    Incoming,       \* what the node may receive: [kind, from]
    MaxIncoming     \* bound on what the node receives

VARIABLES
    apc,            \* actor: tx, send, respond, recv, deliver or stopped
    burst,          \* tx_processed
    txReq,          \* the request channel
    cur,            \* the request in the actor's hands
    node,           \* what the node has received and not handed over
    evt,            \* the event in the actor's hands, in a sequence
    rxEvt,          \* the event channel
    arrived,        \* history: all that the node received
    got             \* history: numbers of the events recv_one_into took

txVars == <<burst, txReq, cur>>
rxVars == <<node, evt, rxEvt, arrived, got>>

ASSUME ActorAssumption ==
    /\ TxDepth \in Nat \ {0}
    /\ RxDepth \in Nat \ {0}
    /\ TxBurstLimit \in Nat
    /\ CallSpace \in Nat /\ CallSpace >= TxDepth + 2
    /\ MaxIncoming \in Nat
    /\ "none" \notin Clients

Results == {"ok", "timeout", "backend"}

NoReq == [client |-> "none"]

\* The identity of a new request of client c: the least number that no
\* request in rs carries.
NewCall(c, rs) ==
    CHOOSE n \in 0..CallSpace - 1 :
        /\ \A r \in rs : r.client = c => r.call # n
        /\ \A k \in 0..n - 1 : \E r \in rs : r.client = c /\ r.call = k

ActorInit ==
    /\ apc = "tx"
    /\ burst = 0
    /\ txReq = <<>>
    /\ cur = NoReq
    /\ node = <<>>
    /\ evt = <<>>
    /\ rxEvt = <<>>
    /\ arrived = <<>>
    /\ got = <<>>

\* ActorConfig::normalized_tx_burst_limit
NormalizedBurst == IF TxBurstLimit = 0 THEN 1 ELSE TxBurstLimit

\* Mutant: requests are served as long as there are any.
BurstOverWhenIdle == txReq = <<>>

\* The end of the burst loop.
BurstOver == burst >= NormalizedBurst \/ txReq = <<>>

\* try_recv hands out the oldest request.
TakeRequest ==
    /\ apc = "tx"
    /\ ~BurstOver
    /\ txReq' = Tail(txReq)
    /\ cur' = Head(txReq)
    /\ burst' = IF burst < NormalizedBurst THEN burst + 1 ELSE burst
    /\ apc' = "send"
    /\ UNCHANGED rxVars

\* The node sends, physically or functionally, or fails.
NodeSend ==
    /\ apc = "send"
    /\ \E res \in Results :
          cur' = [client |-> cur.client, call |-> cur.call, res |-> res]
    /\ apc' = "respond"
    /\ UNCHANGED <<burst, txReq, rxVars>>

EndBurst ==
    /\ apc = "tx"
    /\ BurstOver
    /\ apc' = "recv"
    /\ UNCHANGED <<txVars, rxVars>>

\* The loop starts over.
NextRound == apc' = "tx" /\ burst' = 0

\* The node has received a payload, or noticed an error.
Arrive(e) ==
    /\ Len(arrived) < MaxIncoming
    /\ LET m == [no |-> Len(arrived) + 1, e |-> e] IN
       /\ arrived' = Append(arrived, m)
       /\ node' = Append(node, m)
    /\ UNCHANGED <<apc, txVars, evt, rxEvt, got>>

\* Mutant: the source is compared after it was replaced.
PassesAsReplyTo(m) ==
    m.e.kind = "delivered" =>
        IF FixedReplyTo = {} THEN m.e.from \in AllowedFrom
        ELSE FixedReplyTo \subseteq AllowedFrom

\* Payloads of other sources are dropped; errors are not filtered.
Passes(m) == m.e.kind = "delivered" => m.e.from \in AllowedFrom

\* The source that the endpoint reports.
ReplyTo(m) ==
    IF m.e.kind = "delivered" /\ FixedReplyTo # {}
    THEN [m EXCEPT !.e.from = CHOOSE f \in FixedReplyTo : TRUE] ELSE m

\* recv_one timed out.
PollTimeout ==
    /\ apc = "recv"
    /\ node = <<>>
    /\ NextRound
    /\ UNCHANGED <<txReq, cur, rxVars>>

\* recv_one returned something.
Poll ==
    /\ apc = "recv"
    /\ node # <<>>
    /\ node' = Tail(node)
    /\ IF Passes(Head(node))
       THEN /\ evt' = <<ReplyTo(Head(node))>>
            /\ apc' = "deliver"
            /\ UNCHANGED burst
       ELSE /\ NextRound
            /\ UNCHANGED evt
    /\ UNCHANGED <<txReq, cur, rxEvt, arrived, got>>

\* send_rx_event waits for a free slot of the event channel.
Deliver ==
    /\ apc = "deliver"
    /\ Len(rxEvt) < RxDepth
    /\ rxEvt' = rxEvt \o evt
    /\ evt' = <<>>
    /\ NextRound
    /\ UNCHANGED <<txReq, cur, node, arrived, got>>

\* recv_one_into: an event leaves the channel whatever the call returns, also
\* when the caller's buffer is too small for it.
RecvOneInto ==
    /\ rxEvt # <<>>
    /\ rxEvt' = Tail(rxEvt)
    /\ got' = Append(got, Head(rxEvt).no)
    /\ UNCHANGED <<apc, txVars, node, evt, arrived>>

ActorRx == Poll \/ PollTimeout \/ Deliver

ActorTx == TakeRequest \/ NodeSend \/ EndBurst

\* Numbers of events, in order.
NumbersOf(s) == [i \in DOMAIN s |-> s[i].no]

\* What the filter lets pass: errors, and payloads of the sources allowed.
Wanted(m) == m.e.kind # "delivered" \/ m.e.from \in AllowedFrom

\* While the actor runs, the endpoint gets all that the node received and
\* the filter lets pass, once and in that order: what it got, what is in the
\* channel and in the actor's hands are the ones of those the actor has
\* polled, and the rest is still at the node.
EventsInOrder ==
    LET polled == Len(arrived) - Len(node)
        seen == (got \o NumbersOf(rxEvt)) \o NumbersOf(evt)
    IN  apc # "stopped" =>
            /\ \A i \in DOMAIN node : node[i] = arrived[polled + i]
            /\ \A i, j \in DOMAIN seen : i < j => seen[i] < seen[j]
            /\ Range(seen) = {n \in 1..polled : Wanted(arrived[n])}
===============================================================================
