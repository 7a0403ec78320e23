------------------------------ MODULE TokioQueue ------------------------------
(***************************************************************************)
(* The tokio version of can-isotp-queue: a request carries a oneshot       *)
(* channel for its answer.  The actor may be stopped; both channels then   *)
(* close, and what was queued is dropped with the oneshots it carries.     *)
(***************************************************************************)
EXTENDS ActorLoop

VARIABLE
    client          \* what each client does: its state, call and result

vars == <<apc, txVars, rxVars, client>>

IdleClient == [pc |-> "idle", call |-> 0, res |-> "none"]

Init ==
    /\ ActorInit
    /\ client = [c \in Clients |-> IdleClient]

\* send_to and send_functional_to, past the check of the payload's length.
SendTo(c) ==
    /\ client[c].pc = "idle"
    /\ client' = [client EXCEPT ![c].pc = "enqueue"]
    /\ UNCHANGED <<apc, txVars, rxVars>>

\* mpsc::Sender::send waits for a free slot, or fails when the actor is gone.
Enqueue(c) ==
    /\ client[c].pc = "enqueue"
    /\ \/ /\ apc # "stopped"
          /\ Len(txReq) < TxDepth
          /\ LET n == NewCall(c, Range(txReq) \cup {cur})
             IN  /\ txReq' = Append(txReq, [client |-> c, call |-> n])
                 /\ client' = [client EXCEPT ![c].pc = "wait", ![c].call = n]
       \/ /\ apc = "stopped"
          /\ client' = [client EXCEPT ![c].pc = "done", ![c].res = "closed"]
          /\ UNCHANGED txReq
    /\ UNCHANGED <<apc, burst, cur, rxVars>>

\* The oneshot of call r is still waited for.
Waiting(r) == client[r.client].pc = "wait" /\ client[r.client].call = r.call

\* req.done.send: nobody listens when the call was cancelled.
Respond ==
    /\ apc = "respond"
    /\ client' = IF Waiting(cur)
                 THEN [client EXCEPT ![cur.client].pc = "done",
                                     ![cur.client].res = cur.res]
                 ELSE client
    /\ cur' = NoReq
    /\ apc' = "tx"
    /\ UNCHANGED <<burst, txReq, rxVars>>

\* send_to returns to its caller.
Finish(c) ==
    /\ client[c].pc = "done"
    /\ client' = [client EXCEPT ![c] = IdleClient]
    /\ UNCHANGED <<apc, txVars, rxVars>>

\* The caller drops the future; a request that was queued stays queued.
Cancel(c) ==
    /\ client[c].pc \in {"enqueue", "wait"}
    /\ client' = [client EXCEPT ![c] = IdleClient]
    /\ UNCHANGED <<apc, txVars, rxVars>>

\* Mutant: the calls that wait are not told.
StopSilently ==
    /\ apc # "stopped"
    /\ apc' = "stopped"
    /\ burst' = 0
    /\ txReq' = <<>>
    /\ cur' = NoReq
    /\ evt' = <<>>
    /\ UNCHANGED <<client, node, rxEvt, arrived, got>>

\* The actor's task is aborted: every oneshot it holds is dropped, so every
\* waiting call fails with ChannelClosed.
Stop ==
    /\ apc # "stopped"
    /\ apc' = "stopped"
    /\ burst' = 0
    /\ txReq' = <<>>
    /\ cur' = NoReq
    /\ evt' = <<>>
    /\ client' = [c \in Clients |->
                     IF client[c].pc = "wait"
                     THEN [client[c] EXCEPT !.pc = "done", !.res = "closed"]
                     ELSE client[c]]
    /\ UNCHANGED <<node, rxEvt, arrived, got>>

Actor == ((ActorTx \/ ActorRx) /\ UNCHANGED client) \/ Respond

Recv == RecvOneInto /\ UNCHANGED client

ClientStep(c) == SendTo(c) \/ Enqueue(c) \/ Finish(c)

Next ==
    \/ Actor
    \/ Recv
    \/ Stop
    \/ \E e \in Incoming : Arrive(e) /\ UNCHANGED client
    \/ \E c \in Clients : ClientStep(c) \/ Cancel(c)

Spec == Init /\ [][Next]_vars

\* The actor and the receiving task are polled; tokio's channel serves the
\* tasks that wait for a slot in turn.
FairSpec ==
    /\ Spec
    /\ WF_vars(Actor)
    /\ WF_vars(Recv)
    /\ \A c \in Clients : SF_vars(Enqueue(c)) /\ WF_vars(Finish(c))

-------------------------------------------------------------------------------

\* The request in the actor's hands, answered or not.
InHand == IF cur = NoReq THEN {}
          ELSE {[client |-> cur.client, call |-> cur.call]}

\* A call that waits for its oneshot has exactly one request in the actor's
\* reach, in its hands or in one slot of the queue: it is answered once, and
\* none waits for a dropped oneshot.
WaitingIsPending ==
    \A c \in Clients : client[c].pc = "wait" =>
        LET r == [client |-> c, call |-> client[c].call] IN
        /\ (r \in InHand) <=> (r \notin Range(txReq))
        /\ \A i, j \in DOMAIN txReq : txReq[i] = r /\ txReq[j] = r => i = j

\* A send returns, also when its caller competes with others for the channel
\* or the actor is stopped, as long as someone receives.
SendReturns ==
    \A c \in Clients : client[c].pc = "enqueue" ~> client[c].pc = "idle"

\* What the node received reaches the endpoint, or the actor is stopped,
\* however many requests are queued: the burst limit.
ReceiveNotStarved == node # <<>> ~> (node = <<>> \/ apc = "stopped")
===============================================================================
