----------------------------- MODULE EmbassyQueue -----------------------------
(***************************************************************************)
(* The embassy version of can-isotp-queue: the answers of all requests go  *)
(* through one static channel, tx_resp.  A call holds tx_rpc_lock from its *)
(* request to its answer, and empties tx_resp first.  The channels never   *)
(* close.                                                                  *)
(***************************************************************************)
EXTENDS ActorLoop

CONSTANT RespDepth      \* TX_RESP_DEPTH

VARIABLES
    caller,         \* what each client does: its state, call and result
    holder,         \* who holds tx_rpc_lock, as a set of at most one
    txResp,         \* tx_resp: answers, with the request each one is for
    cancelled       \* history: a send was cancelled

rpcVars == <<caller, holder, txResp, cancelled>>
embassyVars == <<apc, txVars, rxVars, rpcVars>>

ASSUME EmbassyAssumption ==
    RespDepth \in Nat \ {0} /\ CallSpace >= TxDepth + RespDepth + 2

IdleCaller == [pc |-> "idle", call |-> 0]

EmbassyInit ==
    /\ ActorInit
    /\ caller = [c \in Clients |-> IdleCaller]
    /\ holder = {}
    /\ txResp = <<>>
    /\ cancelled = FALSE

\* send_to and send_functional_to, past the check of the payload's length.
EmbassySendTo(c) ==
    /\ caller[c].pc = "idle"
    /\ caller' = [caller EXCEPT ![c].pc = "lock"]
    /\ UNCHANGED <<apc, txVars, rxVars, holder, txResp, cancelled>>

\* while tx_resp.try_receive().is_ok() {}
Drain == txResp' = <<>>

\* Mutant: calls do not exclude each other.
LockShared(c) ==
    /\ caller[c].pc = "lock"
    /\ holder' = holder \cup {c}
    /\ Drain
    /\ caller' = [caller EXCEPT ![c].pc = "enqueue"]
    /\ UNCHANGED <<apc, txVars, rxVars, cancelled>>

\* tx_rpc_lock.lock and the loop that empties tx_resp.
Lock(c) ==
    /\ caller[c].pc = "lock"
    /\ holder = {}
    /\ holder' = {c}
    /\ Drain
    /\ caller' = [caller EXCEPT ![c].pc = "enqueue"]
    /\ UNCHANGED <<apc, txVars, rxVars, cancelled>>

\* tx_req.send waits for a free slot.
QueueRequest(c) ==
    /\ caller[c].pc = "enqueue"
    /\ Len(txReq) < TxDepth
    /\ LET n == NewCall(c, Range(txReq) \cup {cur} \cup Range(txResp))
       IN  /\ txReq' = Append(txReq, [client |-> c, call |-> n])
           /\ caller' = [caller EXCEPT ![c].pc = "wait", ![c].call = n]
    /\ UNCHANGED <<apc, burst, cur, rxVars, holder, txResp, cancelled>>

\* Mutant: a call leaves the answers of others in the channel.
ReceiveOwn(c) ==
    /\ caller[c].pc = "wait"
    /\ txResp # <<>>
    /\ Head(txResp).client = c /\ Head(txResp).call = caller[c].call
    /\ txResp' = Tail(txResp)
    /\ caller' = [caller EXCEPT ![c] = IdleCaller]
    /\ holder' = {}
    /\ UNCHANGED <<apc, txVars, rxVars, cancelled>>

\* tx_resp.receive: the first answer there is ends the call.
Receive(c) ==
    /\ caller[c].pc = "wait"
    /\ txResp # <<>>
    /\ txResp' = Tail(txResp)
    /\ caller' = [caller EXCEPT ![c] = IdleCaller]
    /\ holder' = {}
    /\ UNCHANGED <<apc, txVars, rxVars, cancelled>>

\* The caller drops the future and with it the guard of the lock; a request
\* that was queued stays queued.
DropCall(c) ==
    /\ caller[c].pc \in {"lock", "enqueue", "wait"}
    /\ caller' = [caller EXCEPT ![c] = IdleCaller]
    /\ holder' = holder \ {c}
    /\ cancelled' = TRUE
    /\ UNCHANGED <<apc, txVars, rxVars, txResp>>

\* The actor waits for a free slot of tx_resp.
PutAnswer ==
    /\ apc = "respond"
    /\ Len(txResp) < RespDepth
    /\ txResp' = Append(txResp, cur)
    /\ cur' = NoReq
    /\ apc' = "tx"
    /\ UNCHANGED <<burst, txReq, rxVars, caller, holder, cancelled>>

EmbassyActor == ((ActorTx \/ ActorRx) /\ UNCHANGED rpcVars) \/ PutAnswer

EmbassyRecv == RecvOneInto /\ UNCHANGED rpcVars

CallerStep(c) == Lock(c) \/ QueueRequest(c) \/ Receive(c)

EmbassyNext ==
    \/ EmbassyActor
    \/ EmbassyRecv
    \/ \E e \in Incoming : Arrive(e) /\ UNCHANGED rpcVars
    \/ \E c \in Clients : EmbassySendTo(c) \/ CallerStep(c) \/ DropCall(c)

EmbassySpec == EmbassyInit /\ [][EmbassyNext]_embassyVars

\* The actor, the receiving task and the sending tasks are polled.
EmbassyFairSpec ==
    /\ EmbassySpec
    /\ WF_embassyVars(EmbassyActor)
    /\ WF_embassyVars(EmbassyRecv)
    /\ \A c \in Clients : WF_embassyVars(CallerStep(c))

-------------------------------------------------------------------------------

\* As long as no send was cancelled, the answer a call takes is the answer to its
\* own request: the lock and the shared channel together.
OwnAnswer ==
    ~cancelled =>
        \A c \in Clients : caller[c].pc = "wait" /\ txResp # <<>> =>
            Head(txResp).client = c /\ Head(txResp).call = caller[c].call

\* As long as no send was cancelled, the actor never waits for a slot of tx_resp,
\* so it does not stop receiving there.
AnswerNeverBlocks ==
    ~cancelled => (apc = "respond" => Len(txResp) < RespDepth)

\* A send that has the lock returns, as long as someone receives; also when
\* other sends were cancelled at any point.
CallReturns ==
    \A c \in Clients : caller[c].pc = "enqueue" ~> caller[c].pc = "idle"
===============================================================================
