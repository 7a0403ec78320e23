------------------------------ MODULE FileSender ------------------------------
(***************************************************************************)
(* The sending half of the file-transfer bundle: send_file and             *)
(* send_file_with_id with the transfer-id allocator SendState.  A transfer *)
(* offers the file until the offer is accepted, then streams chunks inside *)
(* a window, moving the window on cumulative acks and going back to the    *)
(* last acked offset when an ack does not come in time.                    *)
(***************************************************************************)
EXTENDS FileTransferWire

CONSTANTS
    SendConfigs,    \* the SendConfig values applications pass
    ExplicitIds,    \* ids passed to send_file_with_id
    BareIds,        \* ids of bare FileReqValue requests
    MaxSends        \* bound on calls that send

VARIABLES
    spc,            \* where the call is: idle, offer, offerWait or stream
    sid,            \* its transfer_id
    sfile,          \* its bytes
    scfg,           \* its SendConfig
    chunkSize,      \* accept.chunk_size
    lastAcked,      \* last_acked
    nextToSend,     \* next_to_send
    retries,        \* offer_retries while offering, then retries
    nextId,         \* SendState::next_transfer_id
    sends,          \* calls so far
    offered,        \* history: every id and file a call set out to send
    outcomes        \* history: what each finished call returned

senderVars == <<spc, sid, sfile, scfg, chunkSize, lastAcked, nextToSend,
                retries, nextId, sends, offered, outcomes>>

ASSUME SenderAssumption ==
    /\ SendConfigs \subseteq [smax : Nat, window : Nat, maxRetries : Nat]
    /\ ExplicitIds \subseteq Ids
    /\ BareIds \subseteq Ids
    /\ MaxSends \in Nat

NoConfig == [smax |-> 0, window |-> 0, maxRetries |-> 0]

SenderInit ==
    /\ spc = "idle"
    /\ sid = 0
    /\ sfile = <<>>
    /\ scfg = NoConfig
    /\ chunkSize = 0
    /\ lastAcked = 0
    /\ nextToSend = 0
    /\ retries = 0
    /\ nextId = 1 % IdSpace
    /\ sends = 0
    /\ offered = {}
    /\ outcomes = {}

\* Mutant: the id is not reduced to its width.
WrappingSuccUnbounded(id) == id + 1

WrappingSucc(id) == (id + 1) % IdSpace

\* SendState::observe_transfer_id on a state whose next id is n.
ObserveTransferId(id, n) == IF id >= n THEN WrappingSucc(id) ELSE n

\* SendConfig::validate
ValidConfig(c) == c.smax # 0 /\ c.window # 0

\* inflight_chunk_count
InflightChunks ==
    IF nextToSend <= lastAcked THEN 0
    ELSE (nextToSend - lastAcked + chunkSize - 1) \div chunkSize

\* Mutant: one chunk more than the window.
WindowOpenOffByOne == InflightChunks <= scfg.window /\ nextToSend < Len(sfile)

\* The condition of the refill loop.
WindowOpen == InflightChunks < scfg.window /\ nextToSend < Len(sfile)

\* The call returns and its locals are gone.
Return(res) ==
    /\ spc' = "idle"
    /\ sid' = 0
    /\ sfile' = <<>>
    /\ scfg' = NoConfig
    /\ chunkSize' = 0
    /\ lastAcked' = 0
    /\ nextToSend' = 0
    /\ retries' = 0
    /\ outcomes' = outcomes \cup {[id |-> sid, file |-> sfile, res |-> res]}
    /\ UNCHANGED <<nextId, sends, offered>>

\* The common part of both calls once the id is known; n is the allocator
\* after the id was taken.  An invalid configuration returns before the id
\* is observed and before anything is sent.
Begin(id, n, file, c) ==
    /\ spc = "idle"
    /\ sends < MaxSends
    /\ sends' = sends + 1
    /\ IF ValidConfig(c)
       THEN /\ spc' = "offer"
            /\ sid' = id
            /\ sfile' = file
            /\ scfg' = c
            /\ nextId' = ObserveTransferId(id, n)
            /\ offered' = offered \cup {[id |-> id, file |-> file]}
            /\ UNCHANGED outcomes
       ELSE /\ nextId' = n
            /\ outcomes' =
                  outcomes \cup {[id |-> id, file |-> file, res |-> "err"]}
            /\ UNCHANGED <<spc, sid, sfile, scfg, offered>>
    /\ UNCHANGED <<chunkSize, lastAcked, nextToSend, retries, wireVars>>

\* send_file: the allocator hands out nextId.
SendFile(file, c) == Begin(nextId, WrappingSucc(nextId), file, c)

\* send_file_with_id: the application chooses the id.
SendFileWithId(id, file, c) == Begin(id, nextId, file, c)

\* An application may also send a FileReqValue by itself: it has no hash.
SendBareReq(id, file) ==
    /\ sends < MaxSends
    /\ sends' = sends + 1
    /\ \E res \in Results : Transmit(reqQ, FileReqValue(id, file), res)
    /\ UNCHANGED <<spc, sid, sfile, scfg, chunkSize, lastAcked, nextToSend,
                   retries, nextId, offered, outcomes, chunkQ, ackQ>>

\* One turn of the offer loop up to the wait: a send that times out is
\* ignored, any other send error ends the call.
SendOffer ==
    /\ spc = "offer"
    /\ \E res \in Results :
          /\ Transmit(reqQ, FileOffer(sid, sfile, scfg.smax), res)
          /\ IF res = "error"
             THEN Return("err")
             ELSE /\ spc' = "offerWait"
                  /\ UNCHANGED <<sid, sfile, scfg, chunkSize, lastAcked,
                                 nextToSend, retries, nextId, sends, offered,
                                 outcomes>>
    /\ UNCHANGED <<chunkQ, ackQ>>

\* The call is inside wait_for_transfer_ack.
AwaitingAck == spc = "offerWait" \/ (spc = "stream" /\ ~WindowOpen)

\* wait_for_transfer_ack drops the acks of other transfers.
DiscardAck ==
    /\ AwaitingAck
    /\ ackQ # <<>>
    /\ Head(ackQ).id # sid
    /\ ackQ' = Tail(ackQ)
    /\ UNCHANGED <<senderVars, reqQ, chunkQ, faults>>

\* Mutant: acks of other transfers are not told apart.
TakeAckOfAnyTransfer ==
    /\ AwaitingAck
    /\ ackQ # <<>>
    /\ ackQ' = Tail(ackQ)
    /\ UNCHANGED <<reqQ, chunkQ, faults>>

\* wait_for_transfer_ack returns the first ack of this transfer.
TakeAck ==
    /\ AwaitingAck
    /\ ackQ # <<>>
    /\ Head(ackQ).id = sid
    /\ ackQ' = Tail(ackQ)
    /\ UNCHANGED <<reqQ, chunkQ, faults>>

\* Accept starts streaming; an empty file has nothing to stream and the
\* call returns Ok at once.
OnAccept(a) ==
    /\ a.kind = "accept"
    /\ IF a.chunk = 0 \/ a.chunk > scfg.smax
       THEN Return("err")
       ELSE IF sfile = <<>>
       THEN Return("ok")
       ELSE /\ spc' = "stream"
            /\ chunkSize' = a.chunk
            /\ lastAcked' = 0
            /\ nextToSend' = 0
            /\ retries' = 0
            /\ UNCHANGED <<sid, sfile, scfg, nextId, sends, offered, outcomes>>

OnOfferRefused(a) ==
    /\ a.kind \in {"reject", "abort"}
    /\ Return("err")

\* Any other answer makes the loop offer again, without counting a retry.
OnStrayProgress(a) ==
    /\ a.kind \in {"ack", "complete"}
    /\ spc' = "offer"
    /\ UNCHANGED <<sid, sfile, scfg, chunkSize, lastAcked, nextToSend,
                   retries, nextId, sends, offered, outcomes>>

OfferAck ==
    /\ spc = "offerWait"
    /\ TakeAck
    /\ \/ OnAccept(Head(ackQ))
       \/ OnOfferRefused(Head(ackQ))
       \/ OnStrayProgress(Head(ackQ))

\* Mutant: the call waits again.
GiveUpNever == UNCHANGED senderVars

\* The retries are used up.
GiveUp == Return("err")

OfferTimeout ==
    /\ spc = "offerWait"
    /\ IF retries + 1 > scfg.maxRetries
       THEN GiveUp
       ELSE /\ spc' = "offer"
            /\ retries' = retries + 1
            /\ UNCHANGED <<sid, sfile, scfg, chunkSize, lastAcked, nextToSend,
                           nextId, sends, offered, outcomes>>
    /\ UNCHANGED wireVars

ChunkEnd == IF nextToSend + chunkSize < Len(sfile)
            THEN nextToSend + chunkSize ELSE Len(sfile)

\* One turn of the refill loop; here a timed-out send is an error too.
SendChunk ==
    /\ spc = "stream"
    /\ WindowOpen
    /\ \E res \in Results :
          /\ Transmit(chunkQ,
                      FileChunk(sid, nextToSend,
                                SubSeq(sfile, nextToSend + 1, ChunkEnd)),
                      res)
          /\ IF res = "ok"
             THEN /\ nextToSend' = ChunkEnd
                  /\ UNCHANGED <<spc, sid, sfile, scfg, chunkSize, lastAcked,
                                 retries, nextId, sends, offered, outcomes>>
             ELSE Return("err")
    /\ UNCHANGED <<reqQ, ackQ>>

AckOutOfRange(a) ==
    a.next < lastAcked \/ a.next > Len(sfile) \/ a.next > nextToSend

\* A cumulative ack moves the window; the loop ends when everything is
\* acked, and Complete must say exactly that.
OnProgress(a) ==
    /\ a.kind \in {"ack", "complete"}
    /\ IF AckOutOfRange(a) \/ (a.kind = "complete" /\ a.next # Len(sfile))
       THEN Return("err")
       ELSE IF a.next = Len(sfile)
       THEN Return("ok")
       ELSE /\ lastAcked' = a.next
            /\ UNCHANGED <<spc, sid, sfile, scfg, chunkSize, nextToSend,
                           retries, nextId, sends, offered, outcomes>>

StreamAck ==
    /\ spc = "stream"
    /\ TakeAck
    /\ \/ OnProgress(Head(ackQ))
       \/ Head(ackQ).kind \in {"reject", "abort"} /\ Return("err")
       \/ Head(ackQ).kind = "accept" /\ UNCHANGED senderVars

\* Mutant: nothing is sent again.
GoBackNot == UNCHANGED <<nextToSend, lastAcked>>

\* Mutant: the transfer starts over.
GoBackToStart == nextToSend' = 0 /\ lastAcked' = 0

\* Go back N: everything after the last acked offset is sent again.
GoBack == nextToSend' = lastAcked /\ UNCHANGED lastAcked

StreamTimeout ==
    /\ spc = "stream"
    /\ ~WindowOpen
    /\ IF retries + 1 > scfg.maxRetries
       THEN GiveUp
       ELSE /\ retries' = retries + 1
            /\ GoBack
            /\ UNCHANGED <<spc, sid, sfile, scfg, chunkSize, nextId, sends,
                           offered, outcomes>>
    /\ UNCHANGED wireVars

SenderTypeOK ==
    /\ spc \in {"idle", "offer", "offerWait", "stream"}
    /\ sid \in Ids
    /\ sfile \in IF spc = "idle" THEN {<<>>} ELSE Files
    /\ scfg \in SendConfigs \cup {NoConfig}
    /\ chunkSize \in Nat
    /\ lastAcked \in Nat
    /\ nextToSend \in Nat
    /\ retries \in Nat
    /\ nextId \in Ids
    /\ sends \in 0..MaxSends
    /\ offered \subseteq [id : Ids, file : Files]
    /\ outcomes \subseteq [id : Ids, file : Files, res : {"ok", "err"}]
===============================================================================
