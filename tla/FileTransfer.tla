----------------------------- MODULE FileTransfer -----------------------------
(***************************************************************************)
(* One sending node and one receiving node joined by the three message     *)
(* paths: the sender task runs one transfer after the other, the receiver  *)
(* task calls recv_file again and again, and every wait may time out.      *)
(***************************************************************************)
EXTENDS FileSender, FileReceiver

CONSTANT
    Timely          \* TRUE: waits only time out when nothing can arrive

ASSUME TimelyAssumption == Timely \in BOOLEAN

vars == <<wireVars, senderVars, receiverVars>>

Init == WireInit /\ SenderInit /\ ReceiverInit

ReceiverBusy ==
    \/ rpc = "idle" /\ sessions < MaxSessions
    \/ rpc = "req" /\ reqQ # <<>>
    \/ rpc \in {"reply", "empty"}
    \/ rpc = "chunks" /\ chunkQ # <<>>

\* When Timely, the sender's wait is longer than a round trip, and the
\* receiver's wait is longer than all the retries of the sender.
SenderMayTimeOut == Timely => ackQ = <<>> /\ ~ReceiverBusy
ReceiverMayTimeOut == Timely => chunkQ = <<>> /\ spc = "idle"

\* What applications start.
Call ==
    \/ \E file \in Files, c \in SendConfigs : SendFile(file, c)
    \/ \E id \in ExplicitIds, file \in Files, c \in SendConfigs :
          SendFileWithId(id, file, c)
    \/ \E id \in BareIds, file \in Files : SendBareReq(id, file)

\* What a started transfer does.
Sender ==
    \/ SendOffer
    \/ OfferAck
    \/ SenderMayTimeOut /\ OfferTimeout
    \/ SendChunk
    \/ StreamAck
    \/ SenderMayTimeOut /\ StreamTimeout
    \/ DiscardAck

Receiver ==
    \/ RecvFile
    \/ TakeReq
    \/ SendReply
    \/ CommitEmpty
    \/ RecvChunk
    \/ DiscardChunk
    \/ ReceiverMayTimeOut /\ ChunkTimeout

Next ==
    \/ Call /\ UNCHANGED receiverVars
    \/ Sender /\ UNCHANGED receiverVars
    \/ Receiver /\ UNCHANGED senderVars

Spec == Init /\ [][Next]_vars

\* Both tasks are polled by their executor and their timers fire; whether
\* an application starts another transfer is left open.
FairSpec ==
    /\ Spec
    /\ WF_vars(Sender /\ UNCHANGED receiverVars)
    /\ WF_vars(Receiver /\ UNCHANGED senderVars)

-------------------------------------------------------------------------------

\* Every id that send_file hands out is new: no id is chosen by hand and
\* the allocator does not come round within the calls considered.
FreshIds == ExplicitIds = {} /\ MaxSends + 1 < IdSpace

\* Every variable of the wire, the sender and the receiver has its type; ids
\* stay below IdSpace also when SendState's allocator wraps, and a call sends
\* a file of the application.
TypeOK == WireTypeOK /\ SenderTypeOK /\ ReceiverTypeOK

\* recv_file commits only what some call offered under that id, whatever is
\* lost, late, repeated or sent twice under one id: the check of the hash
\* before store.commit.
CommitIntegrity == committed \subseteq offered

\* With new ids, a send_file that returns Ok for a file that is not empty
\* means that the receiver committed exactly that file: Complete is sent
\* after store.commit, and nothing else acknowledges the last byte.
OkMeansCommitted ==
    FreshIds =>
        \A o \in outcomes :
            o.res = "ok" /\ o.file # <<>> =>
                [id |-> o.id, file |-> o.file] \in committed

\* The receiver acknowledges only bytes it has written: every progress or
\* Complete ack on its way, and so the sender's last_acked, is covered by
\* write_at calls that returned.
AckAfterWrite ==
    /\ \A i \in DOMAIN ackQ :
          ackQ[i].kind \in {"ack", "complete"} =>
              ackQ[i].next <= stored[ackQ[i].id]
    /\ spc # "idle" => lastAcked <= stored[sid]

\* With new ids, what recv_file has written is a prefix of the file that the
\* request announced: go-back-N copies, gaps and leftovers of other transfers
\* are never written.  So the hash check of a complete file never fails; the
\* only Abort is that of a chunk that is too large, before the end.
WrittenIsPrefix ==
    FreshIds =>
        /\ rpc = "chunks" =>
              /\ Len(written) < Len(req.hash)
              /\ \A k \in DOMAIN written : written[k] = req.hash[k]
        /\ rpc = "reply" /\ reply.kind = "abort" => reply.next < req.total

\* With new ids, the sender never meets an ack or a Complete beyond
\* next_to_send where it reads acks, also when it went back and the ack is a
\* late one: it has filled the window again before it waits.
AckNeverAhead ==
    FreshIds /\ spc = "stream" /\ ~WindowOpen =>
        \A i \in DOMAIN ackQ :
            ackQ[i].id = sid /\ ackQ[i].kind \in {"ack", "complete"} =>
                ackQ[i].next <= nextToSend

\* recv_file owns a write handle exactly where it can still commit or abort
\* it: no return leaves a handle behind and none is consumed twice.
HandleDiscipline ==
    store = "open" <=> \/ rpc \in {"empty", "chunks"}
                       \/ rpc = "reply" /\ reply.kind \in {"accept", "ack"}

\* When waits are timely and only chunks and progress acks are lost, no more
\* often than max_retries, no transfer fails.
LossIsRecovered == \A o \in outcomes : o.res = "ok"

\* When waits are timely, the chunks that wait for a receiver in its chunk
\* loop are fewer than two windows.  One window is not enough: after a
\* go-back, the ack of the first repeated chunk can move the window on while
\* the other repeated chunks are still in the mailbox.
MailboxHoldsTwoWindows ==
    rpc = "chunks" /\ spc = "stream" => Len(chunkQ) < 2 * scfg.window

\* Under the same conditions every file offered is committed in the end.
OfferedIsCommitted ==
    \A id \in Ids, file \in Files :
        [id |-> id, file |-> file] \in offered
            ~> [id |-> id, file |-> file] \in committed

\* ReceiverConfig says that a max_chunk_size of 0 accepts chunks of any size:
\* then no chunk of the transfer is refused for its size.
AnySizeAccepted ==
    ReceiverMax = 0 /\ rpc = "chunks" /\ chunkQ # <<>> =>
        (Head(chunkQ).id = req.id => ~Oversize(Head(chunkQ).data))

\* A started send_file returns.
SendReturns == spc # "idle" ~> spc = "idle"

\* A write handle that recv_file opened is committed or aborted.
HandleReleased == store = "open" ~> store = "closed"
===============================================================================
