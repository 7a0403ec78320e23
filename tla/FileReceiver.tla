----------------------------- MODULE FileReceiver -----------------------------
(***************************************************************************)
(* The receiving half of the file-transfer bundle: recv_file and           *)
(* recv_file_no_alloc over an AsyncFileStore.  One call serves one         *)
(* transfer: it waits for a request, opens the store, accepts, writes the  *)
(* chunks that continue what it has, and commits when the length is        *)
(* reached and the hash matches.  The two functions differ in one check,   *)
(* the staging buffer of recv_file_no_alloc (StageMax).                    *)
(***************************************************************************)
EXTENDS FileTransferWire

CONSTANTS
    ReceiverMax,    \* ReceiverConfig::max_chunk_size, 0 for no limit
    StageMax,       \* MAX_CHUNK of recv_file_no_alloc; for recv_file, which
                    \* has no staging buffer, at least every chunk size
    MaxSessions     \* bound on calls of recv_file

VARIABLES
    rpc,            \* where the call is: idle, req, reply, empty or chunks
    req,            \* the request it serves
    written,        \* the bytes written so far: next_offset is their number
    lastProgress,   \* last_progress_offset
    reply,          \* the ack about to be sent while rpc = "reply"
    store,          \* whether the call holds a write handle: open or closed
    sessions,       \* calls so far
    stored,         \* history: most bytes ever written for each id
    committed       \* history: every id and file committed

receiverVars == <<rpc, req, written, lastProgress, reply, store, sessions,
                  stored, committed>>

ASSUME ReceiverAssumption ==
    /\ ReceiverMax \in Nat
    /\ StageMax \in Nat
    /\ MaxSessions \in Nat

NoReq == [kind |-> "req", id |-> 0, total |-> 0, smax |-> 0, valid |-> FALSE,
          hash |-> <<>>]

NoReply == [kind |-> "reject", id |-> 0, next |-> 0, chunk |-> 0]

ReceiverInit ==
    /\ rpc = "idle"
    /\ req = NoReq
    /\ written = <<>>
    /\ lastProgress = 0
    /\ reply = NoReply
    /\ store = "closed"
    /\ sessions = 0
    /\ stored = [id \in Ids |-> 0]
    /\ committed = {}

\* The negotiated chunk size: the smaller limit, where 0 is no limit.
Negotiate(r) ==
    IF ReceiverMax = 0 THEN r.smax
    ELSE IF r.smax = 0 \/ ReceiverMax < r.smax THEN ReceiverMax ELSE r.smax

\* data_len > MAX_CHUNK or data_len > negotiated_chunk_size
Oversize(data) == Len(data) > StageMax \/ Len(data) > Negotiate(req)

\* The call returns; its locals are gone.
Leave ==
    /\ rpc' = "idle"
    /\ req' = NoReq
    /\ written' = <<>>
    /\ lastProgress' = 0
    /\ reply' = NoReply

\* Mutant: the handle is not handed back to the store.
AbortForgotten == UNCHANGED store

\* store.abort consumes the write handle.
Abort == store' = "closed"

Prepare(kind, next, chunk) ==
    /\ rpc' = "reply"
    /\ reply' = FileAck(req.id, kind, next, chunk)

RecvFile ==
    /\ rpc = "idle"
    /\ sessions < MaxSessions
    /\ sessions' = sessions + 1
    /\ rpc' = "req"
    /\ UNCHANGED <<req, written, lastProgress, reply, store, stored,
                   committed, wireVars>>

\* The checks that answer a request with Reject.
Rejected(r) == ~r.valid \/ Negotiate(r) = 0

\* A request arrives: reject it, or open the store and prepare Accept.  A
\* begin_write that fails ends the call without any answer.
TakeReq ==
    /\ rpc = "req"
    /\ reqQ # <<>>
    /\ reqQ' = Tail(reqQ)
    /\ LET r == Head(reqQ) IN
       \/ /\ Rejected(r)
          /\ rpc' = "reply"
          /\ reply' = FileAck(r.id, "reject", 0, 0)
          /\ UNCHANGED <<req, store, faults, written, lastProgress>>
       \/ /\ ~Rejected(r)
          /\ req' = r
          /\ store' = "open"
          /\ rpc' = "reply"
          /\ reply' = FileAck(r.id, "accept", 0, Negotiate(r))
          /\ UNCHANGED <<faults, written, lastProgress>>
       \/ /\ ~Rejected(r)
          /\ Fault("store", FailingKinds)
          /\ Leave
          /\ UNCHANGED store
    /\ UNCHANGED <<chunkQ, ackQ, sessions, stored, committed>>

\* What follows a reply that was sent.
Replied ==
    \/ /\ reply.kind = "accept"
       /\ rpc' = IF req.total = 0 THEN "empty" ELSE "chunks"
       /\ reply' = NoReply
       /\ UNCHANGED <<req, written, lastProgress, store>>
    \/ /\ reply.kind = "ack"
       /\ rpc' = "chunks"
       /\ reply' = NoReply
       /\ lastProgress' = Len(written)
       /\ UNCHANGED <<req, written, store>>
    \/ /\ reply.kind \in {"reject", "complete", "abort"}
       /\ Leave
       /\ UNCHANGED store

\* Sending Accept, a progress ack, Complete, Reject or Abort.  A failed send
\* ends the call; Accept and progress acks still hold the handle and abort.
SendReply ==
    /\ rpc = "reply"
    /\ \E res \in Results :
          /\ Transmit(ackQ, reply, res)
          /\ IF res = "ok"
             THEN Replied
             ELSE /\ Leave
                  /\ IF store = "open" THEN Abort ELSE UNCHANGED store
    /\ UNCHANGED <<reqQ, chunkQ, sessions, stored, committed>>

\* store.commit consumes the handle and succeeds, or fails: then the call
\* returns the error without an answer.
Commit(file, ok) ==
    /\ store' = "closed"
    /\ IF ok
       THEN /\ committed' = committed \cup {[id |-> req.id, file |-> file]}
            /\ UNCHANGED faults
       ELSE /\ Fault("store", FailingKinds)
            /\ UNCHANGED committed

\* Mutant: the hash is not compared.
HashMatchesAlways(file) == TRUE

\* computed == expected_hash, with a digest that is the content itself.
HashMatches(file) == file = req.hash

\* An empty file is committed without waiting for a chunk and without a
\* Complete; the hash is that of no bytes.
CommitEmpty ==
    /\ rpc = "empty"
    /\ IF HashMatches(<<>>)
       THEN /\ \E ok \in BOOLEAN : Commit(<<>>, ok)
            /\ Leave
       ELSE /\ Abort
            /\ Prepare("abort", 0, 0)
            /\ UNCHANGED <<req, written, lastProgress, committed, faults>>
    /\ UNCHANGED <<reqQ, chunkQ, ackQ, sessions, stored>>

\* wait_for_transfer_chunk drops the chunks of other transfers.
DiscardChunk ==
    /\ rpc = "chunks"
    /\ chunkQ # <<>>
    /\ Head(chunkQ).id # req.id
    /\ chunkQ' = Tail(chunkQ)
    /\ UNCHANGED <<receiverVars, reqQ, ackQ, faults>>

\* wait_for_transfer_chunk returns the first chunk of this transfer.
TakeChunk ==
    /\ rpc = "chunks"
    /\ chunkQ # <<>>
    /\ Head(chunkQ).id = req.id
    /\ chunkQ' = Tail(chunkQ)
    /\ UNCHANGED <<reqQ, ackQ, sessions>>

ChunkTooLarge(c) ==
    /\ Oversize(c.data)
    /\ Abort
    /\ Prepare("abort", Len(written), 0)
    /\ UNCHANGED <<req, written, lastProgress, stored, committed, faults>>

\* Mutant: the ack repeats the offset of the chunk.
ChunkOutOfOrderAcksOffset(c) ==
    /\ ~Oversize(c.data)
    /\ c.offset # Len(written)
    /\ Prepare("ack", c.offset, 0)
    /\ UNCHANGED <<req, written, lastProgress, store, stored, committed, faults>>

\* Mutant: the chunk is dropped without an answer.
ChunkOutOfOrderSilent(c) ==
    /\ ~Oversize(c.data)
    /\ c.offset # Len(written)
    /\ UNCHANGED <<rpc, req, written, lastProgress, reply, store, stored,
                   committed, faults>>

\* A chunk that does not continue what was written is dropped; the answer
\* tells the sender where to continue.
ChunkOutOfOrder(c) ==
    /\ ~Oversize(c.data)
    /\ c.offset # Len(written)
    /\ Prepare("ack", Len(written), 0)
    /\ UNCHANGED <<req, written, lastProgress, store, stored, committed, faults>>

\* Mutant: the offset is not looked at.
InOrderAnyOffset(c) == ~Oversize(c.data)

InOrder(c) == ~Oversize(c.data) /\ c.offset = Len(written)

\* What write_at is given: no more than is missing.
Piece(c) ==
    LET missing == req.total - Len(written)
    IN  IF Len(c.data) <= missing THEN c.data ELSE SubSeq(c.data, 1, missing)

\* Mutant: what was written before the failure is committed.
WriteFailsCommitting(c) ==
    /\ InOrder(c)
    /\ Piece(c) # <<>>
    /\ Fault("store", FailingKinds)
    /\ Abort
    /\ Leave
    /\ committed' = committed \cup {[id |-> req.id, file |-> written]}
    /\ UNCHANGED stored

WriteFails(c) ==
    /\ InOrder(c)
    /\ Piece(c) # <<>>
    /\ Fault("store", FailingKinds)
    /\ Abort
    /\ Leave
    /\ UNCHANGED <<stored, committed>>

RecordStored(n) ==
    stored' = [stored EXCEPT ![req.id] = IF n > @ THEN n ELSE @]

\* A chunk in the middle of the file: a progress ack follows once a full
\* stride was written since the last one.  An empty chunk changes nothing.
WriteMiddle(c) ==
    LET w == written \o Piece(c) IN
    /\ InOrder(c)
    /\ Len(w) < req.total
    /\ written' = w
    /\ RecordStored(Len(w))
    /\ IF Piece(c) # <<>> /\ Len(w) - lastProgress >= Negotiate(req)
       THEN Prepare("ack", Len(w), 0)
       ELSE UNCHANGED <<rpc, reply>>
    /\ UNCHANGED <<req, lastProgress, store, committed, faults>>

\* The last chunk: commit when the hash matches, then answer Complete.
WriteLast(c) ==
    LET w == written \o Piece(c) IN
    /\ InOrder(c)
    /\ Len(w) >= req.total
    /\ RecordStored(Len(w))
    /\ \/ /\ HashMatches(w)
          /\ Commit(w, TRUE)
          /\ written' = w
          /\ Prepare("complete", req.total, 0)
          /\ UNCHANGED <<req, lastProgress>>
       \/ /\ HashMatches(w)
          /\ Commit(w, FALSE)
          /\ Leave
       \/ /\ ~HashMatches(w)
          /\ Abort
          /\ written' = w
          /\ Prepare("abort", req.total, 0)
          /\ UNCHANGED <<req, lastProgress, committed, faults>>

RecvChunk ==
    /\ TakeChunk
    /\ LET c == Head(chunkQ) IN
       \/ ChunkTooLarge(c)
       \/ ChunkOutOfOrder(c)
       \/ WriteFails(c)
       \/ WriteMiddle(c)
       \/ WriteLast(c)

\* No chunk of this transfer came in time: the call gives up and says
\* nothing to the sender.
ChunkTimeout ==
    /\ rpc = "chunks"
    /\ Abort
    /\ Leave
    /\ UNCHANGED <<sessions, stored, committed, wireVars>>

ReceiverTypeOK ==
    /\ rpc \in {"idle", "req", "reply", "empty", "chunks"}
    /\ req \in Req
    /\ written \in Seq(Nat)
    /\ lastProgress \in Nat
    /\ reply \in Ack
    /\ store \in {"open", "closed"}
    /\ sessions \in 0..MaxSessions
    /\ stored \in [Ids -> Nat]
    /\ committed \subseteq [id : Ids, file : Seq(Nat)]
===============================================================================
