-------------------------- MODULE FileTransferWrites --------------------------
(*****************************************************************************)
(* FileTransfer keeps its types and the discipline of the write handle, what *)
(* it commits was offered, and what it acknowledges was written, for all     *)
(* files and configurations and any number of calls, losses and failures.    *)
(*****************************************************************************)
EXTENDS FileTransfer, TLAPS

\* A message sent keeps its queue a sequence of messages of its type.
LEMMA TransmitType ==
    ASSUME NEW S, NEW q, NEW q1, NEW m, q \in Seq(S), m \in S,
           q1 = Append(q, m) \/ q1 = q \/ q1 \in {q, Append(q, m)}
    PROVE  q1 \in Seq(S)
  OBVIOUS

\* The faults stay within their bound.
LEMMA FaultType ==
    ASSUME NEW kind, NEW kinds, WireTypeOK, Fault(kind, kinds)
    PROVE  faults' \in 0..MaxFaults
  BY WireAssumption DEF WireTypeOK, Fault

\* A piece of a sequence of naturals is one too.
LEMMA SubSeqType ==
    ASSUME NEW s \in Seq(Nat), NEW m \in Nat, NEW n \in Nat,
           1 <= m, n <= Len(s)
    PROVE  SubSeq(s, m, n) \in Seq(Nat)
  OBVIOUS

-------------------------------------------------------------------------------
(* Types *)

\* The initial states have their types.
LEMMA InitType == Init => TypeOK
  BY WireAssumption, SenderAssumption, ReceiverAssumption
     DEF Init, TypeOK, WireInit, WireTypeOK, SenderInit, SenderTypeOK,
         ReceiverInit, ReceiverTypeOK, Ids, Req, Ack, AckKinds, NoReq, NoReply,
         NoConfig

\* Starting a call keeps the types.
LEMMA CallType == TypeOK /\ Call /\ UNCHANGED receiverVars => TypeOK'
<1> SUFFICES ASSUME TypeOK, Call, UNCHANGED receiverVars
             PROVE  TypeOK'
  BY Zenon
<1> USE WireAssumption, SenderAssumption
<1>r. ReceiverTypeOK'
  BY Zenon DEF TypeOK, ReceiverTypeOK, receiverVars
<1>b. ASSUME NEW id \in Ids, NEW n \in Ids, NEW file \in Files,
             NEW c \in SendConfigs, Begin(id, n, file, c)
      PROVE  WireTypeOK' /\ SenderTypeOK'
  <2>1. WireTypeOK'
    BY <1>b, Zenon DEF Begin, TypeOK, WireTypeOK, wireVars
  <2>2. ObserveTransferId(id, n) \in Ids
    BY DEF ObserveTransferId, WrappingSucc, Ids
  <2>3. SenderTypeOK'
    BY <1>b, <2>2 DEF Begin, TypeOK, SenderTypeOK
  <2> QED BY <2>1, <2>3, Zenon
<1>1. ASSUME NEW file \in Files, NEW c \in SendConfigs, SendFile(file, c)
      PROVE  TypeOK'
  <2>1. nextId \in Ids /\ WrappingSucc(nextId) \in Ids
    BY DEF TypeOK, SenderTypeOK, WrappingSucc, Ids
  <2> QED BY <1>1, <1>b, <1>r, <2>1, Zenon DEF SendFile, TypeOK
<1>2. ASSUME NEW id \in ExplicitIds, NEW file \in Files, NEW c \in SendConfigs,
             SendFileWithId(id, file, c)
      PROVE  TypeOK'
  BY <1>2, <1>b, <1>r, Zenon DEF SendFileWithId, TypeOK, SenderTypeOK
<1>3. ASSUME NEW id \in BareIds, NEW file \in Files, SendBareReq(id, file)
      PROVE  TypeOK'
  <2>1. FileReqValue(id, file) \in Req
    BY DEF FileReqValue, Req
  <2>2. WireTypeOK'
    <3>1. PICK res \in Results : Transmit(reqQ, FileReqValue(id, file), res)
      BY <1>3, Zenon DEF SendBareReq
    <3>2. WireTypeOK /\ reqQ \in Seq(Req) /\ faults \in 0..MaxFaults
      BY Zenon DEF TypeOK, WireTypeOK
    <3>3. faults' \in 0..MaxFaults
      BY <3>1, <3>2, FaultType, Zenon DEF Transmit
    <3>4. reqQ' \in Seq(Req)
      BY <2>1, <3>1, <3>2, TransmitType, Zenon DEF Transmit
    <3> QED BY <1>3, <3>3, <3>4, Zenon DEF SendBareReq, TypeOK, WireTypeOK
  <2>3. SenderTypeOK'
    BY <1>3 DEF SendBareReq, TypeOK, SenderTypeOK
  <2> QED BY <1>r, <2>2, <2>3, Zenon DEF TypeOK
<1> QED BY <1>1, <1>2, <1>3, Zenon DEF Call

\* Returning keeps the sender's types.
LEMMA ReturnType ==
    ASSUME TypeOK, spc # "idle", NEW res \in {"ok", "err"}, Return(res)
    PROVE  SenderTypeOK'
  BY WireAssumption DEF TypeOK, SenderTypeOK, Return, Ids

\* What the sender reads from its mailbox.
LEMMA AckTaken ==
    ASSUME TypeOK, TakeAck
    PROVE  Head(ackQ) \in Ack /\ WireTypeOK'
  BY DEF TypeOK, WireTypeOK, TakeAck

\* Every step of a transfer at the sender keeps the types.
LEMMA SenderType == TypeOK /\ Sender /\ UNCHANGED receiverVars => TypeOK'
<1> SUFFICES ASSUME TypeOK, Sender, UNCHANGED receiverVars
             PROVE  TypeOK'
  BY Zenon
<1> USE WireAssumption, SenderAssumption
<1>r. ReceiverTypeOK'
  BY Zenon DEF TypeOK, ReceiverTypeOK, receiverVars
<1>1. CASE SendOffer
  <2>1. FileOffer(sid, sfile, scfg.smax) \in Req
    BY <1>1 DEF SendOffer, FileOffer, Req, TypeOK, SenderTypeOK, NoConfig
  <2>2. WireTypeOK'
    BY <1>1, <2>1, TransmitType
       DEF SendOffer, Transmit, Fault, TypeOK, WireTypeOK
  <2>3. SenderTypeOK'
    BY <1>1, ReturnType, Zenon DEF SendOffer, TypeOK, SenderTypeOK
  <2> QED BY <1>r, <2>2, <2>3, Zenon DEF TypeOK
<1>2. CASE OfferAck
  <2>1. Head(ackQ) \in Ack /\ WireTypeOK'
    BY <1>2, AckTaken, Zenon DEF OfferAck
  <2>2. CASE OnAccept(Head(ackQ))
    <3>1. SenderTypeOK'
      BY <1>2, <2>1, <2>2, ReturnType, SMTT(20)
         DEF OfferAck, OnAccept, TypeOK, SenderTypeOK, Ack
    <3> QED BY <1>r, <2>1, <3>1, Zenon DEF TypeOK
  <2>3. CASE OnOfferRefused(Head(ackQ))
    <3>1. SenderTypeOK'
      BY <1>2, <2>3, ReturnType, Zenon DEF OfferAck, OnOfferRefused
    <3> QED BY <1>r, <2>1, <3>1, Zenon DEF TypeOK
  <2>4. CASE OnStrayProgress(Head(ackQ))
    <3>1. SenderTypeOK'
      BY <1>2, <2>4, Zenon DEF OfferAck, OnStrayProgress, TypeOK, SenderTypeOK
    <3> QED BY <1>r, <2>1, <3>1, Zenon DEF TypeOK
  <2> QED BY <1>2, <2>2, <2>3, <2>4, Zenon DEF OfferAck
<1>3. CASE OfferTimeout
  <2>1. SenderTypeOK'
    BY <1>3, ReturnType, SMTT(20) DEF OfferTimeout, TypeOK, SenderTypeOK, GiveUp
  <2> QED BY <1>3, <1>r, <2>1, Zenon DEF OfferTimeout, TypeOK, WireTypeOK, wireVars,
                                  GiveUp
<1>4. CASE SendChunk
  <2> DEFINE data == SubSeq(sfile, nextToSend + 1, ChunkEnd)
  <2>1. /\ sfile \in Seq(Nat)
        /\ nextToSend \in Nat
        /\ nextToSend < Len(sfile)
        /\ ChunkEnd \in Nat
        /\ ChunkEnd <= Len(sfile)
    BY <1>4 DEF SendChunk, WindowOpen, ChunkEnd, TypeOK, SenderTypeOK
  <2>2. data \in Seq(Nat)
    BY <2>1, SubSeqType
  <2>3. FileChunk(sid, nextToSend, data) \in Chunk
    BY <2>1, <2>2, Zenon DEF FileChunk, Chunk, TypeOK, SenderTypeOK
  <2>4. WireTypeOK'
    BY <1>4, <2>3, TransmitType
       DEF SendChunk, Transmit, Fault, TypeOK, WireTypeOK
  <2>5. SenderTypeOK'
    BY <1>4, <2>1, ReturnType, Zenon DEF SendChunk, TypeOK, SenderTypeOK
  <2> QED BY <1>r, <2>4, <2>5, Zenon DEF TypeOK
<1>5. CASE StreamAck
  <2>1. Head(ackQ) \in Ack /\ WireTypeOK'
    BY <1>5, AckTaken, Zenon DEF StreamAck
  <2>2. SenderTypeOK'
    BY <1>5, <2>1, ReturnType, Zenon
       DEF StreamAck, OnProgress, senderVars, TypeOK, SenderTypeOK, Ack
  <2> QED BY <1>r, <2>1, <2>2, Zenon DEF TypeOK
<1>6. CASE StreamTimeout
  <2>1. SenderTypeOK'
    BY <1>6, ReturnType, SMTT(20) DEF StreamTimeout, TypeOK, SenderTypeOK, GiveUp, GoBack
  <2> QED BY <1>6, <1>r, <2>1, Zenon DEF StreamTimeout, TypeOK, WireTypeOK, wireVars,
                                  GiveUp, GoBack
<1>7. CASE DiscardAck
  BY <1>7, <1>r DEF DiscardAck, senderVars, TypeOK, WireTypeOK, SenderTypeOK
<1> QED BY <1>1, <1>2, <1>3, <1>4, <1>5, <1>6, <1>7, Zenon DEF Sender

\* Negotiation yields a chunk size.
LEMMA NegotiateType == \A r \in Req : Negotiate(r) \in Nat
  BY ReceiverAssumption, Zenon DEF Negotiate, Req

\* What the receiver writes is a sequence of bytes.
LEMMA PieceType ==
    ASSUME TypeOK, NEW c \in Chunk
    PROVE  Piece(c) \in Seq(Nat)
<1> DEFINE missing == req.total - Len(written)
<1>1. c.data \in Seq(Nat) /\ Len(c.data) \in Nat /\ missing \in Int
  BY DEF TypeOK, ReceiverTypeOK, Req, Chunk
<1>2. CASE Len(c.data) <= missing
  BY <1>1, <1>2, Zenon DEF Piece
<1>3. CASE ~(Len(c.data) <= missing)
  <2>1. SubSeq(c.data, 1, missing) \in Seq(Nat)
    BY <1>1, <1>3, SMTT(20)
  <2> QED BY <1>1, <1>3, <2>1, Zenon DEF Piece
<1> QED BY <1>2, <1>3, Zenon

\* Recording progress keeps the history's type.
LEMMA RecordStoredType ==
    ASSUME TypeOK, NEW n \in Nat, RecordStored(n)
    PROVE  stored' \in [Ids -> Nat]
  BY Zenon DEF RecordStored, TypeOK, ReceiverTypeOK, Req

\* Every step of recv_file keeps the types.
LEMMA ReceiverType == TypeOK /\ Receiver /\ UNCHANGED senderVars => TypeOK'
<1> SUFFICES ASSUME TypeOK, Receiver, UNCHANGED senderVars
             PROVE  TypeOK'
  BY Zenon
<1> USE WireAssumption, ReceiverAssumption
<1>s. SenderTypeOK'
  BY Zenon DEF TypeOK, SenderTypeOK, senderVars
<1>z. NoReq \in Req /\ NoReply \in Ack /\ <<>> \in Seq(Nat)
  BY DEF NoReq, NoReply, Req, Ack, AckKinds, Ids
<1>t. /\ req \in Req /\ req.id \in Ids
      /\ written \in Seq(Nat) /\ Len(written) \in Nat
      /\ lastProgress \in Nat
      /\ committed \subseteq [id : Ids, file : Seq(Nat)]
  BY DEF TypeOK, ReceiverTypeOK, Req
<1>1. CASE RecvFile
  BY <1>1, <1>s DEF RecvFile, TypeOK, WireTypeOK, ReceiverTypeOK, wireVars
<1>2. CASE TakeReq
  <2>1. Head(reqQ) \in Req /\ WireTypeOK'
    BY <1>2 DEF TakeReq, TypeOK, WireTypeOK, Fault
  <2>2. FileAck(Head(reqQ).id, "reject", 0, 0) \in Ack
    BY <2>1, Zenon DEF FileAck, Ack, AckKinds, Req
  <2>3. FileAck(Head(reqQ).id, "accept", 0, Negotiate(Head(reqQ))) \in Ack
    BY <2>1, NegotiateType, Zenon DEF FileAck, Ack, AckKinds, Req
  <2>4. req' \in Req /\ written' \in Seq(Nat) /\ lastProgress' \in Nat
    <3>1. req' \in Req
      BY <1>2, <1>t, <1>z, <2>1, Zenon DEF TakeReq, Leave
    <3>2. written' \in Seq(Nat)
      BY <1>2, <1>t, <1>z, <2>1, Zenon DEF TakeReq, Leave
    <3>3. lastProgress' \in Nat
      BY <1>2, <1>t, <1>z, <2>1 DEF TakeReq, Leave
    <3> QED BY <3>1, <3>2, <3>3, Zenon
  <2>5. reply' \in Ack
    BY <1>2, <1>z, <2>2, <2>3, Zenon DEF TakeReq, Leave
  <2>6. ReceiverTypeOK'
    BY <1>2, <2>4, <2>5, Zenon DEF TakeReq, Leave, TypeOK, ReceiverTypeOK
  <2> QED BY <1>s, <2>1, <2>6, Zenon DEF TypeOK
<1>3. CASE SendReply
  <2>1. WireTypeOK'
    BY <1>3, TransmitType
       DEF SendReply, Transmit, Fault, TypeOK, WireTypeOK, ReceiverTypeOK,
           Abort
  <2>2. req' \in Req /\ written' \in Seq(Nat) /\ lastProgress' \in Nat
    <3>1. req' \in Req
      BY <1>3, <1>t, <1>z, Zenon DEF SendReply, Replied, Leave, Abort
    <3>2. written' \in Seq(Nat)
      BY <1>3, <1>t, <1>z, Zenon DEF SendReply, Replied, Leave, Abort
    <3>3. lastProgress' \in Nat
      BY <1>3, <1>t, <1>z DEF SendReply, Replied, Leave, Abort
    <3> QED BY <3>1, <3>2, <3>3, Zenon
  <2>3. ReceiverTypeOK'
    BY <1>3, <1>z, <2>2, Zenon DEF SendReply, Replied, Leave, TypeOK, ReceiverTypeOK,
                            Abort
  <2> QED BY <1>s, <2>1, <2>3, Zenon DEF TypeOK
<1>4. CASE CommitEmpty
  <2>1. FileAck(req.id, "abort", 0, 0) \in Ack
    BY Zenon DEF FileAck, Ack, AckKinds, TypeOK, ReceiverTypeOK, Req
  <2>2. WireTypeOK'
    BY <1>4 DEF CommitEmpty, Commit, Fault, TypeOK, WireTypeOK, HashMatches
  <2>3. req' \in Req /\ written' \in Seq(Nat) /\ lastProgress' \in Nat
    <3>1. req' \in Req
      BY <1>4, <1>t, <1>z, Zenon DEF CommitEmpty, Leave, HashMatches
    <3>2. written' \in Seq(Nat)
      BY <1>4, <1>t, <1>z, Zenon DEF CommitEmpty, Leave, HashMatches
    <3>3. lastProgress' \in Nat
      BY <1>4, <1>t, <1>z DEF CommitEmpty, Leave, HashMatches
    <3> QED BY <3>1, <3>2, <3>3, Zenon
  <2>4. reply' \in Ack
    BY <1>4, <1>z, <2>1, Zenon DEF CommitEmpty, Leave, Prepare, HashMatches
  <2>5. committed' \subseteq [id : Ids, file : Seq(Nat)]
    BY <1>4, <1>z DEF CommitEmpty, Commit, TypeOK, ReceiverTypeOK, Req,
                      HashMatches
  <2>6. ReceiverTypeOK'
    BY <1>4, <2>3, <2>4, <2>5, Zenon
       DEF CommitEmpty, Commit, Leave, Abort, Prepare, TypeOK, ReceiverTypeOK,
           HashMatches
  <2> QED BY <1>s, <2>2, <2>6, Zenon DEF TypeOK
<1>5. CASE RecvChunk
  <2> DEFINE c == Head(chunkQ)
             w == written \o Piece(c)
  <2>1. c \in Chunk /\ chunkQ' \in Seq(Chunk)
    BY <1>5 DEF RecvChunk, TakeChunk, TypeOK, WireTypeOK
  <2>2. w \in Seq(Nat) /\ Len(w) \in Nat
    BY <2>1, PieceType DEF TypeOK, ReceiverTypeOK
  <2> HIDE DEF c, w
  <2>3. /\ FileAck(req.id, "abort", Len(written), 0) \in Ack
        /\ FileAck(req.id, "ack", Len(written), 0) \in Ack
        /\ FileAck(req.id, "ack", Len(w), 0) \in Ack
        /\ FileAck(req.id, "complete", req.total, 0) \in Ack
        /\ FileAck(req.id, "abort", req.total, 0) \in Ack
    BY <2>2 DEF FileAck, Ack, AckKinds, TypeOK, ReceiverTypeOK, Req
  <2>4. CASE ChunkTooLarge(c)
    BY <1>5, <1>s, <2>1, <2>3, <2>4, Zenon
       DEF RecvChunk, TakeChunk, ChunkTooLarge, Abort, Prepare, TypeOK,
           WireTypeOK, ReceiverTypeOK
  <2>5. CASE ChunkOutOfOrder(c)
    BY <1>5, <1>s, <2>1, <2>3, <2>5, Zenon
       DEF RecvChunk, TakeChunk, ChunkOutOfOrder, Prepare, TypeOK,
           WireTypeOK, ReceiverTypeOK
  <2>6. CASE WriteFails(c)
    <3>1. faults' \in 0..MaxFaults
      BY <2>6, FaultType, Zenon DEF WriteFails, TypeOK
    <3>2. lastProgress' \in Nat
      <4>1. lastProgress' = 0
        BY <2>6, Zenon DEF WriteFails, Leave
      <4> QED BY ONLY <4>1
    <3>3. WireTypeOK'
      BY <1>5, <2>1, <3>1, Zenon DEF RecvChunk, TakeChunk, TypeOK, WireTypeOK
    <3>4. ReceiverTypeOK'
      BY <1>5, <1>z, <2>6, <3>2, Zenon
         DEF RecvChunk, TakeChunk, WriteFails, Abort, Leave, TypeOK,
             ReceiverTypeOK
    <3> QED BY <1>s, <3>3, <3>4, Zenon DEF TypeOK
  <2>7. CASE WriteMiddle(c)
    <3>1. stored' \in [Ids -> Nat]
      BY <2>2, <2>7, RecordStoredType, Zenon DEF WriteMiddle, w
    <3>2. /\ written' = w
          /\ \/ /\ rpc' = "reply"
                /\ reply' = FileAck(req.id, "ack", Len(w), 0)
             \/ UNCHANGED <<rpc, reply>>
          /\ UNCHANGED <<req, lastProgress, store, committed, faults>>
      BY <2>7, Zenon DEF WriteMiddle, Prepare, w
    <3> QED
      BY <1>5, <1>s, <2>1, <2>2, <2>3, <3>1, <3>2, Zenon
         DEF RecvChunk, TakeChunk, TypeOK, WireTypeOK, ReceiverTypeOK
  <2>8. CASE WriteLast(c)
    <3>1. stored' \in [Ids -> Nat]
      BY <2>2, <2>8, RecordStoredType, Zenon DEF WriteLast, w, HashMatches
    <3>2. req' \in Req /\ written' \in Seq(Nat) /\ lastProgress' \in Nat
      <4>1. req' \in Req
        BY <1>t, <1>z, <2>2, <2>8, Zenon DEF WriteLast, Leave, w, HashMatches
      <4>2. written' \in Seq(Nat)
        BY <1>t, <1>z, <2>2, <2>8, Zenon DEF WriteLast, Leave, w, HashMatches
      <4>3. lastProgress' \in Nat
        <5>1. lastProgress' = 0 \/ lastProgress' = lastProgress
          BY <2>8, Zenon DEF WriteLast, Leave, HashMatches
        <5> QED BY <1>t, <5>1
      <4> QED BY <4>1, <4>2, <4>3, Zenon
    <3>3. reply' \in Ack
      BY <1>z, <2>3, <2>8, Zenon DEF WriteLast, Leave, Prepare, HashMatches
    <3>4. committed' \subseteq [id : Ids, file : Seq(Nat)]
      <4>1. [id |-> req.id, file |-> w] \in [id : Ids, file : Seq(Nat)]
        BY <1>t, <2>2, Zenon
      <4>2. \/ committed' = committed
            \/ committed' = committed \cup {[id |-> req.id, file |-> w]}
        BY <2>8, Zenon DEF WriteLast, Commit, w, HashMatches
      <4> QED BY <1>t, <4>1, <4>2, Zenon
    <3>5. /\ rpc' \in {"idle", "reply"}
          /\ store' = "closed"
          /\ faults' = faults \/ (faults < MaxFaults /\ faults' = faults + 1)
      BY <2>8, Zenon DEF WriteLast, Commit, Fault, Prepare, Leave, Abort, HashMatches
    <3>6. ReceiverTypeOK'
      BY <1>5, <3>1, <3>2, <3>3, <3>4, <3>5, Zenon
         DEF RecvChunk, TakeChunk, TypeOK, ReceiverTypeOK
    <3>7. WireTypeOK'
      BY <1>5, <2>1, <3>5 DEF RecvChunk, TakeChunk, TypeOK, WireTypeOK
    <3> QED BY <1>s, <3>6, <3>7, Zenon DEF TypeOK
  <2> QED BY <1>5, <2>4, <2>5, <2>6, <2>7, <2>8, Zenon DEF RecvChunk, c
<1>6. CASE DiscardChunk
  BY <1>6, <1>s DEF DiscardChunk, receiverVars, TypeOK, WireTypeOK,
                    ReceiverTypeOK
<1>7. CASE ChunkTimeout
  BY <1>7, <1>s, <1>z, Zenon DEF ChunkTimeout, Abort, Leave, wireVars, TypeOK,
                          WireTypeOK, ReceiverTypeOK
<1> QED BY <1>1, <1>2, <1>3, <1>4, <1>5, <1>6, <1>7, Zenon DEF Receiver

\* Every variable of the two nodes and of the wire keeps its type.
THEOREM TypeCorrect == Spec => []TypeOK
<1>1. ASSUME TypeOK, [Next]_vars
      PROVE  TypeOK'
  <2>1. CASE UNCHANGED vars
    BY <1>1, <2>1, Zenon
       DEF vars, wireVars, senderVars, receiverVars, TypeOK, WireTypeOK,
           SenderTypeOK, ReceiverTypeOK
  <2> QED BY <1>1, <2>1, CallType, SenderType, ReceiverType, Zenon DEF Next
<1> QED BY <1>1, InitType, PTL DEF Spec

-------------------------------------------------------------------------------
(* The write handle *)

\* Every step of recv_file keeps the handle discipline.
LEMMA HandleStep ==
    ASSUME TypeOK, HandleDiscipline, Receiver
    PROVE  HandleDiscipline'
<1> USE DEF HandleDiscipline
<1>1. CASE RecvFile
  BY <1>1, Zenon DEF RecvFile
<1>2. CASE TakeReq
  <2>1. store # "open"
    BY <1>2, Zenon DEF TakeReq
  <2>2. \/ rpc' = "reply" /\ reply'.kind = "reject" /\ store' = store
        \/ rpc' = "reply" /\ reply'.kind = "accept" /\ store' = "open"
        \/ rpc' = "idle" /\ store' = store
    BY <1>2 DEF TakeReq, Leave, FileAck
  <2> QED BY <2>1, <2>2, Zenon
<1>3. CASE SendReply
  BY <1>3, Zenon DEF SendReply, Replied, Leave, Abort
<1>4. CASE CommitEmpty
  BY <1>4 DEF CommitEmpty, Commit, Leave, Abort, Prepare, FileAck, HashMatches
<1>5. CASE RecvChunk
  <2> DEFINE c == Head(chunkQ)
  <2>1. CASE ChunkTooLarge(c)
    BY <2>1, Zenon DEF ChunkTooLarge, Abort, Prepare, FileAck
  <2>2. CASE ChunkOutOfOrder(c)
    BY <1>5, <2>2, Zenon DEF RecvChunk, TakeChunk, ChunkOutOfOrder, Prepare, FileAck
  <2>3. CASE WriteFails(c)
    BY <2>3, Zenon DEF WriteFails, Abort, Leave
  <2>4. CASE WriteMiddle(c)
    <3>1. store' = "open"
      BY <1>5, <2>4, Zenon DEF RecvChunk, TakeChunk, WriteMiddle
    <3>2. rpc' = "chunks" \/ (rpc' = "reply" /\ reply'.kind = "ack")
      BY <1>5, <2>4 DEF RecvChunk, TakeChunk, WriteMiddle, Prepare, FileAck
    <3> QED BY <3>1, <3>2, Zenon
  <2>5. CASE WriteLast(c)
    <3>1. store' = "closed"
      BY <2>5, Zenon DEF WriteLast, Commit, Abort, HashMatches
    <3>2. \/ rpc' = "idle"
          \/ rpc' = "reply" /\ reply'.kind \in {"complete", "abort"}
      <4>1. \/ rpc' = "idle"
            \/ /\ rpc' = "reply"
               /\ \/ reply' = FileAck(req.id, "complete", req.total, 0)
                  \/ reply' = FileAck(req.id, "abort", req.total, 0)
        BY <2>5, Zenon DEF WriteLast, Prepare, Leave, HashMatches
      <4> QED BY <4>1 DEF FileAck
    <3> QED BY <3>1, <3>2, Zenon
  <2> QED BY <1>5, <2>1, <2>2, <2>3, <2>4, <2>5, Zenon DEF RecvChunk
<1>6. CASE DiscardChunk
  BY <1>6, Zenon DEF DiscardChunk, receiverVars
<1>7. CASE ChunkTimeout
  BY <1>7, Zenon DEF ChunkTimeout, Abort, Leave
<1> QED BY <1>1, <1>2, <1>3, <1>4, <1>5, <1>6, <1>7, Zenon DEF Receiver

\* No return of recv_file leaves a write handle behind, and no handle is
\* committed or aborted twice.
THEOREM HandleDisciplined == Spec => []HandleDiscipline
<1>1. Init => HandleDiscipline
  BY Zenon DEF Init, ReceiverInit, HandleDiscipline
<1>2. ASSUME TypeOK, HandleDiscipline, [Next]_vars
      PROVE  HandleDiscipline'
  <2>1. CASE UNCHANGED receiverVars
    BY <1>2, <2>1, Zenon DEF receiverVars, HandleDiscipline
  <2> QED BY <1>2, <2>1, HandleStep, Zenon DEF Next, vars
<1> QED BY <1>1, <1>2, TypeCorrect, PTL DEF Spec

-------------------------------------------------------------------------------
(* What is committed was offered *)

Offered(id, file) == [id |-> id, file |-> file] \in offered

\* Every request under way, and the one being served, announces a file that
\* some call offered under that id.
RequestsAreOffers ==
    /\ \A i \in DOMAIN reqQ :
          reqQ[i].valid => /\ Offered(reqQ[i].id, reqQ[i].hash)
                           /\ reqQ[i].total = Len(reqQ[i].hash)
    /\ store = "open" => /\ Offered(req.id, req.hash)
                         /\ req.total = Len(req.hash)
    /\ spc # "idle" => Offered(sid, sfile)
    /\ committed \subseteq offered

\* What a queue holds after a message was sent.
LEMMA SentElems ==
    ASSUME NEW S, NEW q \in Seq(S), NEW m \in S, NEW q1,
           q1 = Append(q, m) \/ q1 = q \/ q1 \in {q, Append(q, m)}
    PROVE  \A i \in DOMAIN q1 : (i \in DOMAIN q /\ q1[i] = q[i]) \/ q1[i] = m
  OBVIOUS

\* What a queue holds after its head was taken.
LEMMA TakenElems ==
    ASSUME NEW S, NEW q \in Seq(S), q # <<>>
    PROVE  /\ 1 \in DOMAIN q /\ Head(q) = q[1]
           /\ \A i \in DOMAIN Tail(q) : i + 1 \in DOMAIN q /\ Tail(q)[i] = q[i + 1]
  OBVIOUS

\* A started call and the requests it sends are recorded as offers.
LEMMA CallOffers ==
    ASSUME TypeOK, RequestsAreOffers, Call, UNCHANGED receiverVars
    PROVE  RequestsAreOffers'
<1> USE DEF Offered
<1>b. ASSUME NEW id, NEW n, NEW file, NEW c, Begin(id, n, file, c)
      PROVE  RequestsAreOffers'
  BY <1>b, Zenon DEF Begin, RequestsAreOffers, wireVars, receiverVars
<1>3. ASSUME NEW id \in BareIds, NEW file \in Files, SendBareReq(id, file)
      PROVE  RequestsAreOffers'
  <2> DEFINE m == FileReqValue(id, file)
  <2>1. m \in Req /\ ~m.valid
    BY WireAssumption, SenderAssumption DEF FileReqValue, Req
  <2>2. \A i \in DOMAIN reqQ' :
            (i \in DOMAIN reqQ /\ reqQ'[i] = reqQ[i]) \/ reqQ'[i] = m
    BY <1>3, <2>1, SentElems DEF SendBareReq, Transmit, TypeOK, WireTypeOK
  <2> HIDE DEF m
  <2> QED BY <1>3, <2>1, <2>2, Zenon
             DEF SendBareReq, RequestsAreOffers, receiverVars
<1> QED BY <1>b, <1>3, Zenon DEF Call, SendFile, SendFileWithId

\* Every step of a transfer at the sender keeps requests being offers.
LEMMA SenderOffers ==
    ASSUME TypeOK, RequestsAreOffers, Sender, UNCHANGED receiverVars
    PROVE  RequestsAreOffers'
<1> USE DEF Offered
<1>1. CASE SendOffer
  <2> DEFINE m == FileOffer(sid, sfile, scfg.smax)
  <2>1. /\ m \in Req
        /\ m.id = sid /\ m.hash = sfile /\ m.total = Len(sfile)
    <3>1. sid \in Ids /\ sfile \in Files /\ scfg \in SendConfigs \cup {NoConfig}
      BY <1>1, Zenon DEF SendOffer, TypeOK, SenderTypeOK
    <3>2. sfile \in Seq(Nat) /\ Len(sfile) \in Nat
      BY <3>1, WireAssumption
    <3>3. scfg.smax \in Nat
      BY <3>1, SenderAssumption DEF NoConfig
    <3> QED BY <3>1, <3>2, <3>3, Zenon DEF FileOffer, Req
  <2>2. \A i \in DOMAIN reqQ' :
            (i \in DOMAIN reqQ /\ reqQ'[i] = reqQ[i]) \/ reqQ'[i] = m
    BY <1>1, <2>1, SentElems DEF SendOffer, Transmit, TypeOK, WireTypeOK
  <2>3. offered' = offered
    BY <1>1, Zenon DEF SendOffer, Return
  <2>4. spc' # "idle" => sid' = sid /\ sfile' = sfile /\ spc # "idle"
    BY <1>1, Zenon DEF SendOffer, Return
  <2> HIDE DEF m
  <2> QED BY <1>1, <2>1, <2>2, <2>3, <2>4, Zenon
             DEF SendOffer, RequestsAreOffers, receiverVars
<1>2. CASE ~SendOffer
  <2>1. UNCHANGED <<reqQ, offered>>
    BY <1>2, Zenon DEF Sender, OfferAck, TakeAck, OnAccept, OnOfferRefused,
                OnStrayProgress, OfferTimeout, SendChunk, StreamAck,
                OnProgress, StreamTimeout, DiscardAck, Return, wireVars,
                senderVars, GiveUp, GoBack
  <2>2. spc' # "idle" => sid' = sid /\ sfile' = sfile /\ spc # "idle"
    BY <1>2, Zenon DEF Sender, OfferAck, TakeAck, OnAccept, OnOfferRefused,
                OnStrayProgress, OfferTimeout, SendChunk, StreamAck,
                OnProgress, StreamTimeout, DiscardAck, AwaitingAck, Return,
                senderVars, GiveUp, GoBack
  <2> QED BY <2>1, <2>2, Zenon DEF RequestsAreOffers, receiverVars
<1> QED BY <1>1, <1>2, Zenon

\* A step of recv_file that leaves the request queue alone, commits nothing
\* and opens no handle keeps requests being offers.
LEMMA QuietReceiver ==
    ASSUME RequestsAreOffers, UNCHANGED senderVars, UNCHANGED <<reqQ, committed>>,
           store' = "open" => store = "open" /\ UNCHANGED req
    PROVE  RequestsAreOffers'
  BY Zenon DEF RequestsAreOffers, Offered, senderVars

\* Every step of recv_file keeps requests being offers.
LEMMA ReceiverOffers ==
    ASSUME TypeOK, HandleDiscipline, RequestsAreOffers, Receiver,
           UNCHANGED senderVars
    PROVE  RequestsAreOffers'
<1>1. CASE RecvFile
  BY <1>1, QuietReceiver, Zenon DEF RecvFile, wireVars
<1>2. CASE TakeReq
  <2>1. /\ 1 \in DOMAIN reqQ /\ Head(reqQ) = reqQ[1]
        /\ \A i \in DOMAIN reqQ' : i + 1 \in DOMAIN reqQ /\ reqQ'[i] = reqQ[i + 1]
    BY <1>2, TakenElems, Zenon DEF TakeReq, TypeOK, WireTypeOK
  <2>2. store = "closed"
    BY <1>2, Zenon DEF TakeReq, HandleDiscipline, TypeOK, ReceiverTypeOK
  <2>3. store' = "open" => req' = Head(reqQ) /\ Head(reqQ).valid
    BY <1>2, <2>2, Zenon DEF TakeReq, Rejected
  <2>4. UNCHANGED committed
    BY <1>2, Zenon DEF TakeReq
  <2> QED BY <2>1, <2>3, <2>4, Zenon DEF RequestsAreOffers, Offered, senderVars
<1>3. CASE SendReply
  <2>1. store' = "open" => store = "open" /\ UNCHANGED req
    BY <1>3, Zenon DEF SendReply, Replied, HandleDiscipline, Abort
  <2> QED BY <1>3, <2>1, QuietReceiver, Zenon DEF SendReply, Abort
<1>4. CASE CommitEmpty
  <2>1. store = "open" /\ store' = "closed"
    BY <1>4, Zenon DEF CommitEmpty, HandleDiscipline, Commit, Abort, HashMatches
  <2>2. \/ committed' = committed
        \/ /\ req.hash = <<>>
           /\ committed' = committed \cup {[id |-> req.id, file |-> <<>>]}
    BY <1>4, Zenon DEF CommitEmpty, Commit, HashMatches
  <2> QED BY <1>4, <2>1, <2>2, Zenon
             DEF CommitEmpty, RequestsAreOffers, Offered, senderVars,
                 HashMatches
<1>5. CASE RecvChunk
  <2> DEFINE c == Head(chunkQ)
  <2>1. store = "open" /\ UNCHANGED reqQ
    BY <1>5, Zenon DEF RecvChunk, TakeChunk, HandleDiscipline
  <2>2. CASE WriteLast(c)
    <3>1. store' = "closed"
      BY <2>2, Zenon DEF WriteLast, Commit, Abort, HashMatches
    <3>2. \/ committed' = committed
          \/ committed' = committed \cup {[id |-> req.id, file |-> req.hash]}
      BY <2>2, Zenon DEF WriteLast, Commit, HashMatches
    <3> QED BY <2>1, <3>1, <3>2, Zenon DEF RequestsAreOffers, Offered, senderVars
  <2>3. CASE ~WriteLast(c)
    <3>1. UNCHANGED committed
      BY <1>5, <2>3, Zenon DEF RecvChunk, ChunkTooLarge, ChunkOutOfOrder, WriteFails,
                        WriteMiddle
    <3>2. store' = "open" => UNCHANGED req
      BY <1>5, <2>3, Zenon DEF RecvChunk, ChunkTooLarge, ChunkOutOfOrder, WriteFails,
                        WriteMiddle, Abort
    <3> QED BY <2>1, <3>1, <3>2, QuietReceiver, Zenon
  <2> QED BY <2>2, <2>3, Zenon
<1>6. CASE DiscardChunk
  BY <1>6, QuietReceiver, Zenon DEF DiscardChunk, receiverVars
<1>7. CASE ChunkTimeout
  BY <1>7, QuietReceiver, Zenon DEF ChunkTimeout, Abort, wireVars
<1> QED BY <1>1, <1>2, <1>3, <1>4, <1>5, <1>6, <1>7, Zenon DEF Receiver

\* RequestsAreOffers is an invariant: the three groups of steps keep it.
LEMMA RequestsInvariant == Spec => []RequestsAreOffers
<1>1. Init => RequestsAreOffers
  BY DEF Init, WireInit, SenderInit, ReceiverInit, RequestsAreOffers
<1>2. ASSUME TypeOK, HandleDiscipline, RequestsAreOffers, [Next]_vars
      PROVE  RequestsAreOffers'
  <2>1. CASE UNCHANGED vars
    BY <1>2, <2>1, Zenon DEF vars, wireVars, senderVars, receiverVars,
                      RequestsAreOffers, Offered
  <2> QED BY <1>2, <2>1, CallOffers, SenderOffers, ReceiverOffers, Zenon DEF Next
<1> QED BY <1>1, <1>2, TypeCorrect, HandleDisciplined, PTL DEF Spec

\* The receiver commits nothing but what some call offered under that id,
\* whether or not ids are used again.
THEOREM CommitsAreOffers == Spec => []CommitIntegrity
<1>1. RequestsAreOffers => CommitIntegrity
  BY Zenon DEF RequestsAreOffers, CommitIntegrity
<1> QED BY <1>1, RequestsInvariant, PTL

-------------------------------------------------------------------------------
(* Acknowledgements *)

\* What makes AckAfterWrite inductive: the acks about to be sent and the
\* receiver's own count are covered by writes too.
WritesCoverAcks ==
    /\ AckAfterWrite
    /\ spc # "stream" => lastAcked = 0
    /\ store = "open" => Len(written) <= stored[req.id]
    /\ rpc \in {"idle", "req", "empty"} => written = <<>>
    /\ rpc = "reply" =>
          /\ reply.kind \in {"accept", "reject"} => written = <<>>
          /\ reply.kind \in {"ack", "complete"} => reply.next <= stored[reply.id]

\* What an ack says is what it was made with.
LEMMA AckKind ==
    ASSUME NEW id, NEW kind, NEW next, NEW chunk
    PROVE  FileAck(id, kind, next, chunk).kind = kind
BY Zenon DEF FileAck

\* A request is answered with an accept or a reject, if it is answered.
LEMMA ReqReply ==
    ASSUME TakeReq
    PROVE  /\ rpc' \in {"idle", "reply"}
           /\ rpc' = "reply" => reply'.kind \in {"accept", "reject"}
<1> DEFINE r == Head(reqQ)
<1>1. \/ rpc' = "reply" /\ reply' = FileAck(r.id, "reject", 0, 0)
      \/ rpc' = "reply" /\ reply' = FileAck(r.id, "accept", 0, Negotiate(r))
      \/ rpc' = "idle"
  BY Zenon DEF TakeReq, Leave
<1> HIDE DEF r
<1> QED BY <1>1, AckKind

\* A call that starts to send keeps acks behind writes.
LEMMA CallCover ==
    ASSUME TypeOK, WritesCoverAcks, Call, UNCHANGED receiverVars
    PROVE  WritesCoverAcks'
<1>1. UNCHANGED <<ackQ, lastAcked, stored>>
  BY Zenon DEF Call, SendFile, SendFileWithId, SendBareReq, Begin, wireVars,
         receiverVars
<1>2. \/ spc = "idle" /\ spc' \in {"idle", "offer"} /\ lastAcked = 0
      \/ UNCHANGED <<spc, sid>>
  BY Zenon DEF Call, SendFile, SendFileWithId, SendBareReq, Begin, WritesCoverAcks
<1>3. sid' \in Ids
  BY CallType, Zenon DEF TypeOK, SenderTypeOK
<1>4. stored \in [Ids -> Nat]
  BY Zenon DEF TypeOK, ReceiverTypeOK
<1> QED BY <1>1, <1>2, <1>3, <1>4
           DEF WritesCoverAcks, AckAfterWrite, receiverVars

\* The sender takes last_acked from acks only, so it keeps acks behind
\* writes.
LEMMA SenderCover ==
    ASSUME TypeOK, WritesCoverAcks, Sender, UNCHANGED receiverVars
    PROVE  WritesCoverAcks'
<1>t. stored \in [Ids -> Nat] /\ sid \in Ids /\ ackQ \in Seq(Ack)
  BY Zenon DEF TypeOK, ReceiverTypeOK, SenderTypeOK, WireTypeOK
<1>q. ackQ' = ackQ \/ (ackQ # <<>> /\ ackQ' = Tail(ackQ))
  BY Zenon DEF Sender, SendOffer, OfferAck, TakeAck, OfferTimeout, SendChunk,
         StreamAck, StreamTimeout, DiscardAck, wireVars, GiveUp, GoBack
<1>a. \A i \in DOMAIN ackQ' :
          ackQ'[i].kind \in {"ack", "complete"} =>
              ackQ'[i].next <= stored[ackQ'[i].id]
  <2>1. \A i \in DOMAIN ackQ' : \E j \in DOMAIN ackQ : ackQ'[i] = ackQ[j]
    BY <1>t, <1>q, TakenElems
  <2> QED BY <2>1, Zenon DEF WritesCoverAcks, AckAfterWrite
<1>l. /\ spc' # "stream" => lastAcked' = 0
      /\ spc' # "idle" => lastAcked' <= stored[sid']
  <2>1. CASE OnProgress(Head(ackQ)) /\ StreamAck
    <3>1. /\ ackQ # <<>> /\ Head(ackQ) = ackQ[1] /\ 1 \in DOMAIN ackQ
          /\ ackQ[1].id = sid
          /\ ackQ[1].kind \in {"ack", "complete"}
      BY <1>t, <2>1, TakenElems, Zenon DEF StreamAck, TakeAck, OnProgress
    <3>2. ackQ[1].next <= stored[sid]
      BY <3>1, Zenon DEF WritesCoverAcks, AckAfterWrite
    <3>3. \/ spc' = "idle" /\ lastAcked' = 0
          \/ spc' = "stream" /\ lastAcked' = ackQ[1].next /\ sid' = sid
      BY <2>1, <3>1, Zenon DEF StreamAck, OnProgress, Return
    <3> QED BY <3>2, <3>3, Zenon
  <2>2. CASE ~(OnProgress(Head(ackQ)) /\ StreamAck)
    <3>1. \/ spc' = "idle" /\ lastAcked' = 0
          \/ lastAcked' = 0 /\ sid' = sid
          \/ UNCHANGED <<spc, lastAcked, sid>>
          \/ spc # "stream" /\ UNCHANGED <<lastAcked, sid>>
      BY <2>2, Zenon DEF Sender, SendOffer, OfferAck, OnAccept, OnOfferRefused,
                  OnStrayProgress, OfferTimeout, SendChunk, StreamAck,
                  StreamTimeout, DiscardAck, Return, senderVars, GiveUp, GoBack
    <3> QED BY <1>t, <3>1 DEF WritesCoverAcks, AckAfterWrite
  <2> QED BY <2>1, <2>2, Zenon
<1> QED BY <1>a, <1>l, Zenon DEF WritesCoverAcks, AckAfterWrite, receiverVars

\* Recording a write only raises the count, and covers the write.
LEMMA StoredGrows ==
    ASSUME TypeOK, NEW n \in Nat, RecordStored(n)
    PROVE  /\ \A id \in Ids : stored[id] <= stored'[id]
           /\ n <= stored'[req.id]
  BY DEF RecordStored, TypeOK, ReceiverTypeOK, Req

\* Acks on their way stay covered while counts only grow.
LEMMA CoverKept ==
    ASSUME TypeOK, TypeOK', WritesCoverAcks, UNCHANGED senderVars,
           UNCHANGED ackQ, \A id \in Ids : stored[id] <= stored'[id]
    PROVE  AckAfterWrite' /\ (spc' # "stream" => lastAcked' = 0)
<1>1. ASSUME NEW i \in DOMAIN ackQ, ackQ[i].kind \in {"ack", "complete"}
      PROVE  ackQ[i].next <= stored'[ackQ[i].id]
  <2>1. ackQ[i] \in Ack
    BY DEF TypeOK, WireTypeOK
  <2>2. /\ ackQ[i].next \in Nat /\ ackQ[i].id \in Ids
        /\ stored[ackQ[i].id] \in Nat /\ stored'[ackQ[i].id] \in Nat
    BY <2>1, Zenon DEF Ack, TypeOK, ReceiverTypeOK
  <2> QED BY <1>1, <2>2 DEF WritesCoverAcks, AckAfterWrite
<1>2. spc # "idle" => lastAcked <= stored'[sid]
  <2>1. /\ lastAcked \in Nat /\ sid \in Ids
        /\ stored[sid] \in Nat /\ stored'[sid] \in Nat
    BY Zenon DEF TypeOK, SenderTypeOK, ReceiverTypeOK
  <2> QED BY <2>1 DEF WritesCoverAcks, AckAfterWrite
<1> QED BY <1>1, <1>2, Zenon DEF WritesCoverAcks, AckAfterWrite, senderVars

\* recv_file acknowledges its own count of written bytes, which it raises
\* after write_at.
LEMMA ReceiverCover ==
    ASSUME TypeOK, TypeOK', HandleDiscipline, WritesCoverAcks, Receiver,
           UNCHANGED senderVars
    PROVE  WritesCoverAcks'
<1>s. stored \in [Ids -> Nat] /\ req.id \in Ids
  BY Zenon DEF TypeOK, ReceiverTypeOK, Req
<1>w. /\ reqQ \in Seq(Req) /\ ackQ \in Seq(Ack) /\ reply \in Ack
      /\ written \in Seq(Nat) /\ Len(written) \in Nat
  BY DEF TypeOK, ReceiverTypeOK, WireTypeOK
<1>t. /\ stored \in [Ids -> Nat] /\ req.id \in Ids /\ reqQ \in Seq(Req)
      /\ written \in Seq(Nat) /\ Len(written) \in Nat /\ ackQ \in Seq(Ack)
      /\ reply \in Ack
      /\ \A id \in Ids : stored[id] <= stored[id]
  BY <1>s, <1>w
<1>1. CASE RecvFile
  BY <1>1, <1>t, CoverKept, Zenon DEF RecvFile, WritesCoverAcks, wireVars
<1>2. CASE TakeReq
  <2>1. written = <<>> /\ store = "closed"
    BY <1>2, Zenon DEF TakeReq, WritesCoverAcks, HandleDiscipline, TypeOK,
                ReceiverTypeOK
  <2>2. UNCHANGED <<ackQ, stored>> /\ written' = <<>>
    BY <1>2, <2>1, Zenon DEF TakeReq, Leave
  <2>3. /\ rpc' \in {"idle", "reply"}
        /\ rpc' = "reply" => reply'.kind \in {"accept", "reject"}
    BY <1>2, ReqReply, Zenon
  <2>4. req'.id \in Ids /\ stored'[req'.id] \in Nat
    BY Zenon DEF TypeOK, ReceiverTypeOK, Req
  <2> QED BY <1>t, <2>2, <2>3, <2>4, CoverKept DEF WritesCoverAcks
<1>3. CASE SendReply
  <2>1. UNCHANGED stored
    BY <1>3, Zenon DEF SendReply, Abort
  <2>2. \A i \in DOMAIN ackQ' :
            (i \in DOMAIN ackQ /\ ackQ'[i] = ackQ[i]) \/ ackQ'[i] = reply
    BY <1>3, <1>t, SentElems DEF SendReply, Transmit
  <2>3. AckAfterWrite' /\ (spc' # "stream" => lastAcked' = 0)
    BY <1>3, <2>1, <2>2, Zenon DEF SendReply, WritesCoverAcks, AckAfterWrite,
                            senderVars, Abort
  <2>4. \/ /\ rpc' = "idle" /\ written' = <<>>
           /\ store = "open" => \/ store' = "closed"
                                \/ reply.kind \in {"reject", "complete", "abort"}
           /\ store # "open" => store' = store
        \/ /\ rpc' \in {"empty", "chunks"} /\ UNCHANGED <<written, req, store>>
           /\ rpc' = "empty" => reply.kind = "accept"
    BY <1>3, Zenon DEF SendReply, Replied, Leave, Abort
  <2>5. store' = "open" => UNCHANGED <<written, req, store>>
    BY <1>3, <2>4, Zenon DEF SendReply, HandleDiscipline, Abort
  <2> QED BY <1>3, <2>1, <2>3, <2>4, <2>5, Zenon DEF SendReply, WritesCoverAcks, Abort
<1>4. CASE CommitEmpty
  <2>1. UNCHANGED <<ackQ, stored>> /\ store' = "closed" /\ written' = <<>>
    BY <1>4, Zenon DEF CommitEmpty, Commit, Abort, Leave, WritesCoverAcks, HashMatches
  <2>2. rpc' = "reply" => reply'.kind = "abort"
    BY <1>4 DEF CommitEmpty, Prepare, Leave, FileAck, HashMatches
  <2> QED BY <1>t, <2>1, <2>2, CoverKept, Zenon DEF WritesCoverAcks
<1>5. CASE RecvChunk
  <2> DEFINE c == Head(chunkQ)
             w == written \o Piece(c)
  <2>1. /\ UNCHANGED ackQ
        /\ Len(written) <= stored[req.id]
        /\ c \in Chunk
    BY <1>5 DEF RecvChunk, TakeChunk, WritesCoverAcks, HandleDiscipline,
                TypeOK, WireTypeOK
  <2>2. w \in Seq(Nat) /\ Len(w) \in Nat
    BY <1>t, <2>1, PieceType
  <2> HIDE DEF c, w
  <2>3. CASE ChunkTooLarge(c)
    <3>1. UNCHANGED stored /\ store' = "closed" /\ rpc' = "reply"
          /\ reply'.kind = "abort"
      BY <2>3, Zenon DEF ChunkTooLarge, Abort, Prepare, FileAck
    <3> QED BY <1>t, <2>1, <3>1, CoverKept, Zenon DEF WritesCoverAcks
  <2>4. CASE ChunkOutOfOrder(c)
    <3>1. /\ UNCHANGED <<stored, written, req>>
          /\ rpc' = "reply" /\ reply'.kind = "ack"
          /\ reply'.id = req.id /\ reply'.next = Len(written)
      BY <2>4, Zenon DEF ChunkOutOfOrder, Prepare, FileAck
    <3> QED BY <1>t, <2>1, <3>1, CoverKept, Zenon DEF WritesCoverAcks
  <2>5. CASE WriteFails(c)
    <3>1. /\ UNCHANGED stored /\ store' = "closed"
          /\ rpc' = "idle" /\ written' = <<>>
      BY <2>5, Zenon DEF WriteFails, Abort, Leave
    <3> QED BY <1>t, <2>1, <3>1, CoverKept, Zenon DEF WritesCoverAcks
  <2>6. CASE WriteMiddle(c)
    <3>1. /\ RecordStored(Len(w)) /\ written' = w /\ UNCHANGED req
          /\ \/ rpc' = "reply" /\ reply' = FileAck(req.id, "ack", Len(w), 0)
             \/ rpc' = "chunks"
      BY <1>5, <2>6, Zenon DEF RecvChunk, TakeChunk, WriteMiddle, Prepare, w
    <3>2. /\ \A id \in Ids : stored[id] <= stored'[id]
          /\ Len(w) <= stored'[req.id]
      BY <2>2, <3>1, StoredGrows, Zenon
    <3>3. AckAfterWrite' /\ (spc' # "stream" => lastAcked' = 0)
      BY <1>t, <2>1, <3>2, CoverKept, Zenon
    <3>4. Len(written') <= stored'[req'.id] /\ rpc' \in {"reply", "chunks"}
      BY <3>1, <3>2, Zenon
    <3>5. rpc' = "reply" =>
             /\ reply'.kind \notin {"accept", "reject"}
             /\ reply'.next <= stored'[reply'.id]
      BY <3>1, <3>2 DEF FileAck
    <3> QED BY <3>3, <3>4, <3>5, Zenon DEF WritesCoverAcks
  <2>7. CASE WriteLast(c)
    <3>1. /\ RecordStored(Len(w)) /\ Len(w) >= req.total /\ store' = "closed"
      BY <2>7, Zenon DEF WriteLast, Commit, Abort, w, HashMatches
    <3>2. /\ \A id \in Ids : stored[id] <= stored'[id]
          /\ Len(w) <= stored'[req.id]
      BY <2>2, <3>1, StoredGrows, Zenon
    <3>3. \/ rpc' = "idle" /\ written' = <<>>
          \/ /\ rpc' = "reply"
             /\ \/ reply' = FileAck(req.id, "complete", req.total, 0)
                \/ reply' = FileAck(req.id, "abort", req.total, 0)
      BY <2>7, Zenon DEF WriteLast, Prepare, Leave, HashMatches
    <3>4. req.total \in Nat /\ stored'[req.id] \in Nat
      BY <1>t, Zenon DEF TypeOK, ReceiverTypeOK, Req
    <3>5. req.total <= stored'[req.id]
      BY <2>2, <3>1, <3>2, <3>4
    <3>6. AckAfterWrite' /\ (spc' # "stream" => lastAcked' = 0)
      BY <1>t, <2>1, <3>2, CoverKept, Zenon
    <3>7. rpc' = "reply" =>
             /\ reply'.kind \notin {"accept", "reject"}
             /\ reply'.next <= stored'[reply'.id]
      BY <3>3, <3>5 DEF FileAck
    <3>8. store' # "open" /\ (rpc' # "reply" => written' = <<>>)
      BY <3>1, <3>3, Zenon
    <3> QED BY <3>6, <3>7, <3>8, Zenon DEF WritesCoverAcks
  <2> QED BY <1>5, <2>3, <2>4, <2>5, <2>6, <2>7, Zenon DEF RecvChunk, c
<1>6. CASE DiscardChunk
  BY <1>6, <1>t, CoverKept, Zenon DEF DiscardChunk, receiverVars, WritesCoverAcks
<1>7. CASE ChunkTimeout
  BY <1>7, <1>t, CoverKept, Zenon DEF ChunkTimeout, Abort, Leave, wireVars,
                               WritesCoverAcks
<1> QED BY <1>1, <1>2, <1>3, <1>4, <1>5, <1>6, <1>7, Zenon DEF Receiver

\* WritesCoverAcks is an invariant.
LEMMA CoverInvariant == Spec => []WritesCoverAcks
<1>1. Init => WritesCoverAcks
  BY DEF Init, WireInit, SenderInit, ReceiverInit, WritesCoverAcks,
         AckAfterWrite
<1>2. ASSUME TypeOK, TypeOK', HandleDiscipline, WritesCoverAcks, [Next]_vars
      PROVE  WritesCoverAcks'
  <2>1. CASE UNCHANGED vars
    BY <1>2, <2>1, Zenon DEF vars, wireVars, senderVars, receiverVars,
                      WritesCoverAcks, AckAfterWrite
  <2> QED BY <1>2, <2>1, CallCover, SenderCover, ReceiverCover, Zenon DEF Next
<1> QED BY <1>1, <1>2, TypeCorrect, HandleDisciplined, PTL DEF Spec

\* No byte is acknowledged, on the wire or in the sender's last_acked, before
\* the write_at that stores it has returned.
THEOREM AcksFollowWrites == Spec => []AckAfterWrite
<1>1. WritesCoverAcks => AckAfterWrite
  BY Zenon DEF WritesCoverAcks
<1> QED BY <1>1, CoverInvariant, PTL
===============================================================================
