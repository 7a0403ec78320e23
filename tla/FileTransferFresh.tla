-------------------------- MODULE FileTransferFresh ---------------------------
(*****************************************************************************)
(* What fresh ids give: an Ok of send_file means that the file was committed, *)
(* what recv_file has written is a prefix of the file, and the sender meets  *)
(* no ack of what it has yet to send.  With or without them, the file        *)
(* transfer implements TransferService.                                      *)
(*****************************************************************************)
EXTENDS FileTransferService, FileTransferWrites, SequenceTheorems

(* Ok means committed *)

\* With new ids every id names one file.
IdsAreFresh ==
    FreshIds => /\ nextId <= sends + 1
                /\ \A o \in offered : o.id < nextId
                /\ \A o, p \in offered : o.id = p.id => o = p

\* A Complete speaks of a committed file, a progress ack of a file that is
\* not complete yet.
Justified(a) ==
    /\ a.kind = "complete" =>
          \E c \in committed : c.id = a.id /\ Len(c.file) = a.next
    /\ a.kind = "ack" => \E o \in offered : o.id = a.id /\ a.next < Len(o.file)

\* Every ack on its way or about to be sent is justified.
AcksAreJustified ==
    /\ \A i \in DOMAIN ackQ : Justified(ackQ[i])
    /\ rpc = "reply" => Justified(reply)
    /\ rpc = "chunks" \/ (rpc = "reply" /\ reply.kind = "ack") =>
          Len(written) < req.total

\* Only send_file takes an id, and with new ids it takes one nobody has.
LEMMA FreshStep ==
    ASSUME TypeOK, IdsAreFresh, Next
    PROVE  IdsAreFresh'
<1> SUFFICES ASSUME FreshIds
             PROVE  /\ nextId' <= sends' + 1
                    /\ \A o \in offered' : o.id < nextId'
                    /\ \A o, p \in offered' : o.id = p.id => o = p
  BY Zenon DEF IdsAreFresh, FreshIds
<1>t. nextId \in Nat /\ sends \in Nat /\ IdSpace \in Nat /\ MaxSends \in Nat
  BY WireAssumption, SenderAssumption DEF TypeOK, SenderTypeOK, Ids
<1>1. ASSUME NEW file \in Files, NEW c \in SendConfigs, SendFile(file, c)
      PROVE  /\ nextId' <= sends' + 1
             /\ \A o \in offered' : o.id < nextId'
             /\ \A o, p \in offered' : o.id = p.id => o = p
  <2>1. sends < MaxSends /\ sends' = sends + 1
    BY <1>1, Zenon DEF SendFile, Begin
  <2>2. nextId + 1 < IdSpace
    BY <1>t, <2>1 DEF IdsAreFresh, FreshIds
  <2>3. WrappingSucc(nextId) = nextId + 1
    BY <1>t, <2>2 DEF WrappingSucc
  <2>4. nextId' = nextId + 1
    BY <1>1, <1>t, <2>3, Zenon DEF SendFile, Begin, ObserveTransferId
  <2>5. \/ offered' = offered
        \/ offered' = offered \cup {[id |-> nextId, file |-> file]}
    BY <1>1, Zenon DEF SendFile, Begin
  <2>6. \A o \in offered : o.id \in Nat /\ o.id < nextId
    BY DEF TypeOK, SenderTypeOK, Ids, IdsAreFresh
  <2> QED BY <1>t, <2>1, <2>4, <2>5, <2>6 DEF IdsAreFresh
<1>2. CASE \E id \in BareIds, file \in Files : SendBareReq(id, file)
  BY <1>2, <1>t DEF SendBareReq, IdsAreFresh
<1>3. CASE Sender \/ (Receiver /\ UNCHANGED senderVars)
  <2>1. UNCHANGED <<nextId, sends, offered>>
    BY <1>3, Zenon DEF Sender, SendOffer, OfferAck, OnAccept, OnOfferRefused,
                OnStrayProgress, OfferTimeout, SendChunk, StreamAck,
                OnProgress, StreamTimeout, DiscardAck, Return, senderVars,
                GiveUp, GoBack
  <2> QED BY <2>1, Zenon DEF IdsAreFresh
<1> QED BY <1>1, <1>2, <1>3, Zenon DEF Next, Call, FreshIds

\* No step forgets an offer or a commit.
LEMMA HistoryGrows ==
    ASSUME Next
    PROVE  offered \subseteq offered' /\ committed \subseteq committed'
<1>1. CASE Call /\ UNCHANGED receiverVars
  BY <1>1, Zenon DEF Call, SendFile, SendFileWithId, SendBareReq, Begin, receiverVars
<1>2. CASE Sender /\ UNCHANGED receiverVars
  BY <1>2, Zenon DEF Sender, SendOffer, OfferAck, OnAccept, OnOfferRefused,
              OnStrayProgress, OfferTimeout, SendChunk, StreamAck, OnProgress,
              StreamTimeout, DiscardAck, Return, senderVars, receiverVars,
              GiveUp, GoBack
<1>3. CASE Receiver /\ UNCHANGED senderVars
  <2>1. committed \subseteq committed'
    BY <1>3, Zenon DEF Receiver, RecvFile, TakeReq, SendReply, CommitEmpty, Commit,
                RecvChunk, ChunkTooLarge, ChunkOutOfOrder, WriteFails,
                WriteMiddle, WriteLast, DiscardChunk, ChunkTimeout,
                receiverVars, HashMatches, Abort
  <2> QED BY <1>3, <2>1, Zenon DEF senderVars
<1> QED BY <1>1, <1>2, <1>3, Zenon DEF Next

\* Steps at the sender's node leave acks justified.
LEMMA SenderJustified ==
    ASSUME TypeOK, AcksAreJustified, Call \/ Sender, UNCHANGED receiverVars
    PROVE  AcksAreJustified'
<1>1. offered \subseteq offered' /\ committed \subseteq committed'
  BY HistoryGrows, Zenon DEF Next
<1>2. ackQ' = ackQ \/ (ackQ # <<>> /\ ackQ' = Tail(ackQ))
  BY Zenon DEF Call, SendFile, SendFileWithId, SendBareReq, Begin, Sender, SendOffer,
         OfferAck, TakeAck, OfferTimeout, SendChunk, StreamAck, StreamTimeout,
         DiscardAck, wireVars, GiveUp, GoBack
<1>3. \A i \in DOMAIN ackQ' : \E j \in DOMAIN ackQ : ackQ'[i] = ackQ[j]
  <2>1. ackQ \in Seq(Ack)
    BY Zenon DEF TypeOK, WireTypeOK
  <2> QED BY <1>2, <2>1, TakenElems
<1>4. (\A i \in DOMAIN ackQ : Justified(ackQ[i]))'
  <2>1. \A i \in DOMAIN ackQ' :
            \E j \in DOMAIN ackQ : ackQ'[i] = ackQ[j] /\ Justified(ackQ[j])
    BY <1>3, Zenon DEF AcksAreJustified
  <2> QED BY <1>1, <2>1 DEF Justified
<1>5. (rpc = "reply" => Justified(reply))'
  BY <1>1, Zenon DEF AcksAreJustified, Justified, receiverVars
<1> QED BY <1>4, <1>5, Zenon DEF AcksAreJustified, receiverVars

\* Steps of recv_file send only justified acks.
LEMMA ReceiverJustified ==
    ASSUME TypeOK, HandleDiscipline, RequestsAreOffers, WritesCoverAcks,
           AcksAreJustified, Receiver, UNCHANGED senderVars
    PROVE  AcksAreJustified'
<1>h. offered \subseteq offered' /\ committed \subseteq committed'
  BY HistoryGrows, Zenon DEF Next
<1>t. /\ written \in Seq(Nat) /\ Len(written) \in Nat /\ req.total \in Nat
      /\ ackQ \in Seq(Ack) /\ reply \in Ack
  BY DEF TypeOK, WireTypeOK, ReceiverTypeOK, Req
<1>k. UNCHANGED ackQ => (\A i \in DOMAIN ackQ : Justified(ackQ[i]))'
  BY <1>h, Zenon DEF AcksAreJustified, Justified
<1>1. CASE RecvFile
  BY <1>1, <1>k, Zenon DEF RecvFile, AcksAreJustified, wireVars
<1>2. CASE TakeReq
  <2>1. UNCHANGED ackQ
    BY <1>2, Zenon DEF TakeReq
  <2>2. /\ rpc' \in {"idle", "reply"}
        /\ rpc' = "reply" => reply'.kind \in {"accept", "reject"}
    BY <1>2, ReqReply, Zenon
  <2> QED BY <1>k, <2>1, <2>2, Zenon DEF AcksAreJustified, Justified
<1>3. CASE SendReply
  <2>1. \A i \in DOMAIN ackQ' :
            (i \in DOMAIN ackQ /\ ackQ'[i] = ackQ[i]) \/ ackQ'[i] = reply
    BY <1>3, <1>t, SentElems DEF SendReply, Transmit
  <2>2. \A i \in DOMAIN ackQ' :
            \/ i \in DOMAIN ackQ /\ ackQ'[i] = ackQ[i] /\ Justified(ackQ[i])
            \/ ackQ'[i] = reply /\ Justified(reply)
    BY <1>3, <2>1, Zenon DEF SendReply, AcksAreJustified, Abort
  <2>3. (\A i \in DOMAIN ackQ : Justified(ackQ[i]))'
    BY <1>h, <2>2, Zenon DEF Justified
  <2>4. /\ rpc' \in {"idle", "empty", "chunks"}
        /\ rpc' = "chunks" => /\ UNCHANGED <<written, req>>
                              /\ \/ reply.kind = "accept" /\ req.total # 0
                                 \/ reply.kind = "ack"
    BY <1>3, Zenon DEF SendReply, Replied, Leave, Abort
  <2>5. rpc' = "chunks" => Len(written') < req'.total
    BY <1>3, <1>t, <2>4 DEF SendReply, WritesCoverAcks, AcksAreJustified, Abort
  <2> QED BY <2>3, <2>4, <2>5, Zenon DEF AcksAreJustified
<1>4. CASE CommitEmpty
  <2>1. UNCHANGED ackQ /\ rpc' \in {"idle", "reply"}
    BY <1>4, Zenon DEF CommitEmpty, Leave, Prepare, HashMatches
  <2>2. rpc' = "reply" => reply'.kind = "abort"
    BY <1>4 DEF CommitEmpty, Leave, Prepare, FileAck, HashMatches
  <2> QED BY <1>k, <2>1, <2>2, Zenon DEF AcksAreJustified, Justified
<1>5. CASE RecvChunk
  <2> DEFINE c == Head(chunkQ)
             w == written \o Piece(c)
             o == [id |-> req.id, file |-> req.hash]
  <2>1. /\ UNCHANGED ackQ
        /\ o \in offered /\ o.id = req.id /\ o.file = req.hash
        /\ req.total = Len(req.hash)
        /\ Len(written) < req.total
        /\ rpc = "chunks"
    BY <1>5, Zenon DEF RecvChunk, TakeChunk, HandleDiscipline, RequestsAreOffers,
                Offered, AcksAreJustified
  <2> HIDE DEF c, w, o
  <2>2. CASE ChunkTooLarge(c)
    <3>1. rpc' = "reply" /\ reply'.kind = "abort"
      BY <2>2, Zenon DEF ChunkTooLarge, Prepare, FileAck
    <3> QED BY <1>k, <2>1, <3>1, Zenon DEF AcksAreJustified, Justified
  <2>3. CASE ChunkOutOfOrder(c)
    <3>1. /\ UNCHANGED <<written, req>>
          /\ rpc' = "reply" /\ reply'.kind = "ack"
          /\ reply'.id = req.id /\ reply'.next = Len(written)
      BY <2>3, Zenon DEF ChunkOutOfOrder, Prepare, FileAck
    <3>2. Justified(reply)'
      BY <1>h, <2>1, <3>1, Zenon DEF Justified
    <3> QED BY <1>k, <2>1, <3>1, <3>2, Zenon DEF AcksAreJustified
  <2>4. CASE WriteFails(c)
    BY <1>k, <2>1, <2>4, Zenon DEF WriteFails, Leave, AcksAreJustified
  <2>5. CASE WriteMiddle(c)
    <3>1. /\ Len(w) < req.total /\ written' = w /\ UNCHANGED req
          /\ \/ rpc' = "reply" /\ reply' = FileAck(req.id, "ack", Len(w), 0)
             \/ rpc' = "chunks"
      BY <2>1, <2>5, Zenon DEF WriteMiddle, Prepare, w
    <3>2. (rpc = "reply" => Justified(reply))'
      BY <1>h, <2>1, <3>1 DEF Justified, FileAck
    <3> QED BY <1>k, <2>1, <3>1, <3>2, Zenon DEF AcksAreJustified
  <2>6. CASE WriteLast(c)
    <3>1. \/ rpc' = "idle"
          \/ /\ rpc' = "reply"
             /\ \/ /\ reply' = FileAck(req.id, "complete", req.total, 0)
                   /\ [id |-> req.id, file |-> req.hash] \in committed'
                \/ reply' = FileAck(req.id, "abort", req.total, 0)
      BY <2>6, Zenon DEF WriteLast, Prepare, Leave, Commit, HashMatches
    <3>2. (rpc = "reply" => Justified(reply))'
      BY <2>1, <3>1 DEF Justified, FileAck, o
    <3>3. rpc' = "idle" \/ (rpc' = "reply" /\ reply'.kind # "ack")
      BY <3>1 DEF FileAck
    <3> QED BY <1>k, <2>1, <3>2, <3>3, Zenon DEF AcksAreJustified
  <2> QED BY <1>5, <2>2, <2>3, <2>4, <2>5, <2>6, Zenon DEF RecvChunk, c
<1>6. CASE DiscardChunk
  BY <1>6, <1>k, <1>h, Zenon DEF DiscardChunk, receiverVars, AcksAreJustified,
                          Justified
<1>7. CASE ChunkTimeout
  BY <1>7, <1>k, Zenon DEF ChunkTimeout, Leave, wireVars, AcksAreJustified
<1> QED BY <1>1, <1>2, <1>3, <1>4, <1>5, <1>6, <1>7, Zenon DEF Receiver

\* The only way send_file adds an Ok for a file that is not empty is the ack
\* of its last byte.
LEMMA OkFromLastAck ==
    ASSUME TypeOK, Next, NEW o \in outcomes', o \notin outcomes, o.res = "ok",
           o.file # <<>>
    PROVE  /\ o = [id |-> sid, file |-> sfile, res |-> "ok"]
           /\ spc # "idle"
           /\ ackQ # <<>>
           /\ Head(ackQ).id = sid
           /\ Head(ackQ).kind \in {"ack", "complete"}
           /\ Head(ackQ).next = Len(sfile)
<1>e. ASSUME NEW id, NEW file,
             outcomes' \subseteq outcomes \cup
                             {[id |-> id, file |-> file, res |-> "err"]}
      PROVE  FALSE
  BY <1>e
<1>r. Return("err") => FALSE
  BY <1>e, Zenon DEF Return
<1>u. UNCHANGED outcomes => FALSE
  BY Zenon
<1>1. CASE Call
  <2>1. ASSUME NEW id, NEW n, NEW file, NEW c, Begin(id, n, file, c)
        PROVE  FALSE
    BY <2>1, <1>e, Zenon DEF Begin
  <2>2. ASSUME NEW id, NEW file, SendBareReq(id, file)
        PROVE  FALSE
    BY <2>2, Zenon DEF SendBareReq
  <2> QED BY <1>1, <2>1, <2>2, Zenon DEF Call, SendFile, SendFileWithId
<1>2. CASE SendOffer
  BY <1>2, <1>r, <1>u, Zenon DEF SendOffer
<1>3. CASE OfferAck
  <2>1. OnAccept(Head(ackQ)) /\ sfile = <<>> /\ Return("ok")
    BY <1>3, <1>r, <1>u, Zenon DEF OfferAck, OnAccept, OnOfferRefused, OnStrayProgress
  <2>2. o = [id |-> sid, file |-> sfile, res |-> "ok"]
    BY <2>1, Zenon DEF Return
  <2> QED BY <2>1, <2>2, Zenon
<1>4. CASE OfferTimeout
  BY <1>4, <1>r, <1>u, Zenon DEF OfferTimeout, GiveUp
<1>5. CASE SendChunk
  BY <1>5, <1>r, <1>u, Zenon DEF SendChunk
<1>6. CASE StreamAck
  <2>1. /\ spc = "stream" /\ TakeAck /\ Return("ok")
        /\ Head(ackQ).kind \in {"ack", "complete"}
        /\ Head(ackQ).next = Len(sfile)
    BY <1>6, <1>r, <1>u, Zenon DEF StreamAck, OnProgress, senderVars
  <2>2. o = [id |-> sid, file |-> sfile, res |-> "ok"]
    BY <2>1, Zenon DEF Return
  <2> QED BY <2>1, <2>2, Zenon DEF TakeAck
<1>7. CASE StreamTimeout
  BY <1>7, <1>r, <1>u, Zenon DEF StreamTimeout, GiveUp
<1>8. CASE DiscardAck \/ UNCHANGED senderVars
  BY <1>8, <1>u, Zenon DEF DiscardAck, senderVars
<1> QED BY <1>1, <1>2, <1>3, <1>4, <1>5, <1>6, <1>7, <1>8, Zenon DEF Next, Sender

\* Only the Complete of a call's own id makes it return Ok.
LEMMA OkStep ==
    ASSUME TypeOK, RequestsAreOffers, IdsAreFresh, AcksAreJustified,
           OkMeansCommitted, Next
    PROVE  OkMeansCommitted'
<1> SUFFICES ASSUME FreshIds, NEW o \in outcomes', o.res = "ok", o.file # <<>>
             PROVE  [id |-> o.id, file |-> o.file] \in committed'
  BY Zenon DEF OkMeansCommitted, FreshIds
<1>1. committed \subseteq committed'
  BY HistoryGrows, Zenon
<1>2. CASE o \in outcomes
  BY <1>1, <1>2, Zenon DEF OkMeansCommitted
<1>3. CASE o \notin outcomes
  <2> DEFINE a == Head(ackQ)
             f == [id |-> sid, file |-> sfile]
  <2>1. /\ o = [id |-> sid, file |-> sfile, res |-> "ok"]
        /\ spc # "idle" /\ ackQ # <<>>
        /\ a.id = sid /\ a.kind \in {"ack", "complete"}
        /\ a.next = Len(sfile)
    BY <1>3, OkFromLastAck, Zenon
  <2>2. 1 \in DOMAIN ackQ /\ a = ackQ[1]
    BY <2>1, TakenElems, Zenon DEF TypeOK, WireTypeOK
  <2>3. Justified(a)
    BY <2>2, Zenon DEF AcksAreJustified
  <2>4. f \in offered
    BY <2>1, Zenon DEF RequestsAreOffers, Offered
  <2>5. Len(sfile) \in Nat
    BY <2>1, WireAssumption DEF TypeOK, SenderTypeOK
  <2>6. a.kind # "ack"
    <3>1. SUFFICES ASSUME a.kind = "ack" PROVE FALSE
      BY Zenon
    <3>2. PICK p \in offered : p.id = a.id /\ a.next < Len(p.file)
      BY <2>3, <3>1, Zenon DEF Justified
    <3>3. p = f
      BY <2>1, <2>4, <3>2, Zenon DEF IdsAreFresh
    <3> QED BY <2>1, <2>5, <3>2, <3>3
  <2>7. PICK c \in committed : c.id = a.id
    BY <2>1, <2>3, <2>6, Zenon DEF Justified
  <2>8. c = f
    BY <2>1, <2>4, <2>7, Zenon DEF IdsAreFresh, RequestsAreOffers
  <2> QED BY <1>1, <2>1, <2>7, <2>8, Zenon
<1> QED BY <1>2, <1>3, Zenon

\* IdsAreFresh is an invariant.
LEMMA FreshInvariant == Spec => []IdsAreFresh
<1>1. Init => IdsAreFresh
  BY WireAssumption, SenderAssumption
     DEF Init, SenderInit, IdsAreFresh, FreshIds
<1>2. ASSUME TypeOK, IdsAreFresh, [Next]_vars
      PROVE  IdsAreFresh'
  BY <1>2, FreshStep, Zenon DEF vars, senderVars, IdsAreFresh, FreshIds
<1> QED BY <1>1, <1>2, TypeCorrect, PTL DEF Spec

\* AcksAreJustified is an invariant.
LEMMA JustifiedInvariant == Spec => []AcksAreJustified
<1>1. Init => AcksAreJustified
  BY DEF Init, WireInit, ReceiverInit, AcksAreJustified
<1>2. ASSUME TypeOK, HandleDiscipline, RequestsAreOffers, WritesCoverAcks,
             AcksAreJustified, [Next]_vars
      PROVE  AcksAreJustified'
  <2>1. CASE UNCHANGED vars
    BY <1>2, <2>1, Zenon DEF vars, wireVars, senderVars, receiverVars,
                      AcksAreJustified, Justified
  <2> QED BY <1>2, <2>1, SenderJustified, ReceiverJustified, Zenon DEF Next
<1> QED BY <1>1, <1>2, TypeCorrect, HandleDisciplined, RequestsInvariant,
           CoverInvariant, PTL DEF Spec

\* With new ids, Ok from send_file for a file that is not empty means that
\* the receiver committed exactly that file under that id.
THEOREM OkIsCommitted == Spec => []OkMeansCommitted
<1>1. Init => OkMeansCommitted
  BY Zenon DEF Init, SenderInit, OkMeansCommitted
<1>2. ASSUME TypeOK, RequestsAreOffers, IdsAreFresh, AcksAreJustified,
             OkMeansCommitted, [Next]_vars
      PROVE  OkMeansCommitted'
  <2>1. CASE UNCHANGED vars
    BY <1>2, <2>1, Zenon DEF vars, senderVars, receiverVars, OkMeansCommitted,
                      FreshIds
  <2> QED BY <1>2, <2>1, OkStep, Zenon
<1> QED BY <1>1, <1>2, TypeCorrect, RequestsInvariant, FreshInvariant,
           JustifiedInvariant, PTL DEF Spec

-------------------------------------------------------------------------------
(* Prefixes *)

\* Chunk c carries the bytes of file f at its offset.
IsSlice(c, f) ==
    /\ c.offset + Len(c.data) <= Len(f)
    /\ \A k \in DOMAIN c.data : c.data[k] = f[c.offset + k]

\* Every chunk on its way is a slice of a file offered under its id.
ChunksAreSlices ==
    \A i \in DOMAIN chunkQ :
        \E o \in offered : o.id = chunkQ[i].id /\ IsSlice(chunkQ[i], o.file)

\* With new ids, an open handle holds a prefix of the announced file.
PrefixHeld ==
    FreshIds =>
        /\ store = "open" => \A k \in DOMAIN written : written[k] = req.hash[k]
        /\ rpc = "empty" => req.total = 0
        /\ rpc = "reply" /\ reply.kind = "abort" => reply.next < req.total

\* A chunk sent by send_file is a slice of its file.
LEMMA SentSlice ==
    ASSUME TypeOK, SendChunk
    PROVE  LET m == FileChunk(sid, nextToSend,
                              SubSeq(sfile, nextToSend + 1, ChunkEnd))
           IN  m \in Chunk /\ m.id = sid /\ IsSlice(m, sfile)
<1> DEFINE d == SubSeq(sfile, nextToSend + 1, ChunkEnd)
           m == FileChunk(sid, nextToSend, d)
<1>1. /\ sfile \in Seq(Nat) /\ nextToSend \in Nat /\ sid \in Ids
      /\ ChunkEnd \in Nat /\ nextToSend <= ChunkEnd /\ ChunkEnd <= Len(sfile)
  BY WireAssumption
     DEF SendChunk, WindowOpen, ChunkEnd, TypeOK, SenderTypeOK
<1>2. /\ d \in Seq(Nat) /\ Len(d) = ChunkEnd - nextToSend
      /\ \A k \in 1..Len(d) : d[k] = sfile[nextToSend + k]
  BY <1>1
<1> HIDE DEF d
<1>3. m \in Chunk /\ m.id = sid /\ m.offset = nextToSend /\ m.data = d
  BY <1>1, <1>2, Zenon DEF FileChunk, Chunk
<1> HIDE DEF m
<1>4. IsSlice(m, sfile)
  <2>1. m.offset + Len(m.data) <= Len(sfile)
    BY <1>1, <1>2, <1>3
  <2>2. \A k \in DOMAIN m.data : m.data[k] = sfile[m.offset + k]
    <3>1. DOMAIN m.data = 1..Len(d)
      BY <1>2, <1>3
    <3> QED BY <1>2, <1>3, <3>1, Zenon
  <2> QED BY <2>1, <2>2, Zenon DEF IsSlice
<1> QED BY <1>3, <1>4, Zenon DEF m, d

\* send_file cuts its chunks from the file it offered, and nothing else
\* sends any.
LEMMA SlicesStep ==
    ASSUME TypeOK, RequestsAreOffers, ChunksAreSlices, Next
    PROVE  ChunksAreSlices'
<1>h. offered \subseteq offered'
  BY HistoryGrows, Zenon
<1>t. chunkQ \in Seq(Chunk)
  BY Zenon DEF TypeOK, WireTypeOK
<1>1. CASE SendChunk
  <2> DEFINE m == FileChunk(sid, nextToSend,
                            SubSeq(sfile, nextToSend + 1, ChunkEnd))
  <2>1. m \in Chunk /\ m.id = sid /\ IsSlice(m, sfile)
    BY <1>1, SentSlice, Zenon
  <2>2. \A i \in DOMAIN chunkQ' :
            (i \in DOMAIN chunkQ /\ chunkQ'[i] = chunkQ[i]) \/ chunkQ'[i] = m
    BY <1>1, <1>t, <2>1, SentElems DEF SendChunk, Transmit
  <2>3. [id |-> sid, file |-> sfile] \in offered
    BY <1>1, Zenon DEF SendChunk, RequestsAreOffers, Offered
  <2> HIDE DEF m
  <2> QED BY <1>h, <2>1, <2>2, <2>3, Zenon DEF ChunksAreSlices
<1>2. CASE ~SendChunk
  <2>1. UNCHANGED chunkQ \/ (chunkQ # <<>> /\ chunkQ' = Tail(chunkQ))
    BY <1>2, Zenon DEF Next, Call, SendFile, SendFileWithId, SendBareReq, Begin,
                Sender, SendOffer, OfferAck, TakeAck, OfferTimeout, StreamAck,
                StreamTimeout, DiscardAck, Receiver, RecvFile, TakeReq,
                SendReply, CommitEmpty, RecvChunk, TakeChunk, DiscardChunk,
                ChunkTimeout, wireVars, GiveUp, GoBack, HashMatches, Abort
  <2>2. \A i \in DOMAIN chunkQ' : \E j \in DOMAIN chunkQ : chunkQ'[i] = chunkQ[j]
    BY <1>t, <2>1, TakenElems
  <2> QED BY <1>h, <2>2 DEF ChunksAreSlices
<1> QED BY <1>1, <1>2, Zenon

\* ChunksAreSlices is an invariant.
LEMMA SlicesInvariant == Spec => []ChunksAreSlices
<1>1. Init => ChunksAreSlices
  BY DEF Init, WireInit, ChunksAreSlices
<1>2. ASSUME TypeOK, RequestsAreOffers, ChunksAreSlices, [Next]_vars
      PROVE  ChunksAreSlices'
  BY <1>2, SlicesStep, Zenon DEF vars, wireVars, senderVars, ChunksAreSlices
<1> QED BY <1>1, <1>2, TypeCorrect, RequestsInvariant, PTL DEF Spec

\* A prefix u of f followed by the bytes p that come next in f.
LEMMA ConcatPrefix ==
    ASSUME NEW f \in Seq(Nat), NEW u \in Seq(Nat), NEW p \in Seq(Nat),
           Len(u) + Len(p) <= Len(f),
           \A k \in 1..Len(u) : u[k] = f[k],
           \A k \in 1..Len(p) : p[k] = f[Len(u) + k]
    PROVE  /\ \A k \in 1..Len(u \o p) : (u \o p)[k] = f[k]
           /\ Len(u \o p) >= Len(f) => u \o p = f
<1> DEFINE w == u \o p
<1>1. Len(u) \in Nat /\ Len(p) \in Nat /\ Len(f) \in Nat
  OBVIOUS
<1>2. /\ w \in Seq(Nat) /\ Len(w) = Len(u) + Len(p)
      /\ \A k \in 1..Len(w) :
            w[k] = IF k <= Len(u) THEN u[k] ELSE p[k - Len(u)]
  BY ConcatProperties
<1> HIDE DEF w
<1>3. ASSUME NEW k \in 1..Len(w)
      PROVE  w[k] = f[k]
  <2>1. CASE k <= Len(u)
    <3>1. k \in 1..Len(u)
      BY <1>1, <2>1
    <3>2. w[k] = u[k]
      BY <1>2, <2>1, Zenon
    <3> QED BY <3>1, <3>2, Zenon
  <2>2. CASE ~(k <= Len(u))
    <3> DEFINE j == k - Len(u)
    <3>1. j \in 1..Len(p) /\ Len(u) + j = k
      <4>1. k \in 1..(Len(u) + Len(p))
        BY <1>2, Zenon
      <4> QED BY ONLY <1>1, <2>2, <4>1
    <3>2. w[k] = p[j]
      BY <1>2, <2>2, Zenon
    <3> HIDE DEF j
    <3> QED BY <3>1, <3>2, Zenon
  <2> QED BY <2>1, <2>2, Zenon
<1>4. Len(w) >= Len(f) => Len(w) = Len(f)
  BY <1>1, <1>2
<1>5. Len(w) >= Len(f) => w = f
  BY <1>2, <1>3, <1>4, SeqEqual, Zenon
<1> QED BY <1>3, <1>5, Zenon DEF w

\* Writing an in-order slice of the announced file extends the prefix.
LEMMA PrefixExtends ==
    ASSUME TypeOK, NEW c \in Chunk, IsSlice(c, req.hash),
           c.offset = Len(written), req.total = Len(req.hash),
           \A k \in DOMAIN written : written[k] = req.hash[k]
    PROVE  LET w == written \o Piece(c)
           IN  /\ \A k \in DOMAIN w : w[k] = req.hash[k]
               /\ Len(w) >= req.total => w = req.hash
<1>1. written \in Seq(Nat) /\ req.hash \in Seq(Nat) /\ c.data \in Seq(Nat)
  BY Zenon DEF TypeOK, ReceiverTypeOK, Req, Chunk
<1>2. /\ Len(written) \in Nat /\ Len(c.data) \in Nat /\ Len(req.hash) \in Nat
      /\ DOMAIN written = 1..Len(written) /\ DOMAIN c.data = 1..Len(c.data)
  BY <1>1
<1>3. Len(written) + Len(c.data) <= Len(req.hash)
  BY Zenon DEF IsSlice
<1>4. \A k \in 1..Len(c.data) : c.data[k] = req.hash[Len(written) + k]
  BY <1>2, Zenon DEF IsSlice
<1>5. Piece(c) = c.data
  BY <1>2, <1>3 DEF Piece
<1>a. \A k \in 1..Len(written) : written[k] = req.hash[k]
  BY <1>2, Zenon
<1>6. /\ \A k \in 1..Len(written \o c.data) : (written \o c.data)[k] = req.hash[k]
      /\ Len(written \o c.data) >= Len(req.hash) => written \o c.data = req.hash
  BY <1>1, <1>3, <1>4, <1>a, ConcatPrefix, ZenonT(40)
<1>7. DOMAIN (written \o c.data) = 1..Len(written \o c.data)
  BY <1>1
<1> QED BY <1>5, <1>6, <1>7, Zenon

\* recv_file writes a chunk only at the end of what it has, so that a slice
\* extends the prefix.
LEMMA PrefixStep ==
    ASSUME TypeOK, HandleDiscipline, RequestsAreOffers, WritesCoverAcks,
           AcksAreJustified, IdsAreFresh, ChunksAreSlices, PrefixHeld,
           FreshIds, Receiver
    PROVE  PrefixHeld'
<1>t. req.total \in Nat /\ req.hash \in Seq(Nat)
  BY Zenon DEF TypeOK, ReceiverTypeOK, Req
<1>1. CASE RecvFile
  BY <1>1, Zenon DEF RecvFile, PrefixHeld
<1>2. CASE TakeReq
  <2>1. written' = <<>>
    BY <1>2, Zenon DEF TakeReq, Leave, WritesCoverAcks
  <2>2. /\ rpc' \in {"idle", "reply"}
        /\ rpc' = "reply" => reply'.kind # "abort"
    BY <1>2, ReqReply, Zenon
  <2> QED BY <2>1, <2>2 DEF PrefixHeld
<1>3. CASE SendReply
  <2>1. /\ rpc' \in {"idle", "empty", "chunks"}
        /\ store' = "open" => store = "open" /\ UNCHANGED <<written, req>>
        /\ rpc' = "empty" => req'.total = 0
    BY <1>3, Zenon DEF SendReply, Replied, Leave, HandleDiscipline, Abort
  <2> QED BY <2>1, Zenon DEF PrefixHeld
<1>4. CASE CommitEmpty
  <2>1. req.total = 0 /\ req.total = Len(req.hash)
    BY <1>4, Zenon DEF CommitEmpty, PrefixHeld, RequestsAreOffers, HandleDiscipline,
                HashMatches
  <2>2. req.hash = <<>>
    BY <1>t, <2>1
  <2> QED BY <1>4, <2>2, Zenon DEF CommitEmpty, Commit, Leave, PrefixHeld, HashMatches
<1>5. CASE RecvChunk
  <2> DEFINE c == Head(chunkQ)
             w == written \o Piece(c)
  <2>1. /\ rpc = "chunks" /\ store = "open" /\ c.id = req.id
        /\ chunkQ # <<>> /\ chunkQ \in Seq(Chunk)
    BY <1>5, Zenon DEF RecvChunk, TakeChunk, HandleDiscipline, TypeOK, WireTypeOK
  <2>2. /\ c \in Chunk
        /\ \E o \in offered : o.id = c.id /\ IsSlice(c, o.file)
    BY <2>1, TakenElems DEF ChunksAreSlices
  <2>3. /\ [id |-> req.id, file |-> req.hash] \in offered
        /\ req.total = Len(req.hash)
        /\ Len(written) < req.total
        /\ \A k \in DOMAIN written : written[k] = req.hash[k]
    BY <2>1, Zenon DEF RequestsAreOffers, Offered, AcksAreJustified, PrefixHeld
  <2>4. IsSlice(c, req.hash)
    BY <2>1, <2>2, <2>3 DEF IdsAreFresh
  <2>5. InOrder(c) => /\ \A k \in DOMAIN w : w[k] = req.hash[k]
                      /\ Len(w) >= req.total => w = req.hash
    BY <2>2, <2>3, <2>4, PrefixExtends, Zenon DEF InOrder
  <2> HIDE DEF c
  <2>6. CASE ChunkTooLarge(c)
    <3>1. /\ rpc' = "reply" /\ store' = "closed" /\ UNCHANGED req
          /\ reply'.next = Len(written)
      BY <2>6, Zenon DEF ChunkTooLarge, Abort, Prepare, FileAck
    <3> QED BY <2>3, <3>1, Zenon DEF PrefixHeld
  <2>7. CASE ChunkOutOfOrder(c)
    <3>1. /\ rpc' = "reply" /\ UNCHANGED <<req, written>>
          /\ reply'.kind = "ack"
      BY <2>7, Zenon DEF ChunkOutOfOrder, Prepare, FileAck
    <3> QED BY <2>3, <3>1, Zenon DEF PrefixHeld
  <2>8. CASE WriteFails(c)
    BY <2>8, Zenon DEF WriteFails, Abort, Leave, PrefixHeld
  <2>9. CASE WriteMiddle(c)
    <3>1. /\ InOrder(c) /\ written' = w /\ UNCHANGED req
          /\ \/ rpc' = "reply" /\ reply' = FileAck(req.id, "ack", Len(w), 0)
             \/ rpc' = "chunks"
      BY <2>1, <2>9, Zenon DEF WriteMiddle, Prepare
    <3>2. rpc' # "empty" /\ (rpc' = "reply" => reply'.kind # "abort")
      BY <3>1 DEF FileAck
    <3> HIDE DEF w
    <3> QED BY <2>5, <3>1, <3>2, Zenon DEF PrefixHeld
  <2>10. CASE WriteLast(c)
    <3>1. /\ InOrder(c) /\ Len(w) >= req.total
          /\ w = req.hash =>
                /\ store' = "closed"
                /\ \/ rpc' = "idle"
                   \/ /\ rpc' = "reply"
                      /\ reply' = FileAck(req.id, "complete", req.total, 0)
      BY <2>10, Zenon DEF WriteLast, Commit, Prepare, Leave, HashMatches
    <3>2. /\ store' = "closed" /\ rpc' # "empty"
          /\ rpc' = "reply" => reply'.kind # "abort"
      BY <2>5, <3>1 DEF FileAck
    <3> QED BY <3>2, Zenon DEF PrefixHeld
  <2> QED BY <1>5, <2>6, <2>7, <2>8, <2>9, <2>10, Zenon DEF RecvChunk, c
<1>6. CASE DiscardChunk
  BY <1>6, Zenon DEF DiscardChunk, receiverVars, PrefixHeld
<1>7. CASE ChunkTimeout
  BY <1>7, Zenon DEF ChunkTimeout, Abort, Leave, PrefixHeld
<1> QED BY <1>1, <1>2, <1>3, <1>4, <1>5, <1>6, <1>7, Zenon DEF Receiver

\* With new ids recv_file only ever holds a prefix of the announced file and
\* its hash check never fails.
THEOREM OnlyPrefixesWritten == Spec => []WrittenIsPrefix
<1>1. Init => PrefixHeld
  BY Zenon DEF Init, ReceiverInit, PrefixHeld
<1>2. ASSUME TypeOK, HandleDiscipline, RequestsAreOffers, WritesCoverAcks,
             AcksAreJustified, IdsAreFresh, ChunksAreSlices, PrefixHeld,
             [Next]_vars
      PROVE  PrefixHeld'
  <2>1. CASE UNCHANGED receiverVars \/ ~FreshIds
    BY <1>2, <2>1, Zenon DEF receiverVars, PrefixHeld, FreshIds
  <2> QED BY <1>2, <2>1, PrefixStep, Zenon DEF Next, vars
<1>3. HandleDiscipline /\ RequestsAreOffers /\ AcksAreJustified /\ PrefixHeld
          => WrittenIsPrefix
  BY Zenon DEF HandleDiscipline, RequestsAreOffers, AcksAreJustified, PrefixHeld,
         WrittenIsPrefix
<1> QED BY <1>1, <1>2, <1>3, TypeCorrect, HandleDisciplined, RequestsInvariant,
           CoverInvariant, JustifiedInvariant, FreshInvariant, SlicesInvariant,
           PTL DEF Spec

-------------------------------------------------------------------------------
(* Late acks *)

\* x is a whole number of chunks of size g.
Whole(x, g) == \E k \in 0..x : x = k * g

\* The bytes up to x are in the file, and in the window of the last ack.
InReach(x) == x <= Len(sfile) /\ x <= lastAcked + scfg.window * chunkSize

\* The sender's own offsets: what is acked is whole, and what is sent is too
\* unless it is everything.
OffsetsWhole ==
    /\ chunkSize > 0
    /\ lastAcked <= nextToSend
    /\ Whole(lastAcked, chunkSize)
    /\ InReach(nextToSend)
    /\ Whole(nextToSend, chunkSize) \/ nextToSend = Len(sfile)

\* A chunk of the call ends in reach, at the end of the file or on a whole
\* number of chunks.
EndsInReach(c) ==
    c.id = sid => LET end == c.offset + Len(c.data)
                  IN  InReach(end) /\ (Whole(end, chunkSize) \/ end = Len(sfile))

\* A progress ack of the call is for whole chunks.
AcksWhole(a) == a.id = sid /\ a.kind = "ack" => Whole(a.next, chunkSize)

\* With new ids nothing of the call's file is on its way or stored before it
\* is accepted.  From then on nothing sent or stored lies beyond the window
\* of the last ack, also what was sent before the call went back, and acks
\* fall on whole chunks.
WindowHolds ==
    FreshIds =>
        /\ \A id \in Ids : stored[id] # 0 => \E o \in offered : o.id = id
        /\ spc \in {"offer", "offerWait"} =>
              stored[sid] = 0 /\ \A i \in DOMAIN chunkQ : chunkQ[i].id # sid
        /\ spc = "stream" =>
              /\ OffsetsWhole
              /\ InReach(stored[sid])
              /\ \A i \in DOMAIN chunkQ : EndsInReach(chunkQ[i])
              /\ \A i \in DOMAIN ackQ : AcksWhole(ackQ[i])
              /\ rpc = "reply" => AcksWhole(reply)
              /\ store = "open" /\ req.id = sid => Whole(Len(written), chunkSize)

\* Products grow with their factors.
LEMMA Grows ==
    ASSUME NEW a \in Nat, NEW b \in Nat, NEW g \in Nat, a <= b
    PROVE  a * g <= b * g
<1> DEFINE d == b - a
<1>1. d \in Nat /\ b = a + d
  OBVIOUS
<1> HIDE DEF d
<1>2. d * g \in Nat /\ b * g = a * g + d * g
  BY <1>1
<1>3. a * g \in Nat
  OBVIOUS
<1> QED BY <1>2, <1>3

\* Nothing is a whole number of chunks.
LEMMA WholeZero ==
    ASSUME NEW g \in Nat
    PROVE  Whole(0, g)
  BY DEF Whole

\* One chunk more is a whole number of chunks too.
LEMMA WholeNext ==
    ASSUME NEW x \in Nat, NEW g \in Nat, g > 0, Whole(x, g)
    PROVE  Whole(x + g, g)
<1>1. PICK k \in 0..x : x = k * g
  BY Zenon DEF Whole
<1>2. x + g = (k + 1) * g
  BY <1>1
<1>3. k + 1 \in 0..x + g
  OBVIOUS
<1> QED BY <1>2, <1>3, Zenon DEF Whole

\* A number of whole chunks rounded up is that number.
LEMMA RoundUp ==
    ASSUME NEW d \in Nat, NEW g \in Nat, g > 0
    PROVE  (d * g + g - 1) \div g = d
<1> DEFINE a == d * g + g - 1
           q == a \div g
<1>1. a \in Nat /\ d * g \in Nat
  OBVIOUS
<1>2. q \in Nat /\ q * g <= a /\ a < q * g + g
  BY <1>1
<1> HIDE DEF q
<1>3. ~(q < d)
  <2> SUFFICES ASSUME q < d PROVE FALSE
    BY Zenon
  <2>1. q + 1 \in Nat /\ q + 1 <= d
    BY <1>2
  <2>2. (q + 1) * g <= d * g
    BY <2>1, Grows, Zenon
  <2>3. (q + 1) * g = q * g + g
    BY <1>2
  <2> QED BY <1>1, <1>2, <2>2, <2>3
<1>4. ~(d < q)
  <2> SUFFICES ASSUME d < q PROVE FALSE
    BY Zenon
  <2>1. d + 1 \in Nat /\ d + 1 <= q
    BY <1>2
  <2>2. (d + 1) * g <= q * g
    BY <1>2, <2>1, Grows, Zenon
  <2>3. (d + 1) * g = d * g + g
    OBVIOUS
  <2> QED BY <1>1, <1>2, <2>2, <2>3
<1> QED BY <1>2, <1>3, <1>4 DEF q

\* When whole chunks are in flight, the refill loop has room for one more, or
\* has filled the window.
LEMMA WindowFills ==
    ASSUME NEW a \in Nat, NEW n \in Nat, NEW g \in Nat, NEW w \in Nat,
           g > 0, a <= n, Whole(a, g), Whole(n, g)
    PROVE  LET inflight == IF n <= a THEN 0 ELSE (n - a + g - 1) \div g
           IN  /\ inflight < w => n + g <= a + w * g
               /\ ~(inflight < w) => a + w * g <= n
<1>1. PICK j \in 0..a : a = j * g
  BY Zenon DEF Whole
<1>2. PICK k \in 0..n : n = k * g
  BY Zenon DEF Whole
<1>3. j <= k
  <2> SUFFICES ASSUME k < j PROVE FALSE
    OBVIOUS
  <2>1. (k + 1) * g <= j * g
    BY Grows
  <2>2. (k + 1) * g = k * g + g
    OBVIOUS
  <2> QED BY <1>1, <1>2, <2>1, <2>2
<1> DEFINE d == k - j
<1>4. d \in Nat /\ n - a = d * g /\ n = a + d * g /\ d * g \in Nat
  BY <1>1, <1>2, <1>3
<1>5. (d * g + g - 1) \div g = d
  BY <1>4, RoundUp, Zenon
<1> HIDE DEF d
<1>6. n <= a => d = 0
  BY <1>4, Grows
<1>7. (IF n <= a THEN 0 ELSE (n - a + g - 1) \div g) = d
  BY <1>4, <1>5, <1>6, Zenon
<1>8. d < w => n + g <= a + w * g
  <2> SUFFICES ASSUME d < w PROVE n + g <= a + w * g
    BY Zenon
  <2>1. (d + 1) * g <= w * g
    BY <1>4, Grows
  <2>2. (d + 1) * g = d * g + g
    BY <1>4
  <2>3. w * g \in Nat
    OBVIOUS
  <2> QED BY <1>4, <2>1, <2>2, <2>3
<1>9. ~(d < w) => a + w * g <= n
  <2> SUFFICES ASSUME w <= d PROVE a + w * g <= n
    BY <1>4
  <2>1. w * g <= d * g /\ w * g \in Nat
    BY <1>4, Grows
  <2> QED BY <1>4, <2>1
<1> QED BY <1>7, <1>8, <1>9, Zenon

\* What the window is reckoned with.
LEMMA WindowTypes ==
    ASSUME TypeOK
    PROVE  /\ chunkSize \in Nat /\ lastAcked \in Nat /\ nextToSend \in Nat
           /\ sfile \in Seq(Nat) /\ Len(sfile) \in Nat
           /\ scfg.window \in Nat /\ scfg.window * chunkSize \in Nat
           /\ sid \in Ids /\ stored[sid] \in Nat
<1>1. sfile \in Seq(Nat)
  <2>1. sfile \in {<<>>} \/ sfile \in Files
    BY Zenon DEF TypeOK, SenderTypeOK
  <2>2. <<>> \in Seq(Nat)
    OBVIOUS
  <2> QED BY <2>1, <2>2, WireAssumption, Zenon
<1>2. scfg.window \in Nat /\ chunkSize \in Nat
  BY SenderAssumption DEF TypeOK, SenderTypeOK, NoConfig
<1> QED BY <1>1, <1>2 DEF TypeOK, SenderTypeOK, ReceiverTypeOK

\* A new call has an id that nothing stored or on its way has.
LEMMA CallWindow ==
    ASSUME TypeOK, IdsAreFresh, ChunksAreSlices, WindowHolds, FreshIds, Call,
           UNCHANGED receiverVars
    PROVE  WindowHolds'
<1>1. ASSUME NEW file \in Files, NEW c \in SendConfigs, SendFile(file, c)
      PROVE  WindowHolds'
  <2>1. UNCHANGED <<chunkQ, stored>> /\ spc = "idle" /\ offered \subseteq offered'
    BY <1>1, Zenon DEF SendFile, Begin, wireVars, receiverVars
  <2>2. spc' = "idle" \/ (spc' = "offer" /\ sid' = nextId)
    BY <1>1, Zenon DEF SendFile, Begin
  <2>3. \A o \in offered : o.id # nextId
    BY DEF IdsAreFresh, TypeOK, SenderTypeOK, Ids
  <2>4. nextId \in Ids /\ stored[nextId] = 0
    BY <2>3, Zenon DEF WindowHolds, TypeOK, SenderTypeOK
  <2>5. \A i \in DOMAIN chunkQ : chunkQ[i].id # nextId
    BY <2>3, Zenon DEF ChunksAreSlices
  <2>6. \A id \in Ids : stored'[id] # 0 => \E o \in offered' : o.id = id
    BY <2>1, Zenon DEF WindowHolds
  <2> QED BY <2>1, <2>2, <2>4, <2>5, <2>6, Zenon DEF WindowHolds
<1>2. ASSUME NEW id \in BareIds, NEW file \in Files, SendBareReq(id, file)
      PROVE  WindowHolds'
  BY <1>2, Zenon DEF SendBareReq, WindowHolds, OffsetsWhole, EndsInReach, AcksWhole,
              InReach, receiverVars
<1> QED BY <1>1, <1>2, Zenon DEF Call, FreshIds

\* A call that returns leaves nothing to show.
LEMMA ReturnWindow ==
    ASSUME WindowHolds, NEW res, Return(res), UNCHANGED receiverVars
    PROVE  WindowHolds'
  BY Zenon DEF WindowHolds, Return, receiverVars, FreshIds

\* The offer loop sends no chunk.
LEMMA OfferWindow ==
    ASSUME WindowHolds, spc \in {"offer", "offerWait"}, spc' \in {"offer", "offerWait"},
           UNCHANGED <<sid, chunkQ, offered>>, UNCHANGED receiverVars
    PROVE  WindowHolds'
  BY Zenon DEF WindowHolds, receiverVars, FreshIds

\* The accepted call starts with nothing sent, nothing stored and nothing
\* acked.
LEMMA AcceptWindow ==
    ASSUME TypeOK, TypeOK', HandleDiscipline, WritesCoverAcks, WindowHolds, FreshIds,
           spc = "offerWait", TakeAck, OnAccept(Head(ackQ)), spc' = "stream",
           UNCHANGED receiverVars
    PROVE  WindowHolds'
<1>1. /\ chunkSize' > 0 /\ lastAcked' = 0 /\ nextToSend' = 0
      /\ UNCHANGED <<sid, sfile, scfg, offered, chunkQ>>
      /\ ackQ # <<>> /\ ackQ' = Tail(ackQ)
  <2>1. Head(ackQ) \in Ack
    BY DEF TakeAck, TypeOK, WireTypeOK
  <2>2. Head(ackQ).chunk \in Nat
    BY <2>1, Zenon DEF Ack
  <2>3. /\ chunkSize' = Head(ackQ).chunk /\ Head(ackQ).chunk # 0
        /\ lastAcked' = 0 /\ nextToSend' = 0
        /\ sid' = sid /\ sfile' = sfile /\ scfg' = scfg /\ offered' = offered
    BY Zenon DEF OnAccept, Return
  <2>4. ackQ # <<>> /\ ackQ' = Tail(ackQ) /\ chunkQ' = chunkQ
    BY Zenon DEF TakeAck
  <2> QED BY <2>2, <2>3, <2>4
<1>2. stored[sid] = 0 /\ \A i \in DOMAIN chunkQ : chunkQ[i].id # sid
  BY Zenon DEF WindowHolds
<1>3. \A x \in {0} : InReach(x)' /\ Whole(x, chunkSize')
  BY <1>1, WholeZero, WindowTypes, SMTT(20) DEF InReach, TypeOK, SenderTypeOK
<1>4. \A i \in DOMAIN ackQ' : AcksWhole(ackQ[i])'
  <2>1. \A i \in DOMAIN ackQ' : \E j \in DOMAIN ackQ : ackQ'[i] = ackQ[j]
    BY <1>1, TakenElems, Zenon DEF TypeOK, WireTypeOK
  <2>2. \A j \in DOMAIN ackQ : ackQ[j].kind = "ack" /\ ackQ[j].id = sid => ackQ[j].next = 0
    <3>1. \A j \in DOMAIN ackQ : ackQ[j] \in Ack
      BY DEF TypeOK, WireTypeOK
    <3>2. \A j \in DOMAIN ackQ : ackQ[j].next \in Nat
      BY <3>1, Zenon DEF Ack
    <3> QED BY <1>2, <3>2 DEF WritesCoverAcks, AckAfterWrite
  <2>3. \A j \in DOMAIN ackQ : ackQ[j].id = sid /\ ackQ[j].kind = "ack"
                                 => Whole(ackQ[j].next, chunkSize')
    BY <1>3, <2>2, Zenon
  <2>4. sid' = sid
    BY <1>1, Zenon
  <2> QED BY <2>1, <2>3, <2>4, Zenon DEF AcksWhole
<1>5. rpc' = "reply" => AcksWhole(reply)'
  <2>1. rpc = "reply" /\ reply.kind = "ack" /\ reply.id = sid => reply.next = 0
    <3> HAVE rpc = "reply" /\ reply.kind = "ack" /\ reply.id = sid
    <3>1. reply.next <= stored[sid]
      BY Zenon DEF WritesCoverAcks
    <3>2. reply.next \in Nat
      BY Zenon DEF TypeOK, ReceiverTypeOK, Ack
    <3> QED BY <1>2, <3>1, <3>2
  <2> QED BY <1>1, <1>3, <2>1, Zenon DEF AcksWhole, receiverVars
<1>6. store = "open" /\ req.id = sid => Len(written) = 0
  <2> HAVE store = "open" /\ req.id = sid
  <2>1. Len(written) <= stored[sid]
    BY Zenon DEF WritesCoverAcks
  <2>2. written \in Seq(Nat)
    BY Zenon DEF TypeOK, ReceiverTypeOK
  <2> QED BY <1>2, <2>1, <2>2
<1>7. OffsetsWhole'
  BY <1>1, <1>3 DEF OffsetsWhole
<1>8. \A i \in DOMAIN chunkQ' : EndsInReach(chunkQ[i])'
  BY <1>1, <1>2, Zenon DEF EndsInReach
<1> QED BY <1>1, <1>2, <1>3, <1>4, <1>5, <1>6, <1>7, <1>8, Zenon
           DEF WindowHolds, receiverVars

\* The refill loop sends a chunk only when there is room for one.
LEMMA ChunkWindow ==
    ASSUME TypeOK, WindowHolds, FreshIds, SendChunk, spc' = "stream",
           UNCHANGED receiverVars
    PROVE  WindowHolds'
<1> DEFINE m == FileChunk(sid, nextToSend, SubSeq(sfile, nextToSend + 1, ChunkEnd))
           room == scfg.window * chunkSize
<1>t. /\ chunkSize \in Nat /\ lastAcked \in Nat /\ nextToSend \in Nat
      /\ Len(sfile) \in Nat /\ scfg.window \in Nat /\ room \in Nat
  BY WindowTypes, Zenon
<1>1. /\ spc = "stream" /\ nextToSend' = ChunkEnd /\ WindowOpen
      /\ UNCHANGED <<sid, sfile, scfg, chunkSize, lastAcked, offered, ackQ>>
      /\ chunkQ' = Append(chunkQ, m) \/ chunkQ' = chunkQ
  BY Zenon DEF SendChunk, Return, Transmit, Results
<1>2. m \in Chunk /\ m.id = sid /\ m.offset + Len(m.data) = ChunkEnd
  <2> DEFINE d == SubSeq(sfile, nextToSend + 1, ChunkEnd)
  <2>1. /\ sfile \in Seq(Nat) /\ ChunkEnd \in Nat /\ nextToSend <= ChunkEnd
        /\ ChunkEnd <= Len(sfile)
    BY <1>1, <1>t, WindowTypes DEF WindowOpen, ChunkEnd
  <2>2. Len(d) = ChunkEnd - nextToSend
    BY <1>t, <2>1
  <2>3. m \in Chunk
    BY SentSlice, Zenon
  <2> HIDE DEF d
  <2>4. m.id = sid /\ m.offset = nextToSend /\ m.data = d
    BY Zenon DEF FileChunk, d
  <2> HIDE DEF m
  <2> QED BY <1>t, <2>1, <2>2, <2>3, <2>4
<1>3. \A i \in DOMAIN chunkQ' :
          (i \in DOMAIN chunkQ /\ chunkQ'[i] = chunkQ[i]) \/ chunkQ'[i] = m
  <2>1. chunkQ \in Seq(Chunk)
    BY Zenon DEF TypeOK, WireTypeOK
  <2> HIDE DEF m
  <2> QED BY <1>1, <1>2, <2>1, SentElems
<1> HIDE DEF m
<1>4. /\ OffsetsWhole /\ nextToSend < Len(sfile) /\ InflightChunks < scfg.window
      /\ \A i \in DOMAIN chunkQ : EndsInReach(chunkQ[i])
  BY <1>1, Zenon DEF WindowHolds, WindowOpen
<1>5. nextToSend + chunkSize <= lastAcked + room
  <2>1. /\ chunkSize > 0 /\ lastAcked <= nextToSend /\ Whole(lastAcked, chunkSize)
        /\ Whole(nextToSend, chunkSize)
    BY <1>t, <1>4 DEF OffsetsWhole
  <2>2. LET inflight == IF nextToSend <= lastAcked THEN 0
                        ELSE (nextToSend - lastAcked + chunkSize - 1) \div chunkSize
        IN  inflight < scfg.window => nextToSend + chunkSize <= lastAcked + room
    BY <1>t, <2>1, WindowFills, Zenon
  <2> QED BY <1>4, <2>2, Zenon DEF InflightChunks
<1>6. /\ ChunkEnd <= Len(sfile) /\ ChunkEnd <= lastAcked + room
      /\ lastAcked <= ChunkEnd
  <2> HIDE DEF room
  <2> QED BY <1>t, <1>4, <1>5 DEF ChunkEnd, OffsetsWhole
<1>7. Whole(ChunkEnd, chunkSize) \/ ChunkEnd = Len(sfile)
  BY <1>t, <1>4, WholeNext DEF ChunkEnd, OffsetsWhole
<1>8. OffsetsWhole'
  BY <1>1, <1>4, <1>6, <1>7, Zenon DEF OffsetsWhole, InReach
<1>9. (\A i \in DOMAIN chunkQ : EndsInReach(chunkQ[i]))'
  <2>1. ASSUME NEW i \in DOMAIN chunkQ' PROVE EndsInReach(chunkQ[i])'
    <3>1. CASE i \in DOMAIN chunkQ /\ chunkQ'[i] = chunkQ[i]
      BY <1>1, <1>4, <3>1, Zenon DEF EndsInReach, InReach
    <3>2. CASE chunkQ'[i] = m
      BY <1>1, <1>2, <1>6, <1>7, <3>2, Zenon DEF EndsInReach, InReach
    <3> QED BY <1>3, <2>1, <3>1, <3>2, Zenon
  <2> QED BY <2>1, Zenon
<1> QED BY <1>1, <1>8, <1>9, Zenon
           DEF WindowHolds, InReach, AcksWhole, receiverVars, SendChunk

\* What of the window does not depend on where the sender is.
LEMMA SameReach ==
    ASSUME NEW x, UNCHANGED <<sfile, scfg, chunkSize>>, TypeOK, lastAcked' \in Nat,
           lastAcked <= lastAcked', x \in Nat, InReach(x)
    PROVE  x <= Len(sfile') /\ x <= lastAcked' + scfg'.window * chunkSize'
<1> DEFINE room == scfg.window * chunkSize
<1>1. lastAcked \in Nat /\ room \in Nat /\ room' = room /\ Len(sfile') = Len(sfile)
  BY WindowTypes, Zenon
<1>2. x <= Len(sfile) /\ x <= lastAcked + room
  BY Zenon DEF InReach
<1>3. room' = scfg'.window * chunkSize'
  BY Zenon
<1> HIDE DEF room
<1> QED BY <1>1, <1>2, <1>3

\* A progress ack moves the window on; nothing leaves its reach.
LEMMA ProgressWindow ==
    ASSUME TypeOK, TypeOK', WindowHolds, FreshIds, StreamAck, OnProgress(Head(ackQ)),
           spc' = "stream", UNCHANGED receiverVars
    PROVE  WindowHolds'
<1> DEFINE a == Head(ackQ)
<1>t. /\ chunkSize \in Nat /\ lastAcked \in Nat /\ nextToSend \in Nat
      /\ Len(sfile) \in Nat /\ stored[sid] \in Nat /\ a \in Ack /\ a.next \in Nat
  <2>1. a \in Ack
    BY DEF StreamAck, TakeAck, TypeOK, WireTypeOK
  <2> QED BY <2>1, WindowTypes, Zenon DEF Ack
<1>1. /\ spc = "stream" /\ lastAcked' = a.next
      /\ UNCHANGED <<sid, sfile, scfg, chunkSize, nextToSend, offered, chunkQ>>
      /\ ackQ # <<>> /\ ackQ' = Tail(ackQ) /\ a.id = sid
      /\ ~AckOutOfRange(a) /\ a.next # Len(sfile) /\ a.kind = "ack"
  BY Zenon DEF StreamAck, TakeAck, OnProgress, Return
<1>2. lastAcked <= a.next /\ a.next <= nextToSend
  BY <1>1, <1>t DEF AckOutOfRange
<1>3. a = ackQ[1] /\ 1 \in DOMAIN ackQ
      /\ \A i \in DOMAIN ackQ' : \E j \in DOMAIN ackQ : ackQ'[i] = ackQ[j]
  BY <1>1, TakenElems, Zenon DEF TypeOK, WireTypeOK
<1> HIDE DEF a
<1>4. /\ OffsetsWhole /\ InReach(stored[sid])
      /\ \A i \in DOMAIN chunkQ : EndsInReach(chunkQ[i])
      /\ \A i \in DOMAIN ackQ : AcksWhole(ackQ[i])
  BY <1>1, Zenon DEF WindowHolds
<1>5. Whole(a.next, chunkSize)
  BY <1>1, <1>3, <1>4, Zenon DEF AcksWhole
<1>6. ASSUME NEW x \in Nat, InReach(x)
      PROVE  x <= Len(sfile') /\ x <= lastAcked' + scfg'.window * chunkSize'
  BY <1>1, <1>2, <1>6, <1>t, SameReach, Zenon
<1>7. OffsetsWhole'
  <2>1. InReach(nextToSend)
    BY <1>4, Zenon DEF OffsetsWhole
  <2>2. InReach(nextToSend)'
    BY <1>1, <1>6, <1>t, <2>1, Zenon DEF InReach
  <2> QED BY <1>1, <1>2, <1>4, <1>5, <2>2, Zenon DEF OffsetsWhole
<1>8. InReach(stored[sid])'
  BY <1>1, <1>4, <1>6, <1>t, Zenon DEF InReach, receiverVars
<1>9. (\A i \in DOMAIN chunkQ : EndsInReach(chunkQ[i]))'
  <2>1. ASSUME NEW i \in DOMAIN chunkQ PROVE EndsInReach(chunkQ[i])'
    <3> DEFINE e == chunkQ[i].offset + Len(chunkQ[i].data)
    <3>1. chunkQ[i] \in Chunk
      BY DEF TypeOK, WireTypeOK
    <3>2. e \in Nat
      BY <3>1 DEF Chunk
    <3>3. EndsInReach(chunkQ[i])
      BY <1>4, Zenon
    <3>4. chunkQ[i].id = sid => InReach(e) /\ (Whole(e, chunkSize) \/ e = Len(sfile))
      BY <3>3, Zenon DEF EndsInReach
    <3> HIDE DEF e
    <3>5. chunkQ[i].id = sid =>
             /\ e <= Len(sfile') /\ e <= lastAcked' + scfg'.window * chunkSize'
             /\ Whole(e, chunkSize') \/ e = Len(sfile')
      BY <1>1, <1>6, <3>2, <3>4, Zenon
    <3> QED BY <1>1, <3>5, Zenon DEF EndsInReach, InReach, e
  <2> QED BY <1>1, <2>1, Zenon
<1>10. (\A i \in DOMAIN ackQ : AcksWhole(ackQ[i]))'
  BY <1>1, <1>3, <1>4, ZenonT(40) DEF AcksWhole
<1> QED BY <1>1, <1>7, <1>8, <1>9, <1>10, Zenon
           DEF WindowHolds, AcksWhole, receiverVars, StreamAck

\* Going back, and dropping an ack, moves no window.
LEMMA BackWindow ==
    ASSUME TypeOK, WindowHolds, FreshIds, spc = "stream", spc' = "stream",
           nextToSend' = nextToSend \/ nextToSend' = lastAcked,
           ackQ' = ackQ \/ (ackQ # <<>> /\ ackQ' = Tail(ackQ)),
           UNCHANGED <<sid, sfile, scfg, chunkSize, lastAcked, offered, chunkQ>>,
           UNCHANGED receiverVars
    PROVE  WindowHolds'
<1>1. \A i \in DOMAIN ackQ' : \E j \in DOMAIN ackQ : ackQ'[i] = ackQ[j]
  <2>1. ackQ \in Seq(Ack)
    BY Zenon DEF TypeOK, WireTypeOK
  <2> QED BY <2>1, TakenElems
<1>2. OffsetsWhole'
  <2>1. OffsetsWhole
    BY Zenon DEF WindowHolds
  <2>2. lastAcked' <= nextToSend' /\ InReach(nextToSend)'
    BY <2>1, WindowTypes, SMTT(20) DEF OffsetsWhole, InReach
  <2> QED BY <2>1, <2>2, Zenon DEF OffsetsWhole
<1>3. (\A i \in DOMAIN ackQ : AcksWhole(ackQ[i]))'
  BY <1>1 DEF AcksWhole, WindowHolds
<1> QED BY <1>2, <1>3, Zenon
           DEF WindowHolds, EndsInReach, InReach, AcksWhole, receiverVars

\* Every step of a call keeps the window.
LEMMA SenderWindow ==
    ASSUME TypeOK, TypeOK', HandleDiscipline, WritesCoverAcks, WindowHolds, FreshIds,
           Sender, UNCHANGED receiverVars
    PROVE  WindowHolds'
<1>r. ASSUME NEW res, Return(res) PROVE WindowHolds'
  BY <1>r, ReturnWindow, Zenon
<1>1. CASE SendOffer
  <2>1. ~(\E res : Return(res)) =>
           /\ spc = "offer" /\ spc' = "offerWait"
           /\ UNCHANGED <<sid, chunkQ, offered>>
    BY <1>1, Zenon DEF SendOffer
  <2> QED BY <1>r, <2>1, OfferWindow, Zenon
<1>2. CASE OfferAck
  <2>1. CASE OnAccept(Head(ackQ))
    <3>1. (\E res : Return(res)) \/ spc' = "stream"
      BY <2>1, Zenon DEF OnAccept
    <3> QED BY <1>2, <1>r, <2>1, <3>1, AcceptWindow, Zenon DEF OfferAck
  <2>2. CASE OnOfferRefused(Head(ackQ))
    BY <1>r, <2>2, Zenon DEF OnOfferRefused
  <2>3. CASE OnStrayProgress(Head(ackQ))
    BY <1>2, <2>3, OfferWindow, Zenon DEF OfferAck, TakeAck, OnStrayProgress
  <2> QED BY <1>2, <2>1, <2>2, <2>3, Zenon DEF OfferAck
<1>3. CASE OfferTimeout
  <2>1. ~(\E res : Return(res)) =>
           /\ spc = "offerWait" /\ spc' = "offer"
           /\ UNCHANGED <<sid, chunkQ, offered>>
    BY <1>3, Zenon DEF OfferTimeout, GiveUp, wireVars
  <2> QED BY <1>r, <2>1, OfferWindow, Zenon
<1>4. CASE SendChunk
  <2>1. (\E res : Return(res)) \/ spc' = "stream"
    BY <1>4, Zenon DEF SendChunk
  <2> QED BY <1>4, <1>r, <2>1, ChunkWindow, Zenon
<1>5. CASE StreamAck
  <2>1. CASE OnProgress(Head(ackQ))
    <3>1. (\E res : Return(res)) \/ spc' = "stream"
      BY <1>5, <2>1, Zenon DEF OnProgress, StreamAck
    <3> QED BY <1>5, <1>r, <2>1, <3>1, ProgressWindow, Zenon
  <2>2. CASE ~OnProgress(Head(ackQ))
    <3>1. ~(\E res : Return(res)) => spc = "stream" /\ TakeAck /\ UNCHANGED senderVars
      BY <1>5, <2>2, Zenon DEF StreamAck
    <3> QED BY <1>r, <3>1, BackWindow, Zenon DEF senderVars, TakeAck
  <2> QED BY <2>1, <2>2, Zenon
<1>6. CASE StreamTimeout
  <2>1. ~(\E res : Return(res)) =>
           /\ spc = "stream" /\ spc' = "stream" /\ nextToSend' = lastAcked
           /\ UNCHANGED <<sid, sfile, scfg, chunkSize, lastAcked, offered, chunkQ, ackQ>>
    BY <1>6, Zenon DEF StreamTimeout, GiveUp, GoBack, wireVars
  <2> QED BY <1>r, <2>1, BackWindow, Zenon
<1>7. CASE DiscardAck
  <2>1. CASE spc = "stream"
    BY <1>7, <2>1, BackWindow, Zenon DEF DiscardAck, senderVars
  <2>2. CASE spc # "stream"
    BY <1>7, <2>2, OfferWindow, Zenon DEF DiscardAck, senderVars, AwaitingAck
  <2> QED BY <2>1, <2>2, Zenon
<1> QED BY <1>1, <1>2, <1>3, <1>4, <1>5, <1>6, <1>7, Zenon DEF Sender

\* A step of recv_file that writes nothing and keeps or leaves its call.
LEMMA QuietWindow ==
    ASSUME TypeOK, WindowHolds, FreshIds, UNCHANGED senderVars, UNCHANGED stored,
           chunkQ' = chunkQ \/ (chunkQ # <<>> /\ chunkQ' = Tail(chunkQ)),
           \A i \in DOMAIN ackQ' :
               \/ \E j \in DOMAIN ackQ : ackQ'[i] = ackQ[j]
               \/ rpc = "reply" /\ ackQ'[i] = reply,
           \/ rpc' # "reply"
           \/ rpc = "reply" /\ reply' = reply
           \/ reply'.kind # "ack"
           \/ /\ store = "open" /\ reply'.id = req.id
              /\ reply'.next = Len(written),
           store' = "open" => \/ written' = <<>>
                              \/ store = "open" /\ UNCHANGED <<written, req>>
    PROVE  WindowHolds'
<1>1. \A i \in DOMAIN chunkQ' : \E j \in DOMAIN chunkQ : chunkQ'[i] = chunkQ[j]
  <2>1. chunkQ \in Seq(Chunk)
    BY Zenon DEF TypeOK, WireTypeOK
  <2> QED BY <2>1, TakenElems
<1>2. spc = "stream" => (\A i \in DOMAIN chunkQ : EndsInReach(chunkQ[i]))'
  BY <1>1, ZenonT(40) DEF WindowHolds, EndsInReach, InReach, senderVars
<1>3. spc = "stream" => (\A i \in DOMAIN ackQ : AcksWhole(ackQ[i]))'
  BY ZenonT(40) DEF WindowHolds, AcksWhole, senderVars
<1>4. spc = "stream" => (rpc = "reply" => AcksWhole(reply))'
  BY Zenon DEF WindowHolds, AcksWhole, senderVars
<1>5. spc = "stream" =>
         (store = "open" /\ req.id = sid => Whole(Len(written), chunkSize))'
  BY WholeZero, WindowTypes, Zenon DEF WindowHolds, senderVars
<1>6. (spc \in {"offer", "offerWait"} =>
          stored[sid] = 0 /\ \A i \in DOMAIN chunkQ : chunkQ[i].id # sid)'
  BY <1>1, Zenon DEF WindowHolds, senderVars
<1> QED BY <1>2, <1>3, <1>4, <1>5, <1>6, Zenon
           DEF WindowHolds, OffsetsWhole, InReach, senderVars

\* Writing the next chunk of the call in progress stays in its reach, and
\* ends on a whole number of chunks unless the file is complete.
LEMMA WriteWindow ==
    ASSUME TypeOK, TypeOK', HandleDiscipline, RequestsAreOffers, IdsAreFresh,
           ChunksAreSlices, AcksAreJustified, WindowHolds, FreshIds,
           UNCHANGED senderVars, TakeChunk, InOrder(Head(chunkQ)),
           RecordStored(Len(written \o Piece(Head(chunkQ)))),
           \/ /\ Len(written \o Piece(Head(chunkQ))) < req.total
              /\ written' = written \o Piece(Head(chunkQ))
              /\ UNCHANGED <<req, store>>
              /\ \/ UNCHANGED <<rpc, reply>>
                 \/ reply'.id = req.id /\ reply'.next = Len(written')
           \/ store' = "closed" /\ (rpc' = "reply" => reply'.kind # "ack")
    PROVE  WindowHolds'
<1> DEFINE c == Head(chunkQ)
           w == written \o Piece(c)
           n == Len(w)
<1>1. /\ rpc = "chunks" /\ store = "open" /\ c.id = req.id /\ chunkQ \in Seq(Chunk)
      /\ chunkQ # <<>> /\ chunkQ' = Tail(chunkQ) /\ UNCHANGED ackQ
  BY Zenon DEF TakeChunk, HandleDiscipline, TypeOK, WireTypeOK
<1>2. /\ 1 \in DOMAIN chunkQ /\ c = chunkQ[1] /\ c \in Chunk
      /\ \A i \in DOMAIN chunkQ' : \E j \in DOMAIN chunkQ : chunkQ'[i] = chunkQ[j]
  BY <1>1, TakenElems
<1>3. /\ req \in Req /\ written \in Seq(Nat) /\ Len(written) \in Nat
      /\ req.id \in Ids /\ req.total \in Nat /\ req.hash \in Seq(Nat)
      /\ stored \in [Ids -> Nat] /\ sid \in Ids
  <2>1. /\ req \in Req /\ written \in Seq(Nat)
        /\ stored \in [Ids -> Nat] /\ sid \in Ids
    BY Zenon DEF TypeOK, ReceiverTypeOK, SenderTypeOK
  <2> QED BY <2>1 DEF Req
<1>4. /\ [id |-> req.id, file |-> req.hash] \in offered
      /\ req.total = Len(req.hash) /\ Len(written) < req.total
  BY <1>1, Zenon DEF RequestsAreOffers, Offered, AcksAreJustified
<1>5. /\ c.data \in Seq(Nat) /\ Len(c.data) \in Nat /\ c.offset = Len(written)
      /\ IsSlice(c, req.hash)
  <2>1. PICK o \in offered : o.id = c.id /\ IsSlice(c, o.file)
    BY <1>2, Zenon DEF ChunksAreSlices
  <2>2. o.file = req.hash
    BY <1>1, <1>4, <2>1 DEF IdsAreFresh
  <2> QED BY <1>2, <2>1, <2>2 DEF Chunk, InOrder
<1>6. n = c.offset + Len(c.data) /\ n \in Nat
  <2>0. Len(c.data) <= req.total - Len(written)
    <3> HIDE DEF n, w, c
    <3> QED BY <1>3, <1>4, <1>5 DEF IsSlice
  <2>1. Piece(c) = c.data
    BY <2>0, Zenon DEF Piece
  <2>2. Len(written \o c.data) = Len(written) + Len(c.data)
    BY <1>3, <1>5
  <2>3. n = Len(written \o c.data)
    BY <2>1, Zenon
  <2> HIDE DEF n, w, c
  <2> QED BY <1>3, <1>5, <2>2, <2>3
<1> HIDE DEF c
<1>7. spc = "stream" /\ req.id = sid =>
         InReach(n) /\ (Whole(n, chunkSize) \/ n = Len(sfile)) /\ sfile = req.hash
  <2> SUFFICES ASSUME spc = "stream", req.id = sid
               PROVE  InReach(n) /\ (Whole(n, chunkSize) \/ n = Len(sfile))
                      /\ sfile = req.hash
    BY Zenon
  <2>1. EndsInReach(c)
    BY <1>2, Zenon DEF WindowHolds
  <2>2. sfile = req.hash
    <3>1. [id |-> sid, file |-> sfile] \in offered
      BY Zenon DEF RequestsAreOffers, Offered
    <3> QED BY <1>4, <3>1, Zenon DEF IdsAreFresh
  <2> HIDE DEF n
  <2> QED BY <1>1, <1>6, <2>1, <2>2, Zenon DEF EndsInReach
<1> HIDE DEF n, w
<1>8. /\ stored'[sid] = stored[sid] \/ (req.id = sid /\ stored'[sid] = n)
      /\ \A id \in Ids : id # req.id => stored'[id] = stored[id]
  BY <1>3, <1>6, Zenon DEF RecordStored, n, w, c
<1>9. \A id \in Ids : stored'[id] # 0 => \E o \in offered' : o.id = id
  <2>1. \A id \in Ids : stored[id] # 0 => \E o \in offered : o.id = id
    BY Zenon DEF WindowHolds
  <2> QED BY <1>4, <1>8, <2>1, Zenon DEF senderVars
<1>10. (spc \in {"offer", "offerWait"} =>
          stored[sid] = 0 /\ \A i \in DOMAIN chunkQ : chunkQ[i].id # sid)'
  BY <1>1, <1>2, <1>8, Zenon DEF WindowHolds, senderVars
<1>11. ASSUME spc = "stream"
       PROVE  (/\ OffsetsWhole
               /\ InReach(stored[sid])
               /\ \A i \in DOMAIN chunkQ : EndsInReach(chunkQ[i])
               /\ \A i \in DOMAIN ackQ : AcksWhole(ackQ[i])
               /\ rpc = "reply" => AcksWhole(reply)
               /\ store = "open" /\ req.id = sid => Whole(Len(written), chunkSize))'
  <2>1. OffsetsWhole' /\ (\A i \in DOMAIN ackQ : AcksWhole(ackQ[i]))'
    BY <1>1, <1>11, Zenon DEF WindowHolds, OffsetsWhole, InReach, AcksWhole, senderVars
  <2>2. InReach(stored[sid])'
    BY <1>7, <1>8, <1>11, Zenon DEF WindowHolds, InReach, senderVars
  <2>3. (\A i \in DOMAIN chunkQ : EndsInReach(chunkQ[i]))'
    <3>1. \A i \in DOMAIN chunkQ' : \E j \in DOMAIN chunkQ :
              chunkQ'[i] = chunkQ[j] /\ EndsInReach(chunkQ[j])
      BY <1>2, <1>11, Zenon DEF WindowHolds
    <3>2. UNCHANGED <<sid, sfile, scfg, chunkSize, lastAcked>>
      BY Zenon DEF senderVars
    <3> QED BY <3>1, <3>2, Zenon DEF EndsInReach, InReach
  <2>4. store' = "open" => /\ n < req.total /\ written' = w /\ req' = req
                           /\ \/ UNCHANGED <<rpc, reply>>
                              \/ reply'.id = req.id /\ reply'.next = n
    BY Zenon DEF n, w, c
  <2>5. store' = "open" /\ req.id = sid => Whole(n, chunkSize)
    BY <1>4, <1>6, <1>7, <1>11, <2>4
  <2>6. (rpc = "reply" => AcksWhole(reply))'
    <3>1. CASE store' = "open"
      BY <1>1, <2>4, <2>5, <3>1, Zenon DEF AcksWhole, senderVars
    <3>2. CASE store' # "open"
      <4>1. rpc' = "reply" => reply'.kind # "ack"
        BY <1>1, <3>2, Zenon DEF HandleDiscipline
      <4> QED BY <4>1, Zenon DEF AcksWhole
    <3> QED BY <3>1, <3>2, Zenon
  <2>7. (store = "open" /\ req.id = sid => Whole(Len(written), chunkSize))'
    BY <2>4, <2>5, Zenon DEF senderVars, n
  <2> QED BY <2>1, <2>2, <2>3, <2>6, <2>7, Zenon
<1> QED BY <1>9, <1>10, <1>11, Zenon DEF WindowHolds, senderVars

\* Every step of recv_file keeps the window.
LEMMA ReceiverWindow ==
    ASSUME TypeOK, TypeOK', HandleDiscipline, RequestsAreOffers, WritesCoverAcks,
           IdsAreFresh, ChunksAreSlices, AcksAreJustified, WindowHolds, FreshIds,
           Receiver, UNCHANGED senderVars
    PROVE  WindowHolds'
<1>q. UNCHANGED ackQ => \A i \in DOMAIN ackQ' : \E j \in DOMAIN ackQ : ackQ'[i] = ackQ[j]
  BY Zenon
<1>1. CASE RecvFile
  BY <1>1, <1>q, QuietWindow, Zenon DEF RecvFile, wireVars
<1>2. CASE TakeReq
  <2>1. UNCHANGED <<stored, chunkQ, ackQ>>
    BY <1>2, Zenon DEF TakeReq
  <2>2. rpc' = "reply" => reply'.kind # "ack"
    BY <1>2, ReqReply, Zenon
  <2>3. written' = <<>>
    BY <1>2, Zenon DEF TakeReq, Leave, WritesCoverAcks
  <2> QED BY <1>q, <2>1, <2>2, <2>3, QuietWindow, Zenon
<1>3. CASE SendReply
  <2>1. /\ stored' = stored /\ chunkQ' = chunkQ
        /\ rpc = "reply" /\ rpc' # "reply"
    BY <1>3, Zenon DEF SendReply, Replied, Leave, Abort
  <2>2. \A i \in DOMAIN ackQ' :
            (i \in DOMAIN ackQ /\ ackQ'[i] = ackQ[i]) \/ ackQ'[i] = reply
    <3>1. ackQ \in Seq(Ack) /\ reply \in Ack
      BY Zenon DEF TypeOK, WireTypeOK, ReceiverTypeOK
    <3> QED BY <1>3, <3>1, SentElems DEF SendReply, Transmit
  <2>3. store' = "open" => store = "open" /\ UNCHANGED <<written, req>>
    BY <1>3, Zenon DEF SendReply, Replied, Leave, Abort, HandleDiscipline
  <2>4. \A i \in DOMAIN ackQ' :
            \/ \E j \in DOMAIN ackQ : ackQ'[i] = ackQ[j]
            \/ rpc = "reply" /\ ackQ'[i] = reply
    BY <2>1, <2>2, Zenon
  <2>5. store' = "open" => \/ written' = <<>>
                           \/ store = "open" /\ UNCHANGED <<written, req>>
    BY <2>3, Zenon
  <2>6. UNCHANGED stored
    BY <2>1, Zenon
  <2> QED BY <2>1, <2>4, <2>5, <2>6, QuietWindow, Zenon
<1>4. CASE CommitEmpty
  <2>1. /\ UNCHANGED <<stored, chunkQ, ackQ>> /\ store' = "closed"
        /\ rpc' = "reply" => reply'.kind # "ack"
    <3>1. stored' = stored /\ chunkQ' = chunkQ /\ ackQ' = ackQ /\ store' = "closed"
      BY <1>4, Zenon DEF CommitEmpty, Commit, Abort
    <3>2. rpc' # "reply" \/ reply' = FileAck(req.id, "abort", 0, 0)
      BY <1>4, Zenon DEF CommitEmpty, Leave, Prepare
    <3> QED BY <3>1, <3>2, AckKind
  <2> QED BY <1>q, <2>1, QuietWindow, Zenon
<1>5. CASE RecvChunk
  <2> DEFINE c == Head(chunkQ)
  <2>1. /\ rpc = "chunks" /\ store = "open" /\ UNCHANGED ackQ /\ TakeChunk
        /\ chunkQ # <<>> /\ chunkQ' = Tail(chunkQ)
    BY <1>5, Zenon DEF RecvChunk, TakeChunk, HandleDiscipline
  <2>2. CASE ChunkTooLarge(c)
    <3>1. UNCHANGED stored /\ store' = "closed" /\ reply'.kind # "ack"
      BY <2>2, Zenon DEF ChunkTooLarge, Abort, Prepare, FileAck
    <3> QED BY <1>q, <2>1, <3>1, QuietWindow, Zenon
  <2>3. CASE ChunkOutOfOrder(c)
    <3>1. /\ UNCHANGED <<stored, store, written, req>>
          /\ reply'.id = req.id /\ reply'.next = Len(written)
      BY <2>3, Zenon DEF ChunkOutOfOrder, Prepare, FileAck
    <3> QED BY <1>q, <2>1, <3>1, QuietWindow, Zenon
  <2>4. CASE WriteFails(c)
    <3>1. UNCHANGED stored /\ store' = "closed" /\ rpc' = "idle"
      BY <2>4, Zenon DEF WriteFails, Abort, Leave
    <3> QED BY <1>q, <2>1, <3>1, QuietWindow, Zenon
  <2>5. CASE WriteMiddle(c)
    <3>1. /\ InOrder(c) /\ RecordStored(Len(written \o Piece(c)))
          /\ Len(written \o Piece(c)) < req.total
          /\ written' = written \o Piece(c) /\ UNCHANGED <<req, store>>
      BY <2>5, Zenon DEF WriteMiddle
    <3>2. UNCHANGED <<rpc, reply>> \/ (reply'.id = req.id /\ reply'.next = Len(written'))
      <4>1. \/ UNCHANGED <<rpc, reply>>
            \/ reply' = FileAck(req.id, "ack", Len(written'), 0)
        BY <2>5, <3>1, Zenon DEF WriteMiddle, Prepare
      <4> QED BY <4>1 DEF FileAck
    <3> QED BY <2>1, <3>1, <3>2, WriteWindow, Zenon
  <2>6. CASE WriteLast(c)
    <3>1. InOrder(c) /\ RecordStored(Len(written \o Piece(c))) /\ store' = "closed"
      BY <2>6, Zenon DEF WriteLast, Commit, Abort
    <3>2. rpc' = "reply" => reply'.kind # "ack"
      <4>1. \/ rpc' = "idle"
            \/ reply' = FileAck(req.id, "complete", req.total, 0)
            \/ reply' = FileAck(req.id, "abort", req.total, 0)
        BY <2>6, Zenon DEF WriteLast, Prepare, Leave
      <4> QED BY <4>1 DEF FileAck
    <3> QED BY <2>1, <3>1, <3>2, WriteWindow, Zenon
  <2> QED BY <1>5, <2>2, <2>3, <2>4, <2>5, <2>6, Zenon DEF RecvChunk
<1>6. CASE DiscardChunk
  BY <1>6, <1>q, QuietWindow, Zenon DEF DiscardChunk, receiverVars
<1>7. CASE ChunkTimeout
  BY <1>7, <1>q, QuietWindow, Zenon DEF ChunkTimeout, Abort, Leave, wireVars
<1> QED BY <1>1, <1>2, <1>3, <1>4, <1>5, <1>6, <1>7, Zenon DEF Receiver

\* With new ids, no ack that the sender reads in its chunk loop is beyond
\* next_to_send, whatever was lost, repeated or late: the check of the code
\* that ends the call on such an ack is never met.
THEOREM AcksNeverAhead == Spec => []AckNeverAhead
<1>1. Init => WindowHolds
  BY Zenon DEF Init, SenderInit, ReceiverInit, WindowHolds
<1>2. ASSUME TypeOK, TypeOK', HandleDiscipline, RequestsAreOffers, WritesCoverAcks,
             IdsAreFresh, ChunksAreSlices, AcksAreJustified, WindowHolds, [Next]_vars
      PROVE  WindowHolds'
  <2>1. CASE ~FreshIds
    BY <2>1, Zenon DEF WindowHolds, FreshIds
  <2>2. CASE UNCHANGED vars
    BY <1>2, <2>2, Zenon
       DEF vars, wireVars, senderVars, receiverVars, WindowHolds, OffsetsWhole,
           EndsInReach, AcksWhole, InReach, FreshIds
  <2> QED BY <1>2, <2>1, <2>2, CallWindow, SenderWindow, ReceiverWindow, Zenon DEF Next
<1>3. TypeOK /\ WritesCoverAcks /\ WindowHolds => AckNeverAhead
  <2> SUFFICES ASSUME TypeOK, WritesCoverAcks, WindowHolds, FreshIds, spc = "stream",
                      ~WindowOpen, NEW i \in DOMAIN ackQ, ackQ[i].id = sid,
                      ackQ[i].kind \in {"ack", "complete"}
               PROVE  ackQ[i].next <= nextToSend
    BY Zenon DEF AckNeverAhead
  <2> DEFINE room == scfg.window * chunkSize
  <2>1. /\ chunkSize \in Nat /\ lastAcked \in Nat /\ nextToSend \in Nat
        /\ Len(sfile) \in Nat /\ scfg.window \in Nat /\ room \in Nat
        /\ stored[sid] \in Nat
    BY WindowTypes, Zenon
  <2>2. ackQ[i].next \in Nat /\ ackQ[i].next <= stored[sid]
    <3>1. ackQ[i] \in Ack
      BY DEF TypeOK, WireTypeOK
    <3> QED BY <3>1, Zenon DEF Ack, WritesCoverAcks, AckAfterWrite
  <2>3. OffsetsWhole /\ stored[sid] <= Len(sfile) /\ stored[sid] <= lastAcked + room
    BY Zenon DEF WindowHolds, InReach
  <2>4. CASE nextToSend = Len(sfile)
    BY <2>1, <2>2, <2>3, <2>4
  <2>5. CASE nextToSend # Len(sfile)
    <3>1. /\ chunkSize > 0 /\ lastAcked <= nextToSend
          /\ Whole(lastAcked, chunkSize) /\ Whole(nextToSend, chunkSize)
          /\ nextToSend < Len(sfile)
      BY <2>1, <2>3, <2>5 DEF OffsetsWhole, InReach
    <3>2. LET inflight == IF nextToSend <= lastAcked THEN 0
                          ELSE (nextToSend - lastAcked + chunkSize - 1) \div chunkSize
          IN  ~(inflight < scfg.window) => lastAcked + room <= nextToSend
      BY <2>1, <3>1, WindowFills, Zenon
    <3>3. ~(InflightChunks < scfg.window)
      BY <3>1, Zenon DEF WindowOpen
    <3>4. lastAcked + room <= nextToSend
      BY <3>2, <3>3, Zenon DEF InflightChunks
    <3> HIDE DEF room
    <3> QED BY <2>1, <2>2, <2>3, <3>4
  <2> QED BY <2>4, <2>5, Zenon
<1> QED BY <1>1, <1>2, <1>3, TypeCorrect, HandleDisciplined, RequestsInvariant,
           CoverInvariant, FreshInvariant, SlicesInvariant, JustifiedInvariant,
           PTL DEF Spec

-------------------------------------------------------------------------------
(* The service *)

\* A step of a call in progress ends it, or leaves it as it is to the
\* application.
LEMMA SenderVisible ==
    ASSUME Sender
    PROVE  /\ spc # "idle"
           /\ \/ \E res \in {"ok", "err"} : Return(res)
              \/ spc' # "idle" /\ UNCHANGED <<sid, sfile, offered, outcomes>>
<1>1. CASE SendOffer
  BY <1>1, Zenon DEF SendOffer
<1>2. CASE OfferAck
  BY <1>2, Zenon DEF OfferAck, OnAccept, OnOfferRefused, OnStrayProgress
<1>3. CASE OfferTimeout
  BY <1>3, Zenon DEF OfferTimeout, GiveUp
<1>4. CASE SendChunk
  BY <1>4, Zenon DEF SendChunk
<1>5. CASE StreamAck
  BY <1>5, Zenon DEF StreamAck, OnProgress, senderVars
<1>6. CASE StreamTimeout
  BY <1>6, Zenon DEF StreamTimeout, GiveUp
<1>7. CASE DiscardAck
  BY <1>7, Zenon DEF DiscardAck, AwaitingAck, senderVars
<1> QED BY <1>1, <1>2, <1>3, <1>4, <1>5, <1>6, <1>7, Zenon DEF Sender

\* A step of the receiving call opens a handle, consumes the one it has, or
\* leaves it as it is to the application.
LEMMA ReceiverVisible ==
    ASSUME HandleDiscipline, Receiver
    PROVE  \/ store = store' /\ committed' = committed /\ (store = "open" => req' = req)
           \/ store # "open" /\ store' = "open" /\ committed' = committed
           \/ /\ store = "open" /\ store' = "closed"
              /\ \/ committed' = committed
                 \/ committed' = committed \cup {[id |-> req.id, file |-> req.hash]}
<1>1. CASE RecvFile
  BY <1>1, Zenon DEF RecvFile
<1>2. CASE TakeReq
  <2>1. store # "open"
    BY <1>2, Zenon DEF TakeReq, HandleDiscipline
  <2> QED BY <1>2, <2>1, Zenon DEF TakeReq
<1>3. CASE SendReply
  <2>1. committed' = committed
    BY <1>3, Zenon DEF SendReply
  <2>2. \/ store' = store /\ req' = req
        \/ store' = store /\ store # "open"
        \/ store = "open" /\ store' = "closed"
    BY <1>3, Zenon DEF SendReply, Replied, Abort, HandleDiscipline
  <2> QED BY <2>1, <2>2, Zenon
<1>4. CASE CommitEmpty
  <2>1. store = "open"
    BY <1>4, Zenon DEF CommitEmpty, HandleDiscipline
  <2> QED BY <1>4, <2>1, Zenon DEF CommitEmpty, HashMatches, Commit, Abort
<1>5. CASE RecvChunk
  <2> DEFINE c == Head(chunkQ)
  <2>1. store = "open"
    BY <1>5, Zenon DEF RecvChunk, TakeChunk, HandleDiscipline
  <2>2. CASE ChunkTooLarge(c) \/ WriteFails(c)
    BY <2>1, <2>2, Zenon DEF ChunkTooLarge, WriteFails, Abort
  <2>3. CASE ChunkOutOfOrder(c)
    BY <2>3, Zenon DEF ChunkOutOfOrder
  <2>4. CASE WriteMiddle(c)
    BY <2>4, Zenon DEF WriteMiddle
  <2>5. CASE WriteLast(c)
    <3>1. store' = "closed"
      BY <2>5, Zenon DEF WriteLast, Commit, Abort
    <3>2. \/ committed' = committed
          \/ committed' = committed \cup {[id |-> req.id, file |-> req.hash]}
      BY <2>5, Zenon DEF WriteLast, Commit, HashMatches
    <3> QED BY <2>1, <3>1, <3>2, Zenon
  <2> QED BY <1>5, <2>2, <2>3, <2>4, <2>5, Zenon DEF RecvChunk
<1>6. CASE DiscardChunk
  BY <1>6, Zenon DEF DiscardChunk, receiverVars
<1>7. CASE ChunkTimeout
  BY <1>7, Zenon DEF ChunkTimeout, Abort, HandleDiscipline
<1> QED BY <1>1, <1>2, <1>3, <1>4, <1>5, <1>6, <1>7, Zenon DEF Receiver

\* What the sending application sees of a step.
LEMMA SenderServes ==
    ASSUME TypeOK, OkMeansCommitted', (Call \/ Sender), UNCHANGED receiverVars
    PROVE  Service!Next \/ UNCHANGED Service!serviceVars
<1> DEFINE now == IF spc = "idle" THEN {} ELSE {[id |-> sid, file |-> sfile]}
           after == IF spc' = "idle" THEN {} ELSE {[id |-> sid', file |-> sfile']}
           open == IF store = "open" THEN {[id |-> req.id, file |-> req.hash]} ELSE {}
           openAfter == IF store' = "open" THEN {[id |-> req'.id, file |-> req'.hash]} ELSE {}
<1>1. openAfter = open /\ committed' = committed
  BY Zenon DEF receiverVars
<1>2. ASSUME NEW id \in Ids, NEW n, NEW file \in Files, NEW c, Begin(id, n, file, c)
      PROVE  Service!Next
  <2> DEFINE t == [id |-> id, file |-> file]
  <2>1. t \in Service!Transfers /\ t.id = id /\ t.file = file
    BY Zenon DEF Service!Transfers
  <2>2. now = {}
    BY <1>2, Zenon DEF Begin
  <2>3. CASE ValidConfig(c)
    <3>1. after = {t} /\ offered' = offered \cup {t} /\ outcomes' = outcomes
      BY <1>2, <2>3, Zenon DEF Begin
    <3>2. Service!Offer(t)
      BY <1>1, <2>2, <3>1, Zenon DEF Service!Offer
    <3> QED BY <2>1, <3>2, Zenon DEF Service!Next
  <2>4. CASE ~ValidConfig(c)
    <3>1. /\ after = {} /\ offered' = offered
          /\ outcomes' = outcomes \cup {[id |-> id, file |-> file, res |-> "err"]}
      BY <1>2, <2>4, Zenon DEF Begin
    <3>2. Service!TurnAway(t)
      BY <1>1, <2>1, <2>2, <3>1, Zenon DEF Service!TurnAway, Service!Ended
    <3> QED BY <2>1, <3>2, Zenon DEF Service!Next
  <2> QED BY <2>3, <2>4, Zenon
<1>3. CASE Call
  <2>1. nextId \in Ids /\ ExplicitIds \subseteq Ids
    BY SenderAssumption, Zenon DEF TypeOK, SenderTypeOK
  <2>2. ASSUME NEW id \in BareIds, NEW file \in Files, SendBareReq(id, file)
        PROVE  UNCHANGED Service!serviceVars
    <3>1. after = now /\ offered' = offered /\ outcomes' = outcomes
      BY <2>2, Zenon DEF SendBareReq
    <3> QED BY <1>1, <3>1, Zenon DEF Service!serviceVars
  <2> QED BY <1>2, <1>3, <2>1, <2>2, Zenon DEF Call, SendFile, SendFileWithId
<1>4. CASE Sender
  <2>1. spc # "idle"
    BY <1>4, SenderVisible, Zenon
  <2> DEFINE t == [id |-> sid, file |-> sfile]
  <2>2. t \in Service!Transfers /\ t.id = sid /\ t.file = sfile /\ now = {t}
    BY <2>1, Zenon DEF Service!Transfers, TypeOK, SenderTypeOK
  <2>3. ASSUME NEW res \in {"ok", "err"}, Return(res)
        PROVE  Service!Next
    <3>1. /\ after = {} /\ offered' = offered
          /\ outcomes' = outcomes \cup {[id |-> sid, file |-> sfile, res |-> res]}
      BY <2>3, Zenon DEF Return
    <3>2. CASE res = "err"
      <4>1. Service!Fail(t)
        BY <1>1, <2>2, <3>1, <3>2, Zenon DEF Service!Fail, Service!Ended
      <4> QED BY <2>2, <4>1, Zenon DEF Service!Next
    <3>3. CASE res = "ok"
      <4> DEFINE o == [id |-> sid, file |-> sfile, res |-> "ok"]
      <4>1. FreshIds /\ sfile # <<>> => t \in committed
        <5>1. o \in outcomes' /\ o.res = "ok" /\ o.file = sfile /\ o.id = sid
          BY <3>1, <3>3, Zenon
        <5>2. FreshIds => \A x \in outcomes' : x.res = "ok" /\ x.file # <<>> =>
                             [id |-> x.id, file |-> x.file] \in committed'
          BY Zenon DEF OkMeansCommitted, FreshIds
        <5> HIDE DEF o
        <5> QED BY <1>1, <5>1, <5>2, Zenon
      <4>2. Service!Succeed(t)
        BY <1>1, <2>2, <3>1, <3>3, <4>1, Zenon DEF Service!Succeed, Service!Ended
      <4> QED BY <2>2, <4>2, Zenon DEF Service!Next
    <3> QED BY <3>2, <3>3, Zenon
  <2>4. ASSUME spc' # "idle", UNCHANGED <<sid, sfile, offered, outcomes>>
        PROVE  UNCHANGED Service!serviceVars
    <3>1. after = now /\ offered' = offered /\ outcomes' = outcomes
      BY <2>1, <2>4, Zenon
    <3> QED BY <1>1, <3>1, Zenon DEF Service!serviceVars
  <2> QED BY <1>4, <2>3, <2>4, SenderVisible, Zenon
<1> QED BY <1>3, <1>4, Zenon

\* What the receiving application sees of a step.
LEMMA ReceiverServes ==
    ASSUME TypeOK, HandleDiscipline, RequestsAreOffers, RequestsAreOffers', Receiver,
           UNCHANGED senderVars
    PROVE  Service!Next \/ UNCHANGED Service!serviceVars
<1> DEFINE now == IF spc = "idle" THEN {} ELSE {[id |-> sid, file |-> sfile]}
           after == IF spc' = "idle" THEN {} ELSE {[id |-> sid', file |-> sfile']}
           open == IF store = "open" THEN {[id |-> req.id, file |-> req.hash]} ELSE {}
           openAfter == IF store' = "open" THEN {[id |-> req'.id, file |-> req'.hash]} ELSE {}
<1>1. after = now /\ offered' = offered /\ outcomes' = outcomes
  BY Zenon DEF senderVars
<1>2. CASE store = store' /\ committed' = committed /\ (store = "open" => req' = req)
  <2>1. openAfter = open
    BY <1>2, Zenon
  <2> QED BY <1>1, <1>2, <2>1, Zenon DEF Service!serviceVars
<1>3. CASE store # "open" /\ store' = "open" /\ committed' = committed
  <2> DEFINE t == [id |-> req'.id, file |-> req'.hash]
  <2>1. open = {} /\ openAfter = {t}
    BY <1>3, Zenon
  <2>2. t \in offered /\ t \in Service!Transfers
    BY <1>1, <1>3, Zenon
       DEF RequestsAreOffers, Offered, Service!Transfers, TypeOK, SenderTypeOK
  <2>3. Service!Open(t)
    BY <1>1, <1>3, <2>1, <2>2, Zenon DEF Service!Open
  <2> QED BY <2>2, <2>3, Zenon DEF Service!Next
<1>4. CASE store = "open" /\ store' = "closed"
  <2> DEFINE t == [id |-> req.id, file |-> req.hash]
  <2>1. open = {t} /\ openAfter = {}
    BY <1>4, Zenon
  <2>2. t \in Service!Transfers
    BY <1>4, Zenon DEF RequestsAreOffers, Offered, Service!Transfers, TypeOK, SenderTypeOK
  <2>3. CASE committed' = committed
    <3>1. Service!Abandon
      BY <1>1, <2>1, <2>3, Zenon DEF Service!Abandon
    <3> QED BY <3>1, Zenon DEF Service!Next
  <2>4. CASE committed' = committed \cup {t}
    <3>1. Service!Commit(t)
      BY <1>1, <2>1, <2>4, Zenon DEF Service!Commit
    <3> QED BY <2>2, <3>1, Zenon DEF Service!Next
  <2> QED BY <1>4, <2>3, <2>4, ReceiverVisible, Zenon
<1> QED BY <1>2, <1>3, <1>4, ReceiverVisible, Zenon

\* The file transfer implements the service: for every configuration, every
\* loss, failure and retry, what the two applications see are steps of
\* TransferService.
THEOREM ServiceIsImplemented == Spec => ImplementsService
<1>1. Init => Service!Init
  BY Zenon DEF Init, SenderInit, ReceiverInit, Service!Init
<1>2. ASSUME TypeOK, HandleDiscipline, RequestsAreOffers, RequestsAreOffers',
             OkMeansCommitted', [Next]_vars
      PROVE  [Service!Next]_Service!serviceVars
  <2>1. CASE UNCHANGED vars
    <3>1. UNCHANGED <<spc, sid, sfile, store, req, offered, committed, outcomes>>
      BY <2>1, Zenon DEF vars, senderVars, receiverVars
    <3> QED BY <3>1, Zenon DEF Service!serviceVars
  <2>2. CASE Next
    BY <1>2, <2>2, SenderServes, ReceiverServes, Zenon DEF Next
  <2> QED BY <1>2, <2>1, <2>2, Zenon
<1> QED BY <1>1, <1>2, TypeCorrect, HandleDisciplined, RequestsInvariant,
           OkIsCommitted, PTL DEF Spec, ImplementsService, Service!Spec
===============================================================================
