---------------------------- MODULE MailboxProofs -----------------------------
(***************************************************************************)
(* What Mailbox keeps for any number of pumps, receivers, message ids and  *)
(* slots, and whatever arrives: types and counts; and what it promises a   *)
(* receiver: it does not sleep over its message, it gets one pump's        *)
(* messages in order, and no message is lost or doubled.                   *)
(***************************************************************************)
EXTENDS Mailbox, FiniteSetTheorems, SequenceTheorems, TLAPS

\* The pumps that have a payload, or have pushed it and not notified yet.
Busy == {t \in Pumps : pump[t].pc # "idle"}

\* What is counted: each payload is with one pump, raises one Watch at most
\* once, and a receiver has seen no version that does not exist yet.
Counted ==
    /\ \A t \in Busy :
          /\ pump[t].got.by = t
          /\ pump[t].got.no <= arrived
          /\ pump[t].pc = "notify" => pump[t].got.p.id \in MESSAGE_IDS
    /\ \A id \in MESSAGE_IDS :
          /\ version[id] + Cardinality(Busy) <= arrived
          /\ \A i \in DOMAIN box[id] : box[id][i].no <= arrived
    /\ \A i \in DOMAIN taken : taken[i].m.no <= arrived
    /\ \A t \in Tasks :
          task[t].pc # "idle" => task[t].seen <= version[task[t].id]

-------------------------------------------------------------------------------
(* Sequences and sets *)

\* What TakeOut leaves: the elements before the hole, and those after it
\* moved down by one.
LEMMA TakeOutElems ==
    ASSUME NEW S, NEW b \in Seq(S), NEW i \in 1..Len(b)
    PROVE  /\ TakeOut(b, i) \in Seq(S)
           /\ Len(TakeOut(b, i)) = Len(b) - 1
           /\ \A k \in 1..(Len(b) - 1) :
                 TakeOut(b, i)[k] = IF k < i THEN b[k] ELSE b[k + 1]
<1> DEFINE f == SubSeq(b, 1, i - 1)
           g == SubSeq(b, i + 1, Len(b))
<1>1. /\ f \in Seq(S) /\ Len(f) = i - 1
      /\ \A k \in 1..(i - 1) : f[k] = b[k]
  <2>1. \A k \in 1..(i - 1) : b[k] \in S
    OBVIOUS
  <2> QED BY <2>1, SubSeqProperties
<1>2. /\ g \in Seq(S) /\ Len(g) = Len(b) - i
      /\ \A k \in 1..(Len(b) - i) : g[k] = b[i + k]
  <2>1. \A k \in (i + 1)..Len(b) : b[k] \in S
    OBVIOUS
  <2> QED BY <2>1, SubSeqProperties
<1> HIDE DEF f, g
<1>3. /\ f \o g \in Seq(S) /\ Len(f \o g) = Len(b) - 1
      /\ \A k \in 1..(Len(b) - 1) :
            (f \o g)[k] = IF k < i THEN f[k] ELSE g[k - (i - 1)]
  <2>1. /\ f \o g \in Seq(S) /\ Len(f \o g) = Len(f) + Len(g)
        /\ \A k \in 1..(Len(f) + Len(g)) :
              (f \o g)[k] = IF k <= Len(f) THEN f[k] ELSE g[k - Len(f)]
    BY <1>1, <1>2, ConcatProperties, Zenon
  <2>2. Len(f) + Len(g) = Len(b) - 1 /\ \A k \in Int : k <= Len(f) <=> k < i
    BY <1>1, <1>2
  <2> QED BY <1>1, <2>1, <2>2, SMTT(20)
<1>4. \A k \in 1..(Len(b) - 1) :
         (f \o g)[k] = IF k < i THEN b[k] ELSE b[k + 1]
  <2> SUFFICES ASSUME NEW k \in 1..(Len(b) - 1)
               PROVE  (f \o g)[k] = IF k < i THEN b[k] ELSE b[k + 1]
    BY Zenon
  <2>1. CASE k < i
    BY <1>1, <1>3, <2>1
  <2>2. CASE ~(k < i)
    <3>1. k - (i - 1) \in 1..(Len(b) - i) /\ i + (k - (i - 1)) = k + 1
      BY <2>2
    <3> QED BY <1>2, <1>3, <2>2, <3>1, Zenon
  <2> QED BY <2>1, <2>2, Zenon
<1> QED BY <1>3, <1>4, Zenon DEF TakeOut, f, g

\* What a push does to the mailboxes.
LEMMA PushElems ==
    ASSUME NEW S, NEW I, NEW b \in [I -> Seq(S)], NEW i \in I, NEW m \in S,
           NEW c, c = [b EXCEPT ![i] = Append(@, m)]
    PROVE  /\ c \in [I -> Seq(S)]
           /\ c[i] = Append(b[i], m) /\ Len(c[i]) = Len(b[i]) + 1
           /\ \A j \in I \ {i} : c[j] = b[j]
           /\ \A k \in 1..Len(b[i]) : c[i][k] = b[i][k]
           /\ c[i][Len(b[i]) + 1] = m
           /\ \A j \in I : DOMAIN c[j] = 1..Len(c[j]) /\ DOMAIN b[j] = 1..Len(b[j])
<1>1. b[i] \in Seq(S) /\ Append(b[i], m) \in Seq(S)
  OBVIOUS
<1>2. c \in [I -> Seq(S)] /\ c[i] = Append(b[i], m)
      /\ \A j \in I \ {i} : c[j] = b[j]
  BY <1>1, Zenon
<1>3. \A j \in I : DOMAIN c[j] = 1..Len(c[j]) /\ DOMAIN b[j] = 1..Len(b[j])
  BY <1>2
<1> QED BY <1>1, <1>2, <1>3, AppendProperties

\* What a pump holds is a message.
LEMMA InHandType ==
    ASSUME TypeOK, NEW t \in Pumps, pump[t].pc # "idle"
    PROVE  /\ pump[t] \in [pc : {"ingest", "notify"}, got : Messages]
           /\ pump[t].got \in Messages
  BY DEF TypeOK, IdlePump

\* What a receiver does while it is not idle.
LEMMA ReceivingType ==
    ASSUME TypeOK, NEW t \in Tasks, task[t].pc # "idle"
    PROVE  task[t] \in Receiving
<1>1. task[t] \in {IdleTask} \cup Receiving
  BY Zenon DEF TypeOK
<1>2. IdleTask.pc = "idle"
  BY DEF IdleTask
<1> QED BY <1>1, <1>2, Zenon

\* The counters are numbers and the mailboxes are sequences of messages.
LEMMA Numbers ==
    ASSUME TypeOK
    PROVE  /\ arrived \in Nat
           /\ \A id \in MESSAGE_IDS : /\ version[id] \in Nat
                                      /\ box[id] \in Seq(Messages)
                                      /\ Len(box[id]) \in Nat
<1>1. /\ arrived \in 0..MaxArrivals
      /\ version \in [MESSAGE_IDS -> 0..MaxArrivals]
      /\ box \in [MESSAGE_IDS -> Seq(Messages)]
  BY Zenon DEF TypeOK
<1>2. \A id \in MESSAGE_IDS : version[id] \in 0..MaxArrivals /\ box[id] \in Seq(Messages)
  BY <1>1, Zenon
<1>3. \A q \in Seq(Messages) : Len(q) \in Nat
  OBVIOUS
<1>4. \A k \in 0..MaxArrivals : k \in Nat
  OBVIOUS
<1> QED BY <1>1, <1>2, <1>3, <1>4, Zenon

\* What a receiver that is not idle asks for.
LEMMA AskedFor ==
    ASSUME TypeOK, NEW t \in Tasks, task[t].pc # "idle"
    PROVE  task[t].id \in MESSAGE_IDS /\ task[t].seen \in Nat
<1>1. task[t] \in Receiving
  BY ReceivingType, Zenon
<1>2. task[t].id \in MESSAGE_IDS /\ task[t].seen \in 0..MaxArrivals
  BY <1>1, Zenon DEF Receiving
<1>3. \A k \in 0..MaxArrivals : k \in Nat
  OBVIOUS
<1> QED BY <1>2, <1>3, Zenon

\* What is in a mailbox, and what has been taken, are messages.
LEMMA ElemTypes ==
    ASSUME TypeOK
    PROVE  /\ \A id \in MESSAGE_IDS : \A i \in DOMAIN box[id] :
                 box[id][i] \in Messages /\ box[id][i].no \in 1..MaxArrivals
           /\ \A i \in DOMAIN taken :
                 taken[i] \in Takings /\ taken[i].m \in Messages
                                     /\ taken[i].m.no \in 1..MaxArrivals
<1>1. \A id \in MESSAGE_IDS : \A i \in DOMAIN box[id] : box[id][i] \in Messages
  BY DEF TypeOK
<1>2. \A i \in DOMAIN taken : taken[i] \in Takings
  BY DEF TypeOK
<1> QED BY <1>1, <1>2, Zenon DEF Messages, Takings

\* The pumps are finitely many, and so are those with a payload.
LEMMA BusyFinite == IsFiniteSet(Busy) /\ Cardinality(Busy) \in Nat
<1>1. Busy \in SUBSET Pumps
  BY Zenon DEF Busy
<1> QED BY <1>1, MailboxAssumption, FS_Subset, FS_CardinalityType, Zenon

\* A pump that lets go of its payload leaves one busy pump fewer.
LEMMA LetsGo ==
    ASSUME TypeOK, NEW t \in Pumps, pump[t].pc # "idle",
           pump' = [pump EXCEPT ![t] = IdlePump]
    PROVE  Busy' = Busy \ {t} /\ Cardinality(Busy') = Cardinality(Busy) - 1
<1>1. Busy' = Busy \ {t}
  BY Zenon DEF TypeOK, Busy, IdlePump
<1>2. t \in Busy
  BY Zenon DEF Busy
<1> QED BY <1>1, <1>2, BusyFinite, FS_RemoveElement, Zenon

\* The receivers of an id are finitely many, before and after a step.
LEMMA WaitersFinite ==
    ASSUME NEW id
    PROVE  /\ IsFiniteSet({t \in Tasks : task[t].pc # "idle" /\ task[t].id = id})
           /\ Waiters(id) \in Nat
<1> DEFINE W == {t \in Tasks : task[t].pc # "idle" /\ task[t].id = id}
<1>1. W \in SUBSET Tasks
  BY Zenon
<1>2. IsFiniteSet(W) /\ Cardinality(W) \in Nat
  BY <1>1, MailboxAssumption, FS_Subset, FS_CardinalityType, Zenon
<1> QED BY <1>2, Zenon DEF Waiters

\* A step of a receiver that is not a new call adds no receiver.
LEMMA NoNewWaiter ==
    ASSUME TypeOK, NEW t \in Tasks, task[t].pc # "idle", NEW r,
           task' = [task EXCEPT ![t] = r],
           r.pc = "idle" \/ r.id = task[t].id
    PROVE  \A id \in MESSAGE_IDS : Waiters(id)' <= MAX_WAITERS
<1> TAKE id \in MESSAGE_IDS
<1> DEFINE W == {u \in Tasks : task[u].pc # "idle" /\ task[u].id = id}
<1>1. W' \in SUBSET W
  BY Zenon DEF TypeOK
<1>2. IsFiniteSet(W) /\ Cardinality(W) \in Nat /\ Cardinality(W) <= MAX_WAITERS
  BY WaitersFinite, Zenon DEF Waiters, TypeOK
<1>3. Cardinality(W') <= Cardinality(W) /\ Cardinality(W') \in Nat
  BY <1>1, <1>2, FS_Subset, FS_CardinalityType, Zenon
<1> QED BY <1>2, <1>3, MailboxAssumption DEF Waiters

-------------------------------------------------------------------------------
(* Types and counts *)

\* Nothing has arrived yet.
LEMMA InitCounted == Init => TypeOK /\ Counted
<1> SUFFICES ASSUME Init PROVE TypeOK /\ Counted
  BY Zenon
<1> USE MailboxAssumption DEF Init
<1>1. \A id : Waiters(id) = 0
  <2>1. \A id : {t \in Tasks : task[t].pc # "idle" /\ task[t].id = id} = {}
    BY Zenon DEF IdleTask
  <2> QED BY <2>1, FS_EmptySet, Zenon DEF Waiters
<1>2. Busy = {} /\ Cardinality(Busy) = 0
  BY FS_EmptySet, Zenon DEF Busy, IdlePump
<1>3. TypeOK
  BY <1>1 DEF TypeOK
<1>4. Counted
  BY <1>2 DEF Counted, IdleTask
<1> QED BY <1>3, <1>4, Zenon

\* A pump that receives becomes busy, with the next number.
LEMMA RecvCounted ==
    ASSUME TypeOK, Counted, NEW t \in Pumps, NEW p \in Arrivals, PumpRecv(t, p)
    PROVE  TypeOK' /\ Counted'
<1> USE MailboxAssumption DEF PumpRecv
<1>1. [no |-> arrived + 1, p |-> p, by |-> t] \in Messages
  BY DEF Messages, TypeOK
<1>2. Busy' = Busy \cup {t} /\ Cardinality(Busy') = Cardinality(Busy) + 1
  <2>1. Busy' = Busy \cup {t}
    BY Zenon DEF TypeOK, Busy
  <2>2. t \notin Busy
    BY Zenon DEF Busy
  <2> QED BY <2>1, <2>2, BusyFinite, FS_AddElement, Zenon
<1>3. TypeOK'
  <2>1. pump' \in [Pumps -> {IdlePump}
                             \cup [pc : {"ingest", "notify"}, got : Messages]]
    BY <1>1, Zenon DEF TypeOK
  <2>2. arrived' \in 0..MaxArrivals /\ 1..arrived \subseteq 1..arrived'
    BY DEF TypeOK
  <2>3. \A id \in MESSAGE_IDS : Waiters(id)' = Waiters(id)
    BY Zenon DEF Waiters
  <2> QED BY <2>1, <2>2, <2>3 DEF TypeOK
<1>4. \A u \in Busy' : /\ pump'[u].got.by = u
                       /\ pump'[u].got.no <= arrived'
                       /\ pump'[u].pc = "notify" => pump'[u].got.p.id \in MESSAGE_IDS
  <2> TAKE u \in Busy'
  <2>1. CASE u = t
    BY <2>1 DEF TypeOK
  <2>2. CASE u # t
    <3>1. u \in Busy /\ pump'[u] = pump[u]
      BY <1>2, <2>2 DEF TypeOK
    <3>2. pump[u].got.no \in Nat
      BY <3>1, InHandType DEF Busy, Messages
    <3> QED BY <3>1, <3>2 DEF Counted, TypeOK
  <2> QED BY <2>1, <2>2, Zenon
<1>5. \A id \in MESSAGE_IDS : version'[id] + Cardinality(Busy') <= arrived'
  <2> TAKE id \in MESSAGE_IDS
  <2>1. /\ version[id] + Cardinality(Busy) <= arrived
        /\ version'[id] = version[id] /\ arrived' = arrived + 1
    BY Zenon DEF Counted
  <2>2. version[id] \in Nat /\ arrived \in Nat /\ Cardinality(Busy) \in Nat
    BY Numbers, BusyFinite, Zenon
  <2>3. Cardinality(Busy') = Cardinality(Busy) + 1
    BY <1>2, Zenon
  <2> QED BY ONLY <2>1, <2>2, <2>3
<1>6. \A id \in MESSAGE_IDS : \A i \in DOMAIN box'[id] : box'[id][i].no <= arrived'
  <2> SUFFICES ASSUME NEW id \in MESSAGE_IDS, NEW i \in DOMAIN box[id]
               PROVE  box[id][i].no <= arrived + 1
    BY Zenon
  <2>1. box[id][i].no <= arrived /\ box[id][i].no \in 1..MaxArrivals
    BY ElemTypes, Zenon DEF Counted
  <2>2. arrived \in Nat
    BY Numbers, Zenon
  <2> QED BY ONLY <2>1, <2>2
<1>7. \A i \in DOMAIN taken' : taken'[i].m.no <= arrived'
  <2> SUFFICES ASSUME NEW i \in DOMAIN taken
               PROVE  taken[i].m.no <= arrived + 1
    BY Zenon
  <2>1. taken[i].m.no <= arrived /\ taken[i].m.no \in 1..MaxArrivals
    BY ElemTypes, Zenon DEF Counted
  <2>2. arrived \in Nat
    BY Numbers, Zenon
  <2> QED BY ONLY <2>1, <2>2
<1> QED BY <1>3, <1>4, <1>5, <1>6, <1>7, Zenon DEF Counted

\* A pump pushes what it holds.
Pushes(t) ==
    LET got == pump[t].got IN
    /\ pump[t].pc = "ingest"
    /\ got.p.id \in MESSAGE_IDS
    /\ Len(box[got.p.id]) # DEPTH
    /\ box' = [box EXCEPT ![got.p.id] = Append(@, got)]
    /\ pump' = [pump EXCEPT ![t].pc = "notify"]
    /\ UNCHANGED <<version, task, arrived, taken, refused, dropped>>

\* A pump is done: the payload is refused or dropped, or the notification sent.
Ends(t) ==
    LET got == pump[t].got IN
    /\ \/ /\ pump[t].pc = "ingest"
          /\ \/ refused' = refused \cup {got.no} /\ dropped' = dropped
             \/ refused' = refused /\ dropped' = dropped \cup {got.no}
          /\ version' = version
       \/ /\ pump[t].pc = "notify"
          /\ refused' = refused /\ dropped' = dropped
          /\ version' = [version EXCEPT ![got.p.id] = @ + 1]
    /\ pump' = [pump EXCEPT ![t] = IdlePump]
    /\ UNCHANGED <<box, task, arrived, taken>>

\* A step of a pump that has a payload is one of the two.
LEMMA PumpSteps ==
    ASSUME NEW t \in Pumps, PumpStep(t) \/ CancelPump(t)
    PROVE  Pushes(t) \/ Ends(t)
<1>1. CASE Ingest(t)
  BY <1>1, Zenon DEF Ingest, Decodes, Fits, Pushes, Ends
<1>2. CASE Notify(t)
  BY <1>2, Zenon DEF Notify, Ends
<1>3. CASE CancelPump(t)
  BY <1>3, Zenon DEF CancelPump, Ends
<1> QED BY <1>1, <1>2, <1>3, Zenon DEF PumpStep

\* What a pump holds has arrived.
LEMMA InHandCounted ==
    ASSUME TypeOK, Counted, NEW t \in Pumps, pump[t].pc # "idle"
    PROVE  /\ t \in Busy /\ pump[t].got.by = t
           /\ pump[t].got \in Messages /\ pump[t].got.no \in 1..arrived
<1>1. t \in Busy
  BY Zenon DEF Busy
<1>2. pump[t].got \in Messages /\ pump[t].got.no \in 1..MaxArrivals
  BY InHandType, Zenon DEF Messages
<1>3. pump[t].got.no <= arrived /\ pump[t].got.by = t /\ arrived \in Nat
  BY <1>1 DEF Counted, TypeOK
<1> QED BY <1>1, <1>2, <1>3, MailboxAssumption

\* A pump that pushes its payload stays busy.
LEMMA PushCounted ==
    ASSUME TypeOK, Counted, NEW t \in Pumps, Pushes(t)
    PROVE  TypeOK' /\ Counted'
<1> USE MailboxAssumption
<1> DEFINE got == pump[t].got
<1>a. /\ pump[t].pc # "idle" /\ t \in Busy
      /\ got \in Messages /\ got.no \in 1..arrived
      /\ task' = task /\ arrived' = arrived /\ taken' = taken
  BY InHandCounted, Zenon DEF Pushes
<1>b. \A id \in MESSAGE_IDS : Waiters(id)' = Waiters(id)
  BY <1>a, Zenon DEF Waiters
<1>1. /\ got.p.id \in MESSAGE_IDS
      /\ box' = [box EXCEPT ![got.p.id] = Append(@, got)]
      /\ pump' = [pump EXCEPT ![t].pc = "notify"]
      /\ version' = version /\ refused' = refused /\ dropped' = dropped
      /\ Len(box[got.p.id]) # DEPTH
  BY Zenon DEF Pushes
<1>2. /\ pump' \in [Pumps -> {IdlePump}
                           \cup [pc : {"ingest", "notify"}, got : Messages]]
      /\ pump'[t].got = got /\ pump'[t].pc = "notify"
      /\ \A u \in Pumps \ {t} : pump'[u] = pump[u]
  BY <1>a, <1>1, InHandType, Zenon DEF TypeOK
<1>3. /\ box' \in [MESSAGE_IDS -> Seq(Messages)]
      /\ \A id \in MESSAGE_IDS : Len(box'[id]) <= DEPTH
      /\ \A id \in MESSAGE_IDS : \A i \in DOMAIN box'[id] :
            \/ i \in DOMAIN box[id] /\ box'[id][i] = box[id][i]
            \/ id = got.p.id /\ box'[id][i] = got
  <2> HIDE DEF got
  <2>1. /\ box \in [MESSAGE_IDS -> Seq(Messages)]
        /\ \A id \in MESSAGE_IDS : Len(box[id]) \in Nat /\ Len(box[id]) <= DEPTH
    BY DEF TypeOK
  <2>2. /\ box' \in [MESSAGE_IDS -> Seq(Messages)]
        /\ Len(box'[got.p.id]) = Len(box[got.p.id]) + 1
        /\ \A j \in MESSAGE_IDS \ {got.p.id} : box'[j] = box[j]
        /\ \A k \in 1..Len(box[got.p.id]) : box'[got.p.id][k] = box[got.p.id][k]
        /\ box'[got.p.id][Len(box[got.p.id]) + 1] = got
        /\ \A j \in MESSAGE_IDS : DOMAIN box'[j] = 1..Len(box'[j])
                                 /\ DOMAIN box[j] = 1..Len(box[j])
    <3>1. \E c \in {box'} : c = [box EXCEPT ![got.p.id] = Append(@, got)]
      BY <1>1, Zenon
    <3> QED BY <1>a, <1>1, <2>1, <3>1, PushElems, SMTT(20)
  <2>3. \A i \in 1..(Len(box[got.p.id]) + 1) :
           i \in 1..Len(box[got.p.id]) \/ i = Len(box[got.p.id]) + 1
    BY <1>1, <2>1, SMTT(20)
  <2>4. Len(box'[got.p.id]) <= DEPTH
    <3>1. /\ Len(box'[got.p.id]) = Len(box[got.p.id]) + 1
          /\ Len(box[got.p.id]) \in Nat /\ Len(box[got.p.id]) <= DEPTH
          /\ Len(box[got.p.id]) # DEPTH
      BY <1>1, <2>1, <2>2, Zenon
    <3> QED BY ONLY <3>1, MailboxAssumption
  <2>5. \A i \in DOMAIN box'[got.p.id] :
           \/ i \in DOMAIN box[got.p.id] /\ box'[got.p.id][i] = box[got.p.id][i]
           \/ box'[got.p.id][i] = got
    BY <1>1, <2>2, <2>3, Zenon
  <2> QED BY <1>1, <2>1, <2>2, <2>4, <2>5, Zenon
<1>4. TypeOK'
  <2>1. \A id \in MESSAGE_IDS : \A i \in DOMAIN box'[id] : box'[id][i].p.id = id
    <3>1. \A id \in MESSAGE_IDS : \A i \in DOMAIN box[id] : box[id][i].p.id = id
      BY Zenon DEF TypeOK
    <3> QED BY <1>3, <3>1
  <2>2. /\ version' \in [MESSAGE_IDS -> 0..MaxArrivals]
        /\ task' \in [Tasks -> {IdleTask} \cup Receiving]
        /\ arrived' \in 0..MaxArrivals
        /\ taken' \in Seq(Takings)
        /\ refused' \subseteq 1..arrived' /\ dropped' \subseteq 1..arrived'
    BY <1>a, <1>1, Zenon DEF TypeOK
  <2>3. \A id \in MESSAGE_IDS : Waiters(id)' <= MAX_WAITERS
    BY <1>b, Zenon DEF TypeOK
  <2> QED BY <1>2, <1>3, <2>1, <2>2, <2>3, Zenon DEF TypeOK
<1>5. Busy' = Busy
  BY <1>a, <1>2, Zenon DEF Busy
<1>6. \A u \in Busy' : /\ pump'[u].got.by = u
                       /\ pump'[u].got.no <= arrived'
                       /\ pump'[u].pc = "notify" => pump'[u].got.p.id \in MESSAGE_IDS
  <2>1. \A u \in Busy \ {t} : pump'[u] = pump[u]
    BY <1>2, Zenon DEF Busy
  <2>2. got.by = t /\ got.no <= arrived
    BY <1>a, Zenon DEF Counted
  <2> SUFFICES ASSUME NEW u \in Busy
               PROVE  /\ pump'[u].got.by = u /\ pump'[u].got.no <= arrived
                      /\ pump'[u].pc = "notify" => pump'[u].got.p.id \in MESSAGE_IDS
    BY <1>a, <1>5, Zenon
  <2>3. CASE u = t
    BY <1>1, <1>2, <2>2, <2>3, Zenon
  <2>4. CASE u # t
    BY <2>1, <2>4, Zenon DEF Counted
  <2> QED BY <2>3, <2>4, Zenon
<1>7. \A id \in MESSAGE_IDS : \A i \in DOMAIN box'[id] : box'[id][i].no <= arrived'
  <2>1. \A id \in MESSAGE_IDS : \A i \in DOMAIN box[id] : box[id][i].no <= arrived
    BY Zenon DEF Counted
  <2> QED BY <1>a, <1>3, <2>1
<1> QED BY <1>a, <1>1, <1>4, <1>5, <1>6, <1>7, Zenon DEF Counted

\* A pump that is done with its payload is no longer busy.
LEMMA EndCounted ==
    ASSUME TypeOK, Counted, NEW t \in Pumps, Ends(t)
    PROVE  TypeOK' /\ Counted'
<1> USE MailboxAssumption
<1> DEFINE got == pump[t].got
<1>a. /\ pump[t].pc # "idle" /\ t \in Busy
      /\ got \in Messages /\ got.no \in 1..arrived
      /\ task' = task /\ arrived' = arrived /\ taken' = taken
  BY InHandCounted, Zenon DEF Ends
<1>b. \A id \in MESSAGE_IDS : Waiters(id)' = Waiters(id)
  BY <1>a, Zenon DEF Waiters
<1>c. /\ pump' = [pump EXCEPT ![t] = IdlePump]
      /\ box' = box
      /\ refused' \subseteq 1..arrived /\ dropped' \subseteq 1..arrived
      /\ \/ version' = version
         \/ /\ version' = [version EXCEPT ![got.p.id] = @ + 1]
            /\ got.p.id \in MESSAGE_IDS
  BY <1>a, Zenon DEF Ends, TypeOK, Counted
<1>1. Busy' = Busy \ {t} /\ Cardinality(Busy') = Cardinality(Busy) - 1
  BY <1>a, <1>c, LetsGo, Zenon
<1>2. \A id \in MESSAGE_IDS :
         /\ version'[id] + Cardinality(Busy') <= arrived
         /\ version'[id] \in Nat /\ version'[id] >= version[id]
         /\ version'[id] <= arrived
  <2> TAKE id \in MESSAGE_IDS
  <2>1. version'[id] \in {version[id], version[id] + 1}
    BY <1>c, Zenon DEF TypeOK
  <2>2. /\ version[id] \in Nat /\ arrived \in Nat
        /\ version[id] + Cardinality(Busy) <= arrived
    BY DEF TypeOK, Counted
  <2>3. Cardinality(Busy) \in Nat /\ Cardinality(Busy') \in Nat
    <3>1. Cardinality(Busy) \in Nat /\ IsFiniteSet(Busy)
      BY BusyFinite, Zenon
    <3>2. Cardinality(Busy) # 0
      BY <1>a, <3>1, FS_EmptySet, Zenon
    <3> QED BY <1>1, <3>1, <3>2
  <2> QED BY <1>1, <2>1, <2>2, <2>3
<1>3. TypeOK'
  <2>1. version' \in [MESSAGE_IDS -> 0..MaxArrivals]
    <3>1. version' \in [MESSAGE_IDS -> Nat]
      BY <1>c, <1>2, Zenon DEF TypeOK
    <3>2. \A id \in MESSAGE_IDS : version'[id] \in 0..MaxArrivals
      BY <1>2 DEF TypeOK
    <3> QED BY <3>1, <3>2, Zenon
  <2>2. pump' \in [Pumps -> {IdlePump}
                             \cup [pc : {"ingest", "notify"}, got : Messages]]
    BY <1>c, Zenon DEF TypeOK
  <2> QED BY <1>a, <1>b, <1>c, <2>1, <2>2, Zenon DEF TypeOK
<1>4. \A u \in Busy' : u \in Busy /\ pump'[u] = pump[u]
  BY <1>c, <1>1, Zenon DEF TypeOK, Busy
<1>5. \A u \in Tasks :
         task'[u].pc # "idle" => task'[u].seen <= version'[task'[u].id]
  <2> SUFFICES ASSUME NEW u \in Tasks, task[u].pc # "idle"
               PROVE  task[u].seen <= version'[task[u].id]
    BY <1>a, Zenon
  <2>1. task[u].seen \in Nat /\ task[u].id \in MESSAGE_IDS
    BY AskedFor, Zenon
  <2>2. task[u].seen <= version[task[u].id]
    BY Zenon DEF Counted
  <2>3. /\ version[task[u].id] \in Nat /\ version'[task[u].id] \in Nat
        /\ version[task[u].id] <= version'[task[u].id]
    <3>1. \A a, b \in Nat : b >= a => a <= b
      OBVIOUS
    <3> QED BY <1>2, <2>1, <3>1, Numbers, Zenon
  <2> QED BY ONLY <2>1, <2>2, <2>3
<1> QED BY <1>a, <1>c, <1>2, <1>3, <1>4, <1>5 DEF Counted

\* A look that finds message i takes it out of the mailbox and ends the call.
Takes(t, i) ==
    LET r == task[t] IN
    /\ i \in DOMAIN box[r.id]
    /\ Matches(r, box[r.id][i])
    /\ \A j \in DOMAIN box[r.id] : Matches(r, box[r.id][j]) => i <= j
    /\ box' = [box EXCEPT ![r.id] = TakeOut(@, i)]
    /\ taken' = Append(taken, [m |-> box[r.id][i], from |-> r.from, pred |-> r.pred])
    /\ task' = [task EXCEPT ![t] = IdleTask]

\* What a look does.
LEMMA LookTakes ==
    ASSUME NEW t \in Tasks, Look(t)
    PROVE  /\ UNCHANGED <<pump, version, arrived, refused, dropped>>
           /\ task[t].pc = "look"
           /\ \/ /\ \A i \in DOMAIN box[task[t].id] :
                       ~ Matches(task[t], box[task[t].id][i])
                 /\ task' = [task EXCEPT ![t].pc = "wait"]
                 /\ UNCHANGED <<box, taken>>
              \/ \E i \in DOMAIN box[task[t].id] : Takes(t, i)
  BY Zenon DEF Look, Takes, Found

\* What a taking leaves in the mailboxes, and what it adds to the history.
LEMMA TakesElems ==
    ASSUME TypeOK, NEW t \in Tasks, task[t].pc = "look", NEW i, Takes(t, i)
    PROVE  LET id == task[t].id
               n == Len(box[id])
           IN  /\ id \in MESSAGE_IDS /\ i \in 1..n /\ n \in Nat
               /\ task[t] \in Receiving
               /\ box' \in [MESSAGE_IDS -> Seq(Messages)]
               /\ \A j \in MESSAGE_IDS \ {id} : box'[j] = box[j]
               /\ Len(box'[id]) = n - 1
               /\ DOMAIN box'[id] = 1..(n - 1) /\ DOMAIN box[id] = 1..n
               /\ \A k \in 1..(n - 1) :
                     box'[id][k] = IF k < i THEN box[id][k] ELSE box[id][k + 1]
               /\ taken' \in Seq(Takings)
               /\ Len(taken') = Len(taken) + 1 /\ Len(taken) \in Nat
               /\ DOMAIN taken' = 1..(Len(taken) + 1)
               /\ DOMAIN taken = 1..Len(taken)
               /\ \A k \in 1..Len(taken) : taken'[k] = taken[k]
               /\ taken'[Len(taken) + 1] =
                     [m |-> box[id][i], from |-> task[t].from, pred |-> task[t].pred]
<1> DEFINE id == task[t].id
           b == box[id]
           x == [m |-> b[i], from |-> task[t].from, pred |-> task[t].pred]
<1>1. task[t] \in Receiving /\ id \in MESSAGE_IDS
  BY ReceivingType, Zenon DEF Receiving
<1>2. /\ b \in Seq(Messages) /\ i \in 1..Len(b) /\ Len(b) \in Nat
      /\ DOMAIN b = 1..Len(b) /\ b[i] \in Messages
  <2>1. b \in Seq(Messages) /\ i \in DOMAIN b
    BY <1>1, Numbers, Zenon DEF Takes
  <2> HIDE DEF b
  <2> QED BY ONLY <2>1
<1>3. /\ TakeOut(b, i) \in Seq(Messages)
      /\ Len(TakeOut(b, i)) = Len(b) - 1
      /\ \A k \in 1..(Len(b) - 1) :
            TakeOut(b, i)[k] = IF k < i THEN b[k] ELSE b[k + 1]
  BY <1>2, TakeOutElems, Zenon
<1>4. /\ box' \in [MESSAGE_IDS -> Seq(Messages)]
      /\ box'[id] = TakeOut(b, i)
      /\ \A j \in MESSAGE_IDS \ {id} : box'[j] = box[j]
  BY <1>1, <1>3, Zenon DEF Takes, TypeOK
<1>5. x \in Takings
  BY <1>1, <1>2, Zenon DEF Takings, Receiving
<1>6. taken \in Seq(Takings) /\ taken' = Append(taken, x)
  BY Zenon DEF TypeOK, Takes
<1> HIDE DEF x
<1>7. /\ taken' \in Seq(Takings) /\ Len(taken') = Len(taken) + 1
      /\ Len(taken) \in Nat /\ DOMAIN taken' = 1..(Len(taken) + 1)
      /\ DOMAIN taken = 1..Len(taken)
      /\ \A k \in 1..Len(taken) : taken'[k] = taken[k]
      /\ taken'[Len(taken) + 1] = x
  BY <1>5, <1>6, AppendProperties
<1>8. DOMAIN box'[id] = 1..(Len(b) - 1)
  <2>1. box'[id] \in Seq(Messages) /\ Len(box'[id]) = Len(b) - 1
    BY <1>3, <1>4, Zenon
  <2>2. \A q \in Seq(Messages) : DOMAIN q = 1..Len(q)
    OBVIOUS
  <2> QED BY <2>1, <2>2, Zenon
<1> QED BY <1>1, <1>2, <1>3, <1>4, <1>7, <1>8, Zenon DEF x

\* A step that leaves the pumps alone leaves the busy ones as they are.
LEMMA SameBusy ==
    ASSUME pump' = pump
    PROVE  Busy' = Busy /\ Cardinality(Busy') = Cardinality(Busy)
  BY Zenon DEF Busy

\* What a receiver does next keeps the types and the counts, if it has seen
\* nothing that is not there.
LEMMA TaskRecord ==
    ASSUME TypeOK, Counted, NEW t \in Tasks,
           UNCHANGED <<pump, version, arrived, refused, dropped>>,
           NEW r \in {IdleTask} \cup Receiving,
           task' = [task EXCEPT ![t] = r],
           \A id \in MESSAGE_IDS : Waiters(id)' <= MAX_WAITERS,
           r.pc # "idle" => r.seen <= version[r.id]
    PROVE  /\ task' \in [Tasks -> {IdleTask} \cup Receiving]
           /\ \A u \in Tasks :
                 task'[u].pc # "idle" => task'[u].seen <= version'[task'[u].id]
           /\ box' = box /\ taken' = taken => TypeOK' /\ Counted'
<1>1. task' \in [Tasks -> {IdleTask} \cup Receiving]
  BY Zenon DEF TypeOK
<1>2. \A u \in Tasks :
         task'[u].pc # "idle" => task'[u].seen <= version'[task'[u].id]
  BY Zenon DEF TypeOK, Counted
<1>3. box' = box /\ taken' = taken => TypeOK'
  BY <1>1, Zenon DEF TypeOK
<1>4. box' = box /\ taken' = taken => Counted'
  BY <1>2, SameBusy, Zenon DEF Counted
<1> QED BY <1>1, <1>2, <1>3, <1>4, Zenon

\* A new call has seen nothing, and is one receiver more.
LEMMA RecvNextCounted ==
    ASSUME TypeOK, Counted, NEW t \in Tasks, NEW id \in MESSAGE_IDS,
           NEW pred \in Predicates, NEW from \in Sources,
           RecvNext(t, id, from, pred)
    PROVE  TypeOK' /\ Counted'
<1> USE MailboxAssumption
<1> DEFINE r == [pc |-> "look", id |-> id, from |-> from, pred |-> pred, seen |-> 0]
<1>a. UNCHANGED <<pump, version, arrived, refused, dropped>>
  BY Zenon DEF RecvNext
<1>1. r \in Receiving /\ task' = [task EXCEPT ![t] = r]
      /\ box' = box /\ taken' = taken
  BY DEF RecvNext, Receiving
<1>2. r.seen <= version[r.id]
  BY DEF TypeOK
<1>3. \A k \in MESSAGE_IDS : Waiters(k)' <= MAX_WAITERS
  <2> TAKE k \in MESSAGE_IDS
  <2> DEFINE W == {u \in Tasks : task[u].pc # "idle" /\ task[u].id = k}
  <2>1. IsFiniteSet(W) /\ Cardinality(W) \in Nat /\ Cardinality(W) <= MAX_WAITERS
    BY WaitersFinite, Zenon DEF Waiters, TypeOK
  <2>2. CASE k # id
    <3>1. W' = W
      BY <1>1, <2>2 DEF TypeOK, RecvNext
    <3> QED BY <2>1, <3>1, Zenon DEF Waiters
  <2>3. CASE k = id
    <3>1. W' = W \cup {t}
      BY <1>1, <2>3, Zenon DEF TypeOK
    <3>2. Cardinality(W) < MAX_WAITERS
      BY <2>3, Zenon DEF RecvNext, Waiters
    <3>3. Cardinality(W') <= Cardinality(W) + 1
      <4>1. Cardinality(W') \in {Cardinality(W), Cardinality(W) + 1}
        BY <2>1, <3>1, FS_AddElement, Zenon
      <4> QED BY <2>1, <4>1
    <3>4. Cardinality(W') \in Nat
      BY <2>1, <3>1, FS_AddElement, FS_CardinalityType, Zenon
    <3> QED BY <2>1, <3>2, <3>3, <3>4 DEF Waiters
  <2> QED BY <2>2, <2>3, Zenon
<1> QED BY TaskRecord, <1>a, <1>1, <1>2, <1>3, Zenon

\* A call that is dropped is one receiver less.
LEMMA CancelCounted ==
    ASSUME TypeOK, Counted, NEW t \in Tasks, Cancel(t)
    PROVE  TypeOK' /\ Counted'
<1>1. \A id \in MESSAGE_IDS : Waiters(id)' <= MAX_WAITERS
  BY NoNewWaiter, Zenon DEF Cancel, IdleTask
<1> QED BY <1>1, TaskRecord, Zenon DEF Cancel, IdleTask

\* A receiver that wakes has seen the version that woke it.
LEMMA ChangedCounted ==
    ASSUME TypeOK, Counted, NEW t \in Tasks, Changed(t)
    PROVE  TypeOK' /\ Counted'
<1> DEFINE r == [task[t] EXCEPT !.pc = "look", !.seen = version[task[t].id]]
<1>a. UNCHANGED <<pump, version, arrived, refused, dropped>>
  BY Zenon DEF Changed
<1>1. task[t].pc # "idle" /\ task[t] \in Receiving
  BY ReceivingType, Zenon DEF Changed
<1>2. /\ r \in Receiving /\ r.id = task[t].id /\ r.seen = version[r.id]
      /\ r.seen \in Nat
  <2>1. version[task[t].id] \in 0..MaxArrivals
    BY <1>1, Zenon DEF Receiving, TypeOK
  <2>2. ASSUME NEW q \in Receiving, NEW v \in 0..MaxArrivals
        PROVE  LET q1 == [q EXCEPT !.pc = "look", !.seen = v]
               IN  q1 \in Receiving /\ q1.id = q.id /\ q1.seen = v
    BY Zenon DEF Receiving
  <2>3. r \in Receiving /\ r.id = task[t].id /\ r.seen = version[task[t].id]
    BY <1>1, <2>1, <2>2, Zenon
  <2> QED BY <2>1, <2>3
<1>3. task' = [task EXCEPT ![t] = r] /\ box' = box /\ taken' = taken
  BY Zenon DEF Changed, TypeOK
<1> HIDE DEF r
<1>4. \A id \in MESSAGE_IDS : Waiters(id)' <= MAX_WAITERS
  BY <1>1, <1>2, <1>3, NoNewWaiter, Zenon
<1>5. r.seen <= version[r.id]
  BY <1>2
<1> QED BY TaskRecord, <1>a, <1>2, <1>3, <1>4, <1>5, Zenon

\* A receiver that finds nothing goes on to wait.
LEMMA SleepCounted ==
    ASSUME TypeOK, Counted, NEW t \in Tasks, task[t].pc = "look",
           task' = [task EXCEPT ![t].pc = "wait"],
           UNCHANGED <<pump, box, version, arrived, taken, refused, dropped>>
    PROVE  TypeOK' /\ Counted'
<1> DEFINE r == [task[t] EXCEPT !.pc = "wait"]
<1>1. task[t] \in Receiving
  BY ReceivingType, Zenon
<1>2. r \in Receiving /\ r.id = task[t].id /\ r.seen = task[t].seen
  BY <1>1, Zenon DEF Receiving
<1>3. task' = [task EXCEPT ![t] = r]
  BY Zenon DEF TypeOK
<1>4. r.seen <= version[r.id]
  BY <1>2, Zenon DEF Counted
<1> HIDE DEF r
<1>5. \A id \in MESSAGE_IDS : Waiters(id)' <= MAX_WAITERS
  BY <1>2, <1>3, NoNewWaiter, Zenon
<1> QED BY TaskRecord, <1>2, <1>3, <1>4, <1>5, Zenon

\* A receiver takes one message: all others stay, and the history grows by it.
LEMMA TakesKeeps ==
    ASSUME TypeOK, NEW t \in Tasks, task[t].pc = "look",
           NEW i \in DOMAIN box[task[t].id], Takes(t, i)
    PROVE  /\ box' \in [MESSAGE_IDS -> Seq(Messages)] /\ taken' \in Seq(Takings)
           /\ \A id \in MESSAGE_IDS : Len(box'[id]) <= Len(box[id])
           /\ \A id \in MESSAGE_IDS : \A k \in DOMAIN box'[id] :
                 \E j \in DOMAIN box[id] : box'[id][k] = box[id][j]
           /\ \A k \in DOMAIN taken' :
                 \/ k \in DOMAIN taken /\ taken'[k] = taken[k]
                 \/ \E id \in MESSAGE_IDS : \E j \in DOMAIN box[id] :
                       taken'[k].m = box[id][j]
<1> DEFINE id == task[t].id
           n == Len(box[id])
<1>1. /\ id \in MESSAGE_IDS /\ i \in 1..n /\ n \in Nat
      /\ box' \in [MESSAGE_IDS -> Seq(Messages)]
      /\ \A j \in MESSAGE_IDS \ {id} : box'[j] = box[j]
      /\ Len(box'[id]) = n - 1
      /\ DOMAIN box'[id] = 1..(n - 1) /\ DOMAIN box[id] = 1..n
      /\ \A k \in 1..(n - 1) :
            box'[id][k] = IF k < i THEN box[id][k] ELSE box[id][k + 1]
  BY TakesElems, Zenon
<1>2. /\ taken' \in Seq(Takings) /\ Len(taken) \in Nat
      /\ DOMAIN taken' = 1..(Len(taken) + 1)
      /\ DOMAIN taken = 1..Len(taken)
      /\ \A k \in 1..Len(taken) : taken'[k] = taken[k]
      /\ taken'[Len(taken) + 1].m = box[id][i]
  <2>1. /\ taken' \in Seq(Takings) /\ Len(taken) \in Nat
        /\ DOMAIN taken' = 1..(Len(taken) + 1)
        /\ DOMAIN taken = 1..Len(taken)
        /\ \A k \in 1..Len(taken) : taken'[k] = taken[k]
        /\ taken'[Len(taken) + 1] =
              [m |-> box[id][i], from |-> task[t].from, pred |-> task[t].pred]
    BY TakesElems, Zenon
  <2> QED BY <2>1
<1> HIDE DEF id, n
<1>3. \A j \in MESSAGE_IDS : Len(box'[j]) <= Len(box[j])
  <2>1. \A j \in MESSAGE_IDS : Len(box[j]) \in Nat
    BY DEF TypeOK
  <2>2. Len(box'[id]) <= Len(box[id])
    BY <1>1 DEF n
  <2> QED BY <1>1, <2>1, <2>2
<1>4. \A k \in 1..(n - 1) : k \in 1..n /\ k + 1 \in 1..n
  BY <1>1
<1>5. \A j \in MESSAGE_IDS : \A k \in DOMAIN box'[j] :
         \E l \in DOMAIN box[j] : box'[j][k] = box[j][l]
  <2> TAKE j \in MESSAGE_IDS
  <2> TAKE k \in DOMAIN box'[j]
  <2>1. CASE j # id
    BY <1>1, <2>1, Zenon
  <2>2. CASE j = id /\ k < i
    BY <1>1, <1>4, <2>2, Zenon
  <2>3. CASE j = id /\ ~(k < i)
    BY <1>1, <1>4, <2>3, Zenon
  <2> QED BY <2>1, <2>2, <2>3, Zenon
<1>6. \A k \in 1..(Len(taken) + 1) : k \in 1..Len(taken) \/ k = Len(taken) + 1
  BY <1>2
<1>7. \A k \in DOMAIN taken' :
         \/ k \in DOMAIN taken /\ taken'[k] = taken[k]
         \/ \E j \in MESSAGE_IDS : \E l \in DOMAIN box[j] : taken'[k].m = box[j][l]
  <2> TAKE k \in DOMAIN taken'
  <2>1. CASE k \in 1..Len(taken)
    BY <1>2, <2>1, Zenon
  <2>2. CASE k = Len(taken) + 1
    <3>1. taken'[k].m = box[id][i]
      BY <1>2, <2>2, Zenon
    <3>2. id \in MESSAGE_IDS /\ i \in DOMAIN box[id]
      BY <1>1, Zenon
    <3> QED BY <3>1, <3>2, Zenon
  <2> QED BY <1>2, <1>6, <2>1, <2>2, Zenon
<1> QED BY <1>1, <1>2, <1>3, <1>5, <1>7, Zenon

\* A receiver that finds a message takes it and is done.
LEMMA TakeCounted ==
    ASSUME TypeOK, Counted, NEW t \in Tasks, task[t].pc = "look",
           NEW i \in DOMAIN box[task[t].id], Takes(t, i),
           UNCHANGED <<pump, version, arrived, refused, dropped>>
    PROVE  TypeOK' /\ Counted'
<1> USE MailboxAssumption
<1>1. task' = [task EXCEPT ![t] = IdleTask]
  BY Zenon DEF Takes
<1>2. \A id \in MESSAGE_IDS : Waiters(id)' <= MAX_WAITERS
  BY <1>1, NoNewWaiter, Zenon DEF IdleTask
<1>3. /\ task' \in [Tasks -> {IdleTask} \cup Receiving]
      /\ \A u \in Tasks :
            task'[u].pc # "idle" => task'[u].seen <= version'[task'[u].id]
  BY TaskRecord, <1>1, <1>2, Zenon DEF IdleTask
<1>4. /\ box' \in [MESSAGE_IDS -> Seq(Messages)] /\ taken' \in Seq(Takings)
      /\ \A id \in MESSAGE_IDS : Len(box'[id]) <= Len(box[id])
      /\ \A id \in MESSAGE_IDS : \A k \in DOMAIN box'[id] :
            \E j \in DOMAIN box[id] : box'[id][k] = box[id][j]
      /\ \A k \in DOMAIN taken' :
            \/ k \in DOMAIN taken /\ taken'[k] = taken[k]
            \/ \E id \in MESSAGE_IDS : \E j \in DOMAIN box[id] :
                  taken'[k].m = box[id][j]
  BY TakesKeeps, Zenon
<1>5. TypeOK'
  <2>1. \A id \in MESSAGE_IDS : Len(box'[id]) <= DEPTH
    <3>1. \A id \in MESSAGE_IDS : Len(box[id]) \in Nat /\ Len(box[id]) <= DEPTH
      BY DEF TypeOK
    <3>2. \A id \in MESSAGE_IDS : Len(box'[id]) \in Nat
      BY <1>4
    <3> QED BY <1>4, <3>1, <3>2
  <2>2. \A id \in MESSAGE_IDS : \A k \in DOMAIN box'[id] : box'[id][k].p.id = id
    <3>1. \A id \in MESSAGE_IDS : \A k \in DOMAIN box[id] : box[id][k].p.id = id
      BY Zenon DEF TypeOK
    <3> QED BY <1>4, <3>1
  <2> QED BY <1>2, <1>3, <1>4, <2>1, <2>2, Zenon DEF TypeOK
<1>6. Counted'
  <2>1. \A id \in MESSAGE_IDS : \A k \in DOMAIN box'[id] : box'[id][k].no <= arrived
    <3>1. \A id \in MESSAGE_IDS : \A k \in DOMAIN box[id] : box[id][k].no <= arrived
      BY Zenon DEF Counted
    <3> QED BY <1>4, <3>1, Zenon
  <2>2. \A k \in DOMAIN taken' : taken'[k].m.no <= arrived
    BY <1>4, Zenon DEF Counted
  <2> QED BY SameBusy, <1>3, <2>1, <2>2, Zenon DEF Counted
<1> QED BY <1>5, <1>6, Zenon

\* A receiver's step keeps the types and the counts.
LEMMA TaskCounted ==
    ASSUME TypeOK, Counted, NEW t \in Tasks, TaskStep(t) \/ Cancel(t)
    PROVE  TypeOK' /\ Counted'
<1>1. CASE Look(t)
  BY <1>1, LookTakes, SleepCounted, TakeCounted, Zenon
<1> QED BY <1>1, CancelCounted, ChangedCounted, Zenon DEF TaskStep

\* A TypeMailbox never holds more than DEPTH messages, nor one of another id,
\* a Watch never has more than MAX_WAITERS receivers, and every variable
\* keeps its type, for any number of pumps, receivers and ids.
THEOREM MailboxTypeCorrect == Spec => [](TypeOK /\ Counted)
<1>1. ASSUME TypeOK, Counted, [Next]_vars
      PROVE  TypeOK' /\ Counted'
  <2>1. CASE UNCHANGED vars
    BY <1>1, <2>1, Zenon DEF vars, TypeOK, Counted, Waiters, Busy
  <2>2. CASE Next
    BY <1>1, <2>2, RecvCounted, PumpSteps, PushCounted, EndCounted,
       RecvNextCounted, TaskCounted, Zenon
       DEF Next, Arrive, Callers, Steps
  <2> QED BY <1>1, <2>1, <2>2, Zenon
<1> QED BY <1>1, InitCounted, PTL DEF Spec

-------------------------------------------------------------------------------
(* Wakeups *)

\* A receiver is woken, or about to be.
Alerted(t) ==
    \/ version[task[t].id] > task[t].seen
    \/ \E q \in Pumps : pump[q].pc = "notify" /\ pump[q].got.p.id = task[t].id

\* A payload that arrives wakes nobody and puts nobody to sleep.
LEMMA RecvWakes ==
    ASSUME TypeOK, NoLostWakeup, NEW q \in Pumps, NEW p \in Arrivals, PumpRecv(q, p)
    PROVE  NoLostWakeup'
  BY Zenon DEF NoLostWakeup, Served, PumpRecv, TypeOK

\* Whoever the pushed message is for will be notified.
LEMMA PushWakes ==
    ASSUME TypeOK, Counted, NoLostWakeup, NEW q \in Pumps, Pushes(q),
           NEW t \in Tasks, Served(t)'
    PROVE  Alerted(t)'
<1> DEFINE got == pump[q].got
           id == task[t].id
<1>1. /\ task' = task /\ version' = version
      /\ pump[q].pc = "ingest" /\ got.p.id \in MESSAGE_IDS
      /\ box' = [box EXCEPT ![got.p.id] = Append(@, got)]
      /\ pump' = [pump EXCEPT ![q].pc = "notify"]
  BY Zenon DEF Pushes
<1>2. pump'[q].pc = "notify" /\ pump'[q].got = got
      /\ \A u \in Pumps \ {q} : pump'[u] = pump[u]
  BY <1>1, InHandType, Zenon DEF TypeOK
<1>3. got \in Messages /\ id \in MESSAGE_IDS /\ task[t].pc = "wait"
  BY <1>1, InHandType, ReceivingType, Zenon DEF Served, Receiving
<1>4. CASE id = got.p.id
  BY <1>1, <1>2, <1>4, Zenon DEF Alerted
<1>5. CASE id # got.p.id
  <2>1. box'[id] = box[id]
    BY <1>1, <1>3, <1>5, Zenon DEF TypeOK
  <2>2. Served(t)
    BY <1>1, <2>1, Zenon DEF Served
  <2>3. Alerted(t)
    BY <2>2, Zenon DEF NoLostWakeup, Alerted
  <2> QED BY <1>1, <1>2, <2>3, Zenon DEF Alerted
<1> QED BY <1>4, <1>5, Zenon

\* The notification reaches whoever waits for that id.
LEMMA EndWakes ==
    ASSUME TypeOK, Counted, NoLostWakeup, NEW q \in Pumps, Ends(q),
           NEW t \in Tasks, Served(t)'
    PROVE  Alerted(t)'
<1> DEFINE id == task[t].id
<1>1. /\ task' = task /\ box' = box
      /\ pump' = [pump EXCEPT ![q] = IdlePump]
      /\ \/ pump[q].pc = "ingest" /\ version' = version
         \/ /\ pump[q].pc = "notify"
            /\ version' = [version EXCEPT ![pump[q].got.p.id] = @ + 1]
  BY Zenon DEF Ends
<1>2. Served(t)
  BY <1>1, Zenon DEF Served
<1>3. Alerted(t)
  BY <1>2, Zenon DEF NoLostWakeup, Alerted
<1>4. /\ id \in MESSAGE_IDS /\ task[t].seen \in Nat /\ version[id] \in Nat
      /\ task[t].seen <= version[id]
  <2>1. task[t].pc # "idle"
    BY <1>2, Zenon DEF Served
  <2>2. id \in MESSAGE_IDS /\ task[t].seen \in Nat
    BY <2>1, AskedFor, Zenon
  <2>3. task[t].seen <= version[id]
    BY <2>1, Zenon DEF Counted
  <2> QED BY <2>2, <2>3, Numbers, Zenon
<1>5. \A u \in Pumps \ {q} : pump'[u] = pump[u]
  BY <1>1, Zenon DEF TypeOK
<1>6. CASE pump[q].pc = "ingest"
  BY <1>1, <1>3, <1>5, <1>6, Zenon DEF Alerted
<1>7. CASE pump[q].pc = "notify" /\ pump[q].got.p.id = id
  <2>1. version'[id] = version[id] + 1
    BY <1>1, <1>4, <1>7, Zenon DEF TypeOK
  <2>2. version[id] + 1 > task[t].seen
    <3> HIDE DEF id
    <3> QED BY ONLY <1>4
  <2> QED BY <1>1, <2>1, <2>2, Zenon DEF Alerted
<1>8. CASE pump[q].pc = "notify" /\ pump[q].got.p.id # id
  <2>1. version'[id] = version[id]
    BY <1>1, <1>4, <1>8, Zenon DEF TypeOK
  <2> QED BY <1>1, <1>3, <1>5, <1>8, <2>1, Zenon DEF Alerted
<1> QED BY <1>1, <1>6, <1>7, <1>8, Zenon

\* A receiver that calls, wakes, finds nothing or is dropped is not asleep over
\* a message, and its step changes nothing for the others.
LEMMA TaskWakes ==
    ASSUME TypeOK, NoLostWakeup, NEW u \in Tasks,
           UNCHANGED <<pump, version>>,
           \A id \in MESSAGE_IDS : \A k \in DOMAIN box'[id] :
               \E j \in DOMAIN box[id] : box'[id][k] = box[id][j],
           \A t \in Tasks \ {u} : task'[t] = task[t],
           ~ Served(u)'
    PROVE  NoLostWakeup'
<1> SUFFICES ASSUME NEW t \in Tasks, Served(t)' PROVE Alerted(t)'
  BY Zenon DEF NoLostWakeup, Alerted
<1>1. t # u /\ task'[t] = task[t]
  BY Zenon
<1>2. Served(t)
  <2>1. task[t].pc # "idle" /\ task[t].pc = "wait"
    BY <1>1, Zenon DEF Served
  <2>2. task[t].id \in MESSAGE_IDS
    BY <2>1, AskedFor, Zenon
  <2>3. PICK k \in DOMAIN box'[task[t].id] :
           Matches(task[t], box'[task[t].id][k])
    BY <1>1, Zenon DEF Served, Matches
  <2> QED BY <2>1, <2>2, <2>3, Zenon DEF Served
<1> QED BY <1>1, <1>2, Zenon DEF NoLostWakeup, Alerted

\* A receiver looks before it sleeps, and takes nobody else's message.
LEMMA LookWakes ==
    ASSUME TypeOK, NoLostWakeup, NEW t \in Tasks, Look(t)
    PROVE  NoLostWakeup'
<1>1. UNCHANGED <<pump, version>> /\ task[t].pc = "look"
  BY LookTakes, Zenon
<1>2. CASE /\ \A i \in DOMAIN box[task[t].id] :
                ~ Matches(task[t], box[task[t].id][i])
           /\ task' = [task EXCEPT ![t].pc = "wait"]
           /\ UNCHANGED <<box, taken>>
  <2>1. \A u \in Tasks \ {t} : task'[u] = task[u]
    BY <1>2, Zenon DEF TypeOK
  <2>2. /\ task'[t].id = task[t].id /\ task'[t].from = task[t].from
        /\ task'[t].pred = task[t].pred
    BY <1>1, <1>2, ReceivingType, Zenon DEF TypeOK, Receiving
  <2>3. ~ Served(t)'
    BY <1>2, <2>2, Zenon DEF Served, Matches
  <2> QED BY <1>1, <1>2, <2>1, <2>3, TaskWakes, Zenon
<1>3. ASSUME NEW i \in DOMAIN box[task[t].id], Takes(t, i)
      PROVE  NoLostWakeup'
  <2>1. task'[t].pc = "idle" /\ \A u \in Tasks \ {t} : task'[u] = task[u]
    BY <1>3, Zenon DEF Takes, TypeOK, IdleTask
  <2>2. \A id \in MESSAGE_IDS : \A k \in DOMAIN box'[id] :
           \E j \in DOMAIN box[id] : box'[id][k] = box[id][j]
    BY <1>1, <1>3, TakesKeeps, Zenon
  <2> QED BY <1>1, <2>1, <2>2, TaskWakes, Zenon DEF Served
<1> QED BY <1>2, <1>3, LookTakes, Zenon

\* No receiver sleeps over a message it waits for.
THEOREM NoWakeupIsLost == Spec => []NoLostWakeup
<1>1. Init => NoLostWakeup
  BY DEF Init, NoLostWakeup, Served, IdleTask
<1>2. ASSUME TypeOK, Counted, NoLostWakeup, [Next]_vars
      PROVE  NoLostWakeup'
  <2>1. CASE UNCHANGED vars
    BY <1>2, <2>1, Zenon DEF vars, NoLostWakeup, Served
  <2>2. CASE Arrive
    BY <1>2, <2>2, RecvWakes, Zenon DEF Arrive
  <2>3. ASSUME NEW q \in Pumps, PumpStep(q) \/ CancelPump(q)
        PROVE  NoLostWakeup'
    BY <1>2, <2>3, PumpSteps, PushWakes, EndWakes, Zenon DEF NoLostWakeup, Alerted
  <2>4. ASSUME NEW t \in Tasks, NEW id \in MESSAGE_IDS, NEW pred \in Predicates,
               NEW from \in Sources, RecvNext(t, id, from, pred)
        PROVE  NoLostWakeup'
    BY <1>2, <2>4, TaskWakes, Zenon DEF RecvNext, Served, TypeOK
  <2>5. ASSUME NEW t \in Tasks, Cancel(t)
        PROVE  NoLostWakeup'
    BY <1>2, <2>5, TaskWakes, Zenon DEF Cancel, Served, TypeOK, IdleTask
  <2>6. ASSUME NEW t \in Tasks, Changed(t)
        PROVE  NoLostWakeup'
    BY <1>2, <2>6, TaskWakes DEF Changed, Served, TypeOK
  <2>7. ASSUME NEW t \in Tasks, Look(t)
        PROVE  NoLostWakeup'
    BY <1>2, <2>7, LookWakes, Zenon
  <2> QED BY <1>2, <2>1, <2>2, <2>3, <2>4, <2>5, <2>6, <2>7, Zenon
             DEF Next, Callers, Steps, TaskStep
<1> QED BY <1>1, <1>2, MailboxTypeCorrect, PTL DEF Spec

-------------------------------------------------------------------------------
(* Order *)

\* The messages of one pump are in order in each mailbox.
BoxOrdered ==
    \A id \in MESSAGE_IDS : \A i, j \in DOMAIN box[id] :
        i < j /\ box[id][i].by = box[id][j].by
        => box[id][i].no < box[id][j].no

\* What a pump holds is newer than all it has delivered.
HeldIsNewest ==
    \A t \in Pumps : pump[t].pc = "ingest" =>
        /\ \A id \in MESSAGE_IDS : \A i \in DOMAIN box[id] :
              box[id][i].by = t => box[id][i].no < pump[t].got.no
        /\ \A i \in DOMAIN taken :
              taken[i].m.by = t => taken[i].m.no < pump[t].got.no

\* What has been received is older than what is left and would have been
\* accepted in its place.
LeftIsNewer ==
    \A i \in DOMAIN taken, id \in MESSAGE_IDS : \A k \in DOMAIN box[id] :
        /\ taken[i].m.p.id = id
        /\ taken[i].m.by = box[id][k].by
        /\ Matches(taken[i], box[id][k])
        => taken[i].m.no < box[id][k].no

\* What keeps one pump's messages in order.
Ordered == BoxOrdered /\ HeldIsNewest /\ LeftIsNewer /\ TakenInOrder

\* A new payload has the highest number yet.
LEMMA RecvOrdered ==
    ASSUME TypeOK, Counted, Ordered, NEW t \in Pumps, NEW p \in Arrivals,
           PumpRecv(t, p)
    PROVE  Ordered'
<1>1. /\ UNCHANGED <<box, taken>> /\ arrived \in Nat
      /\ pump'[t].got.no = arrived + 1
      /\ \A u \in Pumps \ {t} : pump'[u] = pump[u]
  BY DEF PumpRecv, TypeOK
<1>2. /\ \A id \in MESSAGE_IDS : \A i \in DOMAIN box[id] :
            box[id][i].no \in Nat /\ box[id][i].no < arrived + 1
      /\ \A i \in DOMAIN taken :
            taken[i].m.no \in Nat /\ taken[i].m.no < arrived + 1
  BY <1>1, ElemTypes DEF Counted
<1>3. HeldIsNewest'
  <2> SUFFICES ASSUME NEW u \in Pumps, pump'[u].pc = "ingest"
               PROVE  /\ \A id \in MESSAGE_IDS : \A i \in DOMAIN box[id] :
                            box[id][i].by = u => box[id][i].no < pump'[u].got.no
                      /\ \A i \in DOMAIN taken :
                            taken[i].m.by = u => taken[i].m.no < pump'[u].got.no
    BY <1>1, Zenon DEF HeldIsNewest
  <2>1. CASE u = t
    BY <1>1, <1>2, <2>1, Zenon
  <2>2. CASE u # t
    BY <1>1, <2>2, Zenon DEF Ordered, HeldIsNewest
  <2> QED BY <2>1, <2>2, Zenon
<1> QED BY <1>1, <1>3, Zenon DEF Ordered, BoxOrdered, LeftIsNewer, TakenInOrder

\* A pushed message is newer than what its pump has delivered.
LEMMA PushOrdered ==
    ASSUME TypeOK, Counted, Ordered, NEW t \in Pumps, Pushes(t)
    PROVE  Ordered'
<1> DEFINE got == pump[t].got
           d == got.p.id
           n == Len(box[d])
<1>1. /\ taken' = taken /\ d \in MESSAGE_IDS /\ got.by = t /\ got \in Messages
      /\ pump[t].pc = "ingest"
  BY InHandCounted, Zenon DEF Pushes
<1>2. /\ \A id \in MESSAGE_IDS \ {d} : box'[id] = box[id]
      /\ DOMAIN box'[d] = 1..(n + 1) /\ DOMAIN box[d] = 1..n /\ n \in Nat
      /\ \A k \in 1..n : box'[d][k] = box[d][k]
      /\ box'[d][n + 1] = got
  <2>1. box \in [MESSAGE_IDS -> Seq(Messages)]
        /\ box' = [box EXCEPT ![d] = Append(@, got)] /\ n \in Nat
    BY <1>1, Numbers, Zenon DEF TypeOK, Pushes
  <2> HIDE DEF got, d
  <2>2. /\ box'[d] = Append(box[d], got) /\ Len(box'[d]) = n + 1
        /\ \A id \in MESSAGE_IDS \ {d} : box'[id] = box[id]
        /\ \A k \in 1..n : box'[d][k] = box[d][k]
        /\ box'[d][n + 1] = got
        /\ DOMAIN box'[d] = 1..Len(box'[d]) /\ DOMAIN box[d] = 1..n
    BY <1>1, <2>1, PushElems
  <2> QED BY <2>1, <2>2, Zenon
<1>3. /\ pump'[t].pc = "notify"
      /\ \A u \in Pumps \ {t} : pump'[u] = pump[u]
  BY <1>1, InHandType, Zenon DEF Pushes, TypeOK
<1>4. /\ \A i \in 1..n : box[d][i].by = t => box[d][i].no < got.no
      /\ \A i \in DOMAIN taken : taken[i].m.by = t => taken[i].m.no < got.no
  BY <1>1, <1>2, Zenon DEF Ordered, HeldIsNewest
<1> HIDE DEF got, d, n
<1>5. \A k \in 1..(n + 1) : k \in 1..n \/ k = n + 1
  BY <1>2
<1>6. BoxOrdered'
  <2> SUFFICES ASSUME NEW id \in MESSAGE_IDS,
                      NEW i \in DOMAIN box'[id], NEW j \in DOMAIN box'[id],
                      i < j, box'[id][i].by = box'[id][j].by
               PROVE  box'[id][i].no < box'[id][j].no
    BY Zenon DEF BoxOrdered
  <2>1. CASE id # d
    BY <1>2, <2>1, Zenon DEF Ordered, BoxOrdered
  <2>2. CASE id = d /\ j \in 1..n
    <3>1. i \in 1..n
      BY <1>2, <2>2
    <3> QED BY <1>2, <2>2, <3>1, Zenon DEF Ordered, BoxOrdered
  <2>3. CASE id = d /\ j = n + 1
    <3>1. i \in 1..n
      BY <1>2, <2>3
    <3> QED BY <1>1, <1>2, <1>4, <2>3, <3>1, Zenon
  <2> QED BY <1>2, <1>5, <2>1, <2>2, <2>3, Zenon
<1>7. HeldIsNewest'
  <2> SUFFICES ASSUME NEW u \in Pumps, pump'[u].pc = "ingest"
               PROVE  /\ \A id \in MESSAGE_IDS : \A i \in DOMAIN box'[id] :
                            box'[id][i].by = u => box'[id][i].no < pump'[u].got.no
                      /\ \A i \in DOMAIN taken :
                            taken[i].m.by = u => taken[i].m.no < pump'[u].got.no
    BY <1>1, Zenon DEF HeldIsNewest
  <2>1. u # t /\ pump'[u] = pump[u]
    BY <1>3, Zenon
  <2>2. /\ \A id \in MESSAGE_IDS : \A i \in DOMAIN box[id] :
              box[id][i].by = u => box[id][i].no < pump[u].got.no
        /\ \A i \in DOMAIN taken :
              taken[i].m.by = u => taken[i].m.no < pump[u].got.no
    BY <2>1, Zenon DEF Ordered, HeldIsNewest
  <2>3. ASSUME NEW id \in MESSAGE_IDS, NEW i \in DOMAIN box'[id],
               box'[id][i].by = u
        PROVE  i \in DOMAIN box[id] /\ box'[id][i] = box[id][i]
    BY <1>1, <1>2, <1>5, <2>1, <2>3, Zenon
  <2> QED BY <2>1, <2>2, <2>3, Zenon
<1>8. LeftIsNewer'
  <2> SUFFICES ASSUME NEW i \in DOMAIN taken, NEW id \in MESSAGE_IDS,
                      NEW k \in DOMAIN box'[id],
                      taken[i].m.p.id = id, taken[i].m.by = box'[id][k].by,
                      Matches(taken[i], box'[id][k])
               PROVE  taken[i].m.no < box'[id][k].no
    BY <1>1, Zenon DEF LeftIsNewer, Matches
  <2>1. CASE k \in DOMAIN box[id] /\ box'[id][k] = box[id][k]
    BY <2>1, Zenon DEF Ordered, LeftIsNewer
  <2>2. CASE id = d /\ k = n + 1
    BY <1>1, <1>2, <1>4, <2>2, Zenon
  <2> QED BY <1>2, <1>5, <2>1, <2>2, Zenon
<1> QED BY <1>1, <1>6, <1>7, <1>8, Zenon DEF Ordered, TakenInOrder, Matches

\* A pump that is done with its payload leaves the order alone.
LEMMA EndOrdered ==
    ASSUME TypeOK, Ordered, NEW t \in Pumps, Ends(t)
    PROVE  Ordered'
<1>1. /\ UNCHANGED <<box, taken>> /\ pump'[t].pc = "idle"
      /\ \A u \in Pumps \ {t} : pump'[u] = pump[u]
  BY Zenon DEF Ends, TypeOK, IdlePump
<1>2. HeldIsNewest'
  BY <1>1, Zenon DEF Ordered, HeldIsNewest
<1> QED BY <1>1, <1>2, ZenonT(40)
        DEF Ordered, BoxOrdered, LeftIsNewer, TakenInOrder, Matches

\* What one taking does to the order of the indices: k is the place a message
\* is left at, Was(i, k) the place it had.
Was(i, k) == IF k < i THEN k ELSE k + 1

\* What is left in the mailboxes is in the order it was in, without the
\* message taken.
LEMMA TakesLeaves ==
    ASSUME TypeOK, NEW t \in Tasks, task[t].pc = "look",
           NEW i \in DOMAIN box[task[t].id], Takes(t, i)
    PROVE  LET d == task[t].id IN
           /\ \A id \in MESSAGE_IDS \ {d} : box'[id] = box[id]
           /\ \A k \in DOMAIN box'[d] :
                 /\ Was(i, k) \in DOMAIN box[d] \ {i}
                 /\ box'[d][k] = box[d][Was(i, k)]
           /\ \A j, k \in DOMAIN box'[d] : j < k => Was(i, j) < Was(i, k)
<1> DEFINE d == task[t].id
           n == Len(box[d])
<1>1. /\ i \in 1..n /\ n \in Nat
      /\ \A id \in MESSAGE_IDS \ {d} : box'[id] = box[id]
      /\ DOMAIN box'[d] = 1..(n - 1) /\ DOMAIN box[d] = 1..n
      /\ \A k \in 1..(n - 1) :
            box'[d][k] = IF k < i THEN box[d][k] ELSE box[d][k + 1]
  BY TakesElems, Zenon
<1> HIDE DEF d, n
<1>2. \A k \in 1..(n - 1) : Was(i, k) \in 1..n /\ Was(i, k) # i
  BY <1>1 DEF Was
<1>3. \A k \in 1..(n - 1) : box'[d][k] = box[d][Was(i, k)]
  BY <1>1, Zenon DEF Was
<1>4. \A j, k \in 1..(n - 1) : j < k => Was(i, j) < Was(i, k)
  BY <1>1 DEF Was
<1> QED BY <1>1, <1>2, <1>3, <1>4, Zenon DEF d

\* A receiver takes the first message it accepts, so what is left and it would
\* have accepted is newer.
LEMMA TakeOrdered ==
    ASSUME TypeOK, Ordered, NEW t \in Tasks, task[t].pc = "look",
           NEW i \in DOMAIN box[task[t].id], Takes(t, i), pump' = pump
    PROVE  Ordered'
<1> DEFINE r == task[t]
           d == r.id
           x == box[d][i]
           n == Len(taken)
<1>1. /\ \A id \in MESSAGE_IDS \ {d} : box'[id] = box[id]
      /\ \A k \in DOMAIN box'[d] :
            /\ Was(i, k) \in DOMAIN box[d] \ {i}
            /\ box'[d][k] = box[d][Was(i, k)]
      /\ \A j, k \in DOMAIN box'[d] : j < k => Was(i, j) < Was(i, k)
  BY TakesLeaves, Zenon
<1>2. d \in MESSAGE_IDS /\ DOMAIN box[d] \subseteq Int /\ x.p.id = d /\ n \in Nat
  <2>1. d \in MESSAGE_IDS /\ DOMAIN box[d] = 1..Len(box[d]) /\ n \in Nat
        /\ Len(box[d]) \in Nat
    BY TakesElems, Zenon
  <2>2. \A k \in DOMAIN box[d] : box[d][k].p.id = d
    BY <2>1, Zenon DEF TypeOK
  <2> QED BY <2>1, <2>2
<1>3. \A j \in DOMAIN box[d] : Matches(r, box[d][j]) => i <= j
  BY Zenon DEF Takes
<1>4. /\ DOMAIN taken' = 1..(n + 1) /\ DOMAIN taken = 1..n
      /\ \A k \in 1..n : taken'[k] = taken[k]
      /\ taken'[n + 1] = [m |-> x, from |-> r.from, pred |-> r.pred]
  BY TakesElems, Zenon
<1>5. \A m : Matches(taken'[n + 1], m) <=> Matches(r, m)
  <2> HIDE DEF r, d, x, n
  <2>1. taken'[n + 1].from = r.from /\ taken'[n + 1].pred = r.pred
    BY <1>4
  <2> QED BY <2>1, Zenon DEF Matches
<1>6. taken'[n + 1].m = x
  BY <1>4
<1>7. Matches(r, x)
  BY Zenon DEF Takes
<1> HIDE DEF r, d, x, n
<1>8. \A k \in 1..(n + 1) : k \in 1..n \/ k = n + 1
  BY <1>2
<1>9. \A id \in MESSAGE_IDS : \A k \in DOMAIN box'[id] :
         \E j \in DOMAIN box[id] : box'[id][k] = box[id][j]
  BY <1>1, Zenon
<1>b. BoxOrdered'
  <2> SUFFICES ASSUME NEW id \in MESSAGE_IDS,
                      NEW j \in DOMAIN box'[id], NEW k \in DOMAIN box'[id],
                      j < k, box'[id][j].by = box'[id][k].by
               PROVE  box'[id][j].no < box'[id][k].no
    BY Zenon DEF BoxOrdered
  <2>1. CASE id # d
    BY <1>1, <2>1, Zenon DEF Ordered, BoxOrdered
  <2>2. CASE id = d
    <3>1. /\ Was(i, j) \in DOMAIN box[d] /\ Was(i, k) \in DOMAIN box[d]
          /\ Was(i, j) < Was(i, k)
          /\ box'[d][j] = box[d][Was(i, j)] /\ box'[d][k] = box[d][Was(i, k)]
      BY <1>1, <2>2, Zenon
    <3> QED BY <1>2, <2>2, <3>1, Zenon DEF Ordered, BoxOrdered
  <2> QED BY <2>1, <2>2, Zenon
<1>h. HeldIsNewest'
  <2> SUFFICES ASSUME NEW u \in Pumps, pump[u].pc = "ingest"
               PROVE  /\ \A id \in MESSAGE_IDS : \A k \in DOMAIN box'[id] :
                            box'[id][k].by = u => box'[id][k].no < pump[u].got.no
                      /\ \A k \in DOMAIN taken' :
                            taken'[k].m.by = u => taken'[k].m.no < pump[u].got.no
    BY Zenon DEF HeldIsNewest
  <2>1. /\ \A id \in MESSAGE_IDS : \A k \in DOMAIN box[id] :
              box[id][k].by = u => box[id][k].no < pump[u].got.no
        /\ \A k \in DOMAIN taken :
              taken[k].m.by = u => taken[k].m.no < pump[u].got.no
    BY Zenon DEF Ordered, HeldIsNewest
  <2>2. \A id \in MESSAGE_IDS : \A k \in DOMAIN box'[id] :
           box'[id][k].by = u => box'[id][k].no < pump[u].got.no
    BY <1>9, <2>1
  <2>3. \A k \in DOMAIN taken' :
           taken'[k].m.by = u => taken'[k].m.no < pump[u].got.no
    BY <1>2, <1>4, <1>6, <1>8, <2>1, ZenonT(40) DEF d, r, x
  <2> QED BY <2>2, <2>3, Zenon
<1>l. LeftIsNewer'
  <2> SUFFICES ASSUME NEW a \in DOMAIN taken', NEW id \in MESSAGE_IDS,
                      NEW k \in DOMAIN box'[id],
                      taken'[a].m.p.id = id, taken'[a].m.by = box'[id][k].by,
                      Matches(taken'[a], box'[id][k])
               PROVE  taken'[a].m.no < box'[id][k].no
    BY Zenon DEF LeftIsNewer, Matches
  <2>1. CASE a \in 1..n
    <3>1. a \in DOMAIN taken /\ taken'[a] = taken[a]
      BY <1>4, <2>1, Zenon
    <3>2. \E l \in DOMAIN box[id] : box'[id][k] = box[id][l]
      BY <1>9, Zenon
    <3>3. LeftIsNewer
      BY Zenon DEF Ordered
    <3> QED BY <3>1, <3>2, <3>3, Zenon DEF LeftIsNewer
  <2>2. CASE a = n + 1
    <3>1. id = d /\ Matches(r, box'[d][k]) /\ x.by = box'[d][k].by
      BY <1>2, <1>5, <1>6, <2>2, Zenon
    <3>2. /\ Was(i, k) \in DOMAIN box[d] /\ Was(i, k) # i
          /\ box'[d][k] = box[d][Was(i, k)]
      BY <1>1, <3>1, Zenon
    <3>3. i <= Was(i, k) /\ i \in DOMAIN box[d]
      BY <1>3, <3>1, <3>2, Zenon DEF d, r
    <3>4. i < Was(i, k)
      BY <1>2, <3>2, <3>3
    <3> QED BY <1>2, <1>6, <2>2, <3>1, <3>2, <3>3, <3>4, Zenon
            DEF Ordered, BoxOrdered, x
  <2> QED BY <1>4, <1>8, <2>1, <2>2, Zenon
<1>t. TakenInOrder'
  <2> SUFFICES ASSUME NEW a \in DOMAIN taken', NEW b \in DOMAIN taken', a < b,
                      taken'[a].m.by = taken'[b].m.by,
                      taken'[a].m.p.id = taken'[b].m.p.id,
                      Matches(taken'[a], taken'[b].m)
               PROVE  taken'[a].m.no < taken'[b].m.no
    BY Zenon DEF TakenInOrder, Matches
  <2>1. CASE b \in 1..n
    <3>1. a \in 1..n
      <4>1. a \in 1..(n + 1) /\ b \in 1..n /\ a < b /\ n \in Nat
        BY <1>2, <1>4, <2>1, Zenon
      <4> HIDE DEF n
      <4> QED BY ONLY <4>1
    <3> QED BY <1>4, <2>1, <3>1, Zenon DEF Ordered, TakenInOrder
  <2>2. CASE b = n + 1
    <3>1. a \in 1..n
      <4>1. a \in 1..(n + 1) /\ b = n + 1 /\ a < b /\ n \in Nat
        BY <1>2, <1>4, <2>2, Zenon
      <4> HIDE DEF n
      <4> QED BY ONLY <4>1
    <3>2. a \in DOMAIN taken /\ taken'[a] = taken[a] /\ taken'[b].m = x
      BY <1>4, <1>6, <2>2, <3>1, Zenon
    <3>3. i \in DOMAIN box[d] /\ x = box[d][i]
      BY Zenon DEF d, r, x
    <3>4. LeftIsNewer
      BY Zenon DEF Ordered
    <3> QED BY <1>2, <3>2, <3>3, <3>4, Zenon DEF LeftIsNewer
  <2> QED BY <1>4, <1>8, <2>1, <2>2, Zenon
<1> QED BY <1>b, <1>h, <1>l, <1>t, Zenon DEF Ordered

\* Of the messages one pump has ingested, receivers take the oldest they
\* accept, for any number of pumps and receivers.
THEOREM ReceivedInOrder == Spec => []TakenInOrder
<1>1. Init => Ordered
  BY DEF Init, Ordered, BoxOrdered, HeldIsNewest, LeftIsNewer, TakenInOrder,
         IdlePump
<1>2. ASSUME TypeOK, Counted, Ordered, [Next]_vars
      PROVE  Ordered'
  <2>1. CASE UNCHANGED <<box, taken, pump>>
    BY <1>2, <2>1, ZenonT(40)
       DEF Ordered, BoxOrdered, HeldIsNewest, LeftIsNewer, TakenInOrder, Matches
  <2>2. CASE Arrive
    BY <1>2, <2>2, RecvOrdered, Zenon DEF Arrive
  <2>3. ASSUME NEW q \in Pumps, PumpStep(q) \/ CancelPump(q)
        PROVE  Ordered'
    BY <1>2, <2>3, PumpSteps, PushOrdered, EndOrdered, Zenon
  <2>4. ASSUME NEW t \in Tasks, Look(t)
        PROVE  Ordered'
    BY <1>2, <2>1, <2>4, LookTakes, TakeOrdered, Zenon
  <2>5. CASE \/ \E t \in Tasks : Cancel(t) \/ Changed(t)
             \/ \E t \in Tasks, id \in MESSAGE_IDS, pred \in Predicates :
                   \E from \in Sources : RecvNext(t, id, from, pred)
    BY <2>1, <2>5, Zenon DEF Cancel, Changed, RecvNext
  <2> QED BY <1>2, <2>1, <2>2, <2>3, <2>4, <2>5, Zenon
             DEF Next, Callers, Steps, TaskStep, vars
<1>3. Ordered => TakenInOrder
  BY Zenon DEF Ordered
<1> QED BY <1>1, <1>2, <1>3, MailboxTypeCorrect, PTL DEF Spec

-------------------------------------------------------------------------------
(* Conservation *)

\* Where payload n is, kind by kind.
Nowhere(n) ==
    /\ HeldBy(n) = {} /\ SlotsOf(n) = {} /\ TakenAs(n) = {}
    /\ n \notin refused /\ n \notin dropped
OnlyHeld(n, t) ==
    /\ HeldBy(n) = {t} /\ SlotsOf(n) = {} /\ TakenAs(n) = {}
    /\ n \notin refused /\ n \notin dropped
OnlySlot(n, s) ==
    /\ HeldBy(n) = {} /\ SlotsOf(n) = {s} /\ TakenAs(n) = {}
    /\ n \notin refused /\ n \notin dropped
OnlyTaken(n, i) ==
    /\ HeldBy(n) = {} /\ SlotsOf(n) = {} /\ TakenAs(n) = {i}
    /\ n \notin refused /\ n \notin dropped
OnlyRefused(n) ==
    /\ HeldBy(n) = {} /\ SlotsOf(n) = {} /\ TakenAs(n) = {}
    /\ n \in refused /\ n \notin dropped
OnlyDropped(n) ==
    /\ HeldBy(n) = {} /\ SlotsOf(n) = {} /\ TakenAs(n) = {}
    /\ n \notin refused /\ n \in dropped
OnlyOnce(n) ==
    \/ \E t : OnlyHeld(n, t)
    \/ \E s : OnlySlot(n, s)
    \/ \E i : OnlyTaken(n, i)
    \/ OnlyRefused(n) \/ OnlyDropped(n)

\* The kinds spelt out.
LEMMA KindsOfPlaces ==
    ASSUME NEW n
    PROVE  /\ (\A k \in DOMAIN Places(n) : Places(n)[k] = {}) <=> Nowhere(n)
           /\ Once(n) <=> OnlyOnce(n)
<1>1. /\ DOMAIN Places(n) = {"pump", "slot", "taken", "refused", "dropped"}
      /\ Places(n)["pump"] = HeldBy(n) /\ Places(n)["slot"] = SlotsOf(n)
      /\ Places(n)["taken"] = TakenAs(n)
      /\ Places(n)["refused"] = refused \cap {n}
      /\ Places(n)["dropped"] = dropped \cap {n}
  BY Zenon DEF Places
<1>2. /\ refused \cap {n} = {} <=> n \notin refused
      /\ dropped \cap {n} = {} <=> n \notin dropped
      /\ n \in refused => refused \cap {n} = {n}
      /\ n \in dropped => dropped \cap {n} = {n}
  BY Zenon
<1>3. (\A k \in DOMAIN Places(n) : Places(n)[k] = {}) <=> Nowhere(n)
  BY <1>1, <1>2, Zenon DEF Nowhere
<1>4. Once(n) => OnlyOnce(n)
  BY <1>1, <1>2, Zenon
     DEF Once, OnlyOnce, OnlyHeld, OnlySlot, OnlyTaken, OnlyRefused, OnlyDropped
<1>5. OnlyOnce(n) => Once(n)
  BY <1>1, <1>2
     DEF Once, OnlyOnce, OnlyHeld, OnlySlot, OnlyTaken, OnlyRefused, OnlyDropped
<1> QED BY <1>3, <1>4, <1>5, Zenon

\* Each payload that has arrived is in one place, and no other is anywhere.
Kept ==
    \A n \in 1..MaxArrivals : IF n <= arrived THEN OnlyOnce(n) ELSE Nowhere(n)

\* What leaves pumps, mailboxes and histories alone leaves every payload
\* where it is.
LEMMA SameKept ==
    ASSUME Kept, UNCHANGED <<pump, box, arrived, taken, refused, dropped>>
    PROVE  Kept'
<1>1. \A n : HeldBy(n)' = HeldBy(n) /\ SlotsOf(n)' = SlotsOf(n)
             /\ TakenAs(n)' = TakenAs(n)
  BY Zenon DEF HeldBy, SlotsOf, TakenAs
<1>2. \A n : OnlyOnce(n)' = OnlyOnce(n) /\ Nowhere(n)' = Nowhere(n)
  BY <1>1, Zenon DEF Nowhere, OnlyOnce, OnlyHeld, OnlySlot, OnlyTaken, OnlyRefused,
              OnlyDropped
<1> QED BY <1>2, Zenon DEF Kept

\* The payload with the next number was nowhere, and is now with the pump.
LEMMA RecvKeeps ==
    ASSUME TypeOK, Kept, NEW t \in Pumps, NEW p \in Arrivals, PumpRecv(t, p)
    PROVE  Kept'
<1> SUFFICES ASSUME NEW n \in 1..MaxArrivals
             PROVE  IF n <= arrived + 1 THEN OnlyOnce(n)' ELSE Nowhere(n)'
  BY Zenon DEF Kept, PumpRecv
<1>1. /\ SlotsOf(n)' = SlotsOf(n) /\ TakenAs(n)' = TakenAs(n)
      /\ refused' = refused /\ dropped' = dropped
  BY Zenon DEF PumpRecv, SlotsOf, TakenAs
<1>2. HeldBy(n)' = IF n = arrived + 1 THEN HeldBy(n) \cup {t} ELSE HeldBy(n)
  BY Zenon DEF PumpRecv, HeldBy, TypeOK
<1>3. arrived \in Nat /\ (IF n <= arrived THEN OnlyOnce(n) ELSE Nowhere(n))
  BY DEF Kept, TypeOK
<1>4. CASE n = arrived + 1
  <2>1. Nowhere(n)
    BY <1>3, <1>4
  <2>2. OnlyHeld(n, t)'
    BY <1>1, <1>2, <1>4, <2>1, Zenon DEF Nowhere, OnlyHeld
  <2> QED BY <1>3, <1>4, <2>2 DEF OnlyOnce
<1>5. CASE n # arrived + 1
  <2>1. OnlyOnce(n)' = OnlyOnce(n) /\ Nowhere(n)' = Nowhere(n)
    BY <1>1, <1>2, <1>5, Zenon
       DEF Nowhere, OnlyOnce, OnlyHeld, OnlySlot, OnlyTaken, OnlyRefused,
           OnlyDropped
  <2>2. n <= arrived + 1 <=> n <= arrived
    BY <1>3, <1>5
  <2> QED BY <1>3, <2>1, <2>2, Zenon
<1> QED BY <1>4, <1>5, Zenon

\* A payload that a pump holds is nowhere else.
LEMMA HeldOnce ==
    ASSUME TypeOK, Counted, Kept, NEW t \in Pumps, pump[t].pc = "ingest"
    PROVE  /\ pump[t].got.no \in 1..MaxArrivals /\ pump[t].got.no <= arrived
           /\ OnlyHeld(pump[t].got.no, t)
<1> DEFINE n == pump[t].got.no
<1>1. n \in 1..MaxArrivals /\ n <= arrived
  BY InHandCounted, MailboxAssumption DEF TypeOK
<1>2. t \in HeldBy(n) /\ OnlyOnce(n)
  BY <1>1, Zenon DEF HeldBy, Kept
<1> HIDE DEF n
<1>3. OnlyHeld(n, t)
  BY <1>2, Zenon DEF OnlyOnce, OnlyHeld, OnlySlot, OnlyTaken, OnlyRefused, OnlyDropped
<1> QED BY <1>1, <1>3, Zenon DEF n

\* A pushed payload moves from its pump to one slot.
LEMMA PushKeeps ==
    ASSUME TypeOK, Counted, Kept, NEW t \in Pumps, Pushes(t)
    PROVE  Kept'
<1> DEFINE got == pump[t].got
           d == got.p.id
           m == Len(box[d]) + 1
<1> SUFFICES ASSUME NEW n \in 1..MaxArrivals
             PROVE  IF n <= arrived THEN OnlyOnce(n)' ELSE Nowhere(n)'
  BY Zenon DEF Kept, Pushes
<1>1. /\ TakenAs(n)' = TakenAs(n) /\ refused' = refused /\ dropped' = dropped
      /\ pump[t].pc = "ingest"
  BY Zenon DEF Pushes, TakenAs
<1>2. /\ d \in MESSAGE_IDS /\ m \in 1..DEPTH
      /\ \A id \in MESSAGE_IDS \ {d} : box'[id] = box[id]
      /\ DOMAIN box'[d] = 1..m /\ DOMAIN box[d] = 1..(m - 1)
      /\ \A k \in 1..(m - 1) : box'[d][k] = box[d][k]
      /\ box'[d][m] = got
  <2>1. /\ d \in MESSAGE_IDS /\ box \in [MESSAGE_IDS -> Seq(Messages)]
        /\ box' = [box EXCEPT ![d] = Append(@, got)] /\ Len(box[d]) \in Nat
        /\ Len(box[d]) <= DEPTH /\ Len(box[d]) # DEPTH
    BY Numbers, Zenon DEF TypeOK, Pushes
  <2>2. got \in Messages
    BY <1>1, InHandType, Zenon
  <2> HIDE DEF got, d
  <2>3. /\ \A id \in MESSAGE_IDS \ {d} : box'[id] = box[id]
        /\ Len(box'[d]) = Len(box[d]) + 1
        /\ \A k \in 1..Len(box[d]) : box'[d][k] = box[d][k]
        /\ box'[d][Len(box[d]) + 1] = got
        /\ DOMAIN box'[d] = 1..Len(box'[d]) /\ DOMAIN box[d] = 1..Len(box[d])
    BY <2>1, <2>2, PushElems
  <2>4. m \in 1..DEPTH /\ m - 1 = Len(box[d])
    BY <2>1, MailboxAssumption
  <2> QED BY <2>1, <2>3, <2>4, Zenon
<1>3. HeldBy(n)' = HeldBy(n) \ {t}
  BY <1>1, InHandType, Zenon DEF Pushes, HeldBy, TypeOK
<1>4. OnlyHeld(got.no, t) /\ got.no <= arrived
  BY <1>1, HeldOnce, Zenon
<1> HIDE DEF got, d, m
<1>5. SlotsOf(n)' = IF n = got.no THEN SlotsOf(n) \cup {<<d, m>>} ELSE SlotsOf(n)
  <2>1. \A id \in MESSAGE_IDS, k \in 1..DEPTH :
           k \in DOMAIN box'[id] /\ box'[id][k].no = n
           <=> \/ k \in DOMAIN box[id] /\ box[id][k].no = n
               \/ id = d /\ k = m /\ n = got.no
    <3> TAKE id \in MESSAGE_IDS, k \in 1..DEPTH
    <3>1. CASE id # d
      BY <1>2, <3>1, Zenon
    <3>2. CASE id = d /\ k # m
      <4>1. k \in 1..m <=> k \in 1..(m - 1)
        BY <1>2, <3>2
      <4> QED BY <1>2, <3>2, <4>1, Zenon
    <3>3. CASE id = d /\ k = m
      <4>1. k \notin 1..(m - 1) /\ k \in 1..m
        BY <1>2, <3>3
      <4> QED BY <1>2, <3>3, <4>1, Zenon
    <3> QED BY <3>1, <3>2, <3>3, Zenon
  <2> QED BY <1>2, <2>1 DEF SlotsOf
<1>6. CASE n = got.no
  <2>1. \E s : OnlySlot(n, s)'
    BY <1>1, <1>3, <1>4, <1>5, <1>6, Zenon DEF OnlyHeld, OnlySlot
  <2> QED BY <1>4, <1>6, <2>1, Zenon DEF OnlyOnce
<1>7. CASE n # got.no
  <2>1. t \notin HeldBy(n)
    BY <1>7, Zenon DEF HeldBy, got
  <2>2. OnlyOnce(n)' = OnlyOnce(n) /\ Nowhere(n)' = Nowhere(n)
    BY <1>1, <1>3, <1>5, <1>7, <2>1, Zenon
       DEF Nowhere, OnlyOnce, OnlyHeld, OnlySlot, OnlyTaken, OnlyRefused,
           OnlyDropped
  <2> QED BY <2>2, Zenon DEF Kept
<1> QED BY <1>6, <1>7, Zenon

\* A pump that ends with a payload leaves it refused or dropped.
LEMMA EndKeeps ==
    ASSUME TypeOK, Counted, Kept, NEW t \in Pumps, Ends(t)
    PROVE  Kept'
<1> DEFINE got == pump[t].got
<1> SUFFICES ASSUME NEW n \in 1..MaxArrivals
             PROVE  IF n <= arrived THEN OnlyOnce(n)' ELSE Nowhere(n)'
  BY Zenon DEF Kept, Ends
<1>1. TakenAs(n)' = TakenAs(n) /\ SlotsOf(n)' = SlotsOf(n)
  BY Zenon DEF Ends, TakenAs, SlotsOf
<1>2. HeldBy(n)' = HeldBy(n) \ {t}
  BY Zenon DEF Ends, HeldBy, TypeOK, IdlePump
<1>3. IF n <= arrived THEN OnlyOnce(n) ELSE Nowhere(n)
  BY Zenon DEF Kept
<1>4. CASE pump[t].pc = "notify"
  <2>1. t \notin HeldBy(n) /\ refused' = refused /\ dropped' = dropped
    BY <1>4, Zenon DEF HeldBy, Ends
  <2>2. OnlyOnce(n)' = OnlyOnce(n) /\ Nowhere(n)' = Nowhere(n)
    BY <1>1, <1>2, <2>1, Zenon
       DEF Nowhere, OnlyOnce, OnlyHeld, OnlySlot, OnlyTaken, OnlyRefused,
           OnlyDropped
  <2> QED BY <1>3, <2>2, Zenon
<1>5. CASE pump[t].pc = "ingest"
  <2>1. OnlyHeld(got.no, t) /\ got.no <= arrived
    BY <1>5, HeldOnce, Zenon
  <2>2. \/ refused' = refused \cup {got.no} /\ dropped' = dropped
        \/ refused' = refused /\ dropped' = dropped \cup {got.no}
    BY <1>5, Zenon DEF Ends
  <2>3. n # got.no => t \notin HeldBy(n)
    BY Zenon DEF HeldBy
  <2> HIDE DEF got
  <2>4. CASE n = got.no
    BY <1>1, <1>2, <2>1, <2>2, <2>4, Zenon DEF OnlyHeld, OnlyOnce, OnlyRefused, OnlyDropped
  <2>5. CASE n # got.no
    <3>1. OnlyOnce(n)' = OnlyOnce(n) /\ Nowhere(n)' = Nowhere(n)
      BY <1>1, <1>2, <2>2, <2>3, <2>5, Zenon
         DEF Nowhere, OnlyOnce, OnlyHeld, OnlySlot, OnlyTaken, OnlyRefused,
             OnlyDropped
    <3> QED BY <1>3, <3>1, Zenon
  <2> QED BY <2>4, <2>5, Zenon
<1> QED BY <1>4, <1>5, Zenon DEF Ends

\* Where a slot is once the i-th message of mailbox d is out.
Moved(d, i, s) == IF s[1] = d /\ s[2] > i THEN <<d, s[2] - 1>> ELSE s

\* The other messages keep their slots, or move down by one.
LEMMA TakesSlots ==
    ASSUME TypeOK, NEW t \in Tasks, task[t].pc = "look", NEW d, d = task[t].id,
           NEW i \in DOMAIN box[d], Takes(t, i), NEW n
    PROVE  SlotsOf(n)' = {Moved(d, i, s) : s \in SlotsOf(n) \ {<<d, i>>}}
<1> DEFINE m == Len(box[d])
<1>1. /\ d \in MESSAGE_IDS /\ i \in 1..m /\ m \in Nat
      /\ \A j \in MESSAGE_IDS \ {d} : box'[j] = box[j]
      /\ DOMAIN box'[d] = 1..(m - 1) /\ DOMAIN box[d] = 1..m
      /\ \A k \in 1..(m - 1) :
            box'[d][k] = IF k < i THEN box[d][k] ELSE box[d][k + 1]
  BY TakesElems, Zenon
<1>2. m <= DEPTH /\ DEPTH \in Nat
  BY <1>1, MailboxAssumption, Zenon DEF TypeOK
<1> HIDE DEF m
<1>3. ASSUME NEW id \in MESSAGE_IDS, NEW k \in 1..DEPTH,
             k \in DOMAIN box'[id], box'[id][k].no = n
      PROVE  \E s \in SlotsOf(n) \ {<<d, i>>} : Moved(d, i, s) = <<id, k>>
  <2>1. CASE id # d
    <3>1. <<id, k>> \in SlotsOf(n) \ {<<d, i>>}
      BY <1>1, <1>3, <2>1, Zenon DEF SlotsOf
    <3>2. Moved(d, i, <<id, k>>) = <<id, k>>
      BY <2>1, Zenon DEF Moved
    <3> QED BY <3>1, <3>2, Zenon
  <2>2. CASE id = d /\ k < i
    <3>1. k \in 1..m /\ k \in 1..(m - 1) /\ k # i /\ ~(k > i)
      BY <1>1, <1>3, <2>2
    <3>2. <<id, k>> \in SlotsOf(n) \ {<<d, i>>}
      BY <1>1, <1>3, <2>2, <3>1, Zenon DEF SlotsOf
    <3>3. Moved(d, i, <<id, k>>) = <<id, k>>
      BY <3>1, Zenon DEF Moved
    <3> QED BY <3>2, <3>3, Zenon
  <2>3. CASE id = d /\ ~(k < i)
    <3>1. /\ k \in 1..(m - 1) /\ k + 1 \in 1..m /\ k + 1 \in 1..DEPTH
          /\ k + 1 # i /\ k + 1 > i /\ (k + 1) - 1 = k
      BY <1>1, <1>2, <1>3, <2>3
    <3>2. <<d, k + 1>> \in SlotsOf(n) \ {<<d, i>>}
      BY <1>1, <1>3, <2>3, <3>1, Zenon DEF SlotsOf
    <3>3. Moved(d, i, <<d, k + 1>>) = <<d, k>>
      BY <3>1, Zenon DEF Moved
    <3> QED BY <2>3, <3>2, <3>3, Zenon
  <2> QED BY <2>1, <2>2, <2>3, Zenon
<1>4. ASSUME NEW id \in MESSAGE_IDS, NEW k \in 1..DEPTH,
             k \in DOMAIN box[id], box[id][k].no = n, <<id, k>> # <<d, i>>
      PROVE  Moved(d, i, <<id, k>>) \in SlotsOf(n)'
  <2>1. CASE id # d
    BY <1>1, <1>4, <2>1, Zenon DEF SlotsOf, Moved
  <2>2. CASE id = d /\ k > i
    <3>1. k - 1 \in 1..(m - 1) /\ k - 1 \in 1..DEPTH /\ ~(k - 1 < i)
          /\ (k - 1) + 1 = k
      BY <1>1, <1>2, <1>4, <2>2
    <3>2. Moved(d, i, <<id, k>>) = <<d, k - 1>>
      BY <2>2, Zenon DEF Moved
    <3>3. <<d, k - 1>> \in SlotsOf(n)'
      BY <1>1, <1>4, <2>2, <3>1, Zenon DEF SlotsOf
    <3> QED BY <3>2, <3>3, Zenon
  <2>3. CASE id = d /\ ~(k > i)
    <3>1. k \in 1..(m - 1) /\ k < i
      BY <1>1, <1>2, <1>4, <2>3
    <3>2. Moved(d, i, <<id, k>>) = <<d, k>>
      BY <2>3, Zenon DEF Moved
    <3>3. <<d, k>> \in SlotsOf(n)'
      BY <1>1, <1>4, <2>3, <3>1, Zenon DEF SlotsOf
    <3> QED BY <3>2, <3>3, Zenon
  <2> QED BY <2>1, <2>2, <2>3, Zenon
<1>5. \A s \in SlotsOf(n)' : \E r \in SlotsOf(n) \ {<<d, i>>} : Moved(d, i, r) = s
  <2> TAKE s \in SlotsOf(n)'
  <2>1. PICK id \in MESSAGE_IDS, k \in 1..DEPTH :
            s = <<id, k>> /\ k \in DOMAIN box'[id] /\ box'[id][k].no = n
    BY DEF SlotsOf
  <2> QED BY <1>3, <2>1, Zenon
<1>6. \A r \in SlotsOf(n) \ {<<d, i>>} : Moved(d, i, r) \in SlotsOf(n)'
  <2> TAKE r \in SlotsOf(n) \ {<<d, i>>}
  <2>1. PICK id \in MESSAGE_IDS, k \in 1..DEPTH :
            r = <<id, k>> /\ k \in DOMAIN box[id] /\ box[id][k].no = n
    BY DEF SlotsOf
  <2> QED BY <1>4, <2>1, Zenon
<1> QED BY <1>5, <1>6, Zenon

\* A message that is taken moves from its slot to the history.
LEMMA TakeKeeps ==
    ASSUME TypeOK, Counted, Kept, NEW t \in Tasks, Look(t)
    PROVE  Kept'
<1>1. /\ UNCHANGED <<pump, arrived, refused, dropped>> /\ task[t].pc = "look"
      /\ \/ UNCHANGED <<box, taken>>
         \/ \E i \in DOMAIN box[task[t].id] : Takes(t, i)
  BY LookTakes, Zenon
<1>2. CASE UNCHANGED <<box, taken>>
  BY <1>1, <1>2, SameKept, Zenon
<1>3. ASSUME NEW i \in DOMAIN box[task[t].id], Takes(t, i)
      PROVE  Kept'
  <2>1. PICK d : d = task[t].id
    BY Zenon
  <2>2. PICK x : x = box[d][i]
    BY Zenon
  <2>3. PICK l : l = Len(taken) + 1
    BY Zenon
  <2> SUFFICES ASSUME NEW n \in 1..MaxArrivals
               PROVE  IF n <= arrived THEN OnlyOnce(n)' ELSE Nowhere(n)'
    BY <1>1, Zenon DEF Kept
  <2>4. /\ HeldBy(n)' = HeldBy(n)
        /\ refused' = refused /\ dropped' = dropped
    BY <1>1, Zenon DEF HeldBy
  <2>5. TakenAs(n)' = IF n = x.no THEN TakenAs(n) \cup {l} ELSE TakenAs(n)
    <3>1. /\ taken \in Seq(Takings)
          /\ taken' = Append(taken, [m |-> x, from |-> task[t].from,
                                             pred |-> task[t].pred])
      BY <1>3, <2>1, <2>2, Zenon DEF Takes, TypeOK
    <3> DEFINE y == [m |-> x, from |-> task[t].from, pred |-> task[t].pred]
    <3>2. y.m = x
      BY Zenon
    <3> HIDE DEF y
    <3>3. /\ DOMAIN taken' = 1..l /\ DOMAIN taken = 1..(l - 1) /\ l \in Nat \ {0}
          /\ taken'[l] = y /\ \A k \in 1..(l - 1) : taken'[k] = taken[k]
      BY <2>3, <3>1 DEF y
    <3>4. 1..l = (1..(l - 1)) \cup {l} /\ l \notin 1..(l - 1)
      BY <3>3
    <3> QED BY <3>2, <3>3, <3>4, Zenon DEF TakenAs
  <2>6. SlotsOf(n)' = {Moved(d, i, s) : s \in SlotsOf(n) \ {<<d, i>>}}
    BY <1>1, <1>3, <2>1, TakesSlots
  <2>7. <<d, i>> \in SlotsOf(n) <=> n = x.no
    <3>1. d \in MESSAGE_IDS /\ i \in 1..Len(box[d]) /\ i \in DOMAIN box[d]
      <4>1. d \in MESSAGE_IDS
        BY <1>1, <2>1, ReceivingType, Zenon DEF Receiving
      <4>2. box[d] \in Seq(Messages)
        BY <4>1, Zenon DEF TypeOK
      <4> QED BY <1>3, <2>1, <4>1, <4>2
    <3>2. Len(box[d]) <= DEPTH /\ Len(box[d]) \in Nat /\ DEPTH \in Nat
      BY <3>1, MailboxAssumption DEF TypeOK
    <3>3. i \in 1..DEPTH
      BY <3>1, <3>2
    <3> QED BY <2>2, <3>1, <3>3, Zenon DEF SlotsOf
  <2>8. IF n <= arrived THEN OnlyOnce(n) ELSE Nowhere(n)
    BY Zenon DEF Kept
  <2>9. CASE n = x.no
    <3>1. OnlySlot(n, <<d, i>>) /\ n <= arrived
      BY <2>7, <2>8, <2>9, Zenon
         DEF OnlyOnce, Nowhere, OnlyHeld, OnlySlot, OnlyTaken, OnlyRefused, OnlyDropped
    <3>2. SlotsOf(n)' = {}
      BY <2>6, <3>1, Zenon DEF OnlySlot
    <3>3. OnlyTaken(n, l)'
      BY <2>4, <2>5, <2>9, <3>1, <3>2, Zenon DEF OnlySlot, OnlyTaken
    <3> QED BY <3>1, <3>3, Zenon DEF OnlyOnce
  <2>10. CASE n # x.no
    <3>1. SlotsOf(n)' = {Moved(d, i, s) : s \in SlotsOf(n)}
      BY <2>6, <2>7, <2>10, Zenon
    <3>2. SlotsOf(n) = {} => SlotsOf(n)' = {}
      BY <3>1, Zenon
    <3>3. \A s : SlotsOf(n) = {s} => SlotsOf(n)' = {Moved(d, i, s)}
      BY <3>1, Zenon
    <3>4. Nowhere(n) => Nowhere(n)'
      BY <2>4, <2>5, <2>10, <3>2, Zenon DEF Nowhere
    <3>5. OnlyOnce(n) => OnlyOnce(n)'
      BY <2>4, <2>5, <2>10, <3>2, <3>3, Zenon
         DEF OnlyOnce, OnlyHeld, OnlySlot, OnlyTaken, OnlyRefused, OnlyDropped
    <3> QED BY <2>8, <3>4, <3>5, Zenon
  <2> QED BY <2>9, <2>10, Zenon
<1> QED BY <1>1, <1>2, <1>3, Zenon

\* No payload is received twice and none is lost in silence, however pumps,
\* receivers and cancellations interleave: what has arrived is with one pump,
\* in one slot, received once, refused or dropped with its pump.
THEOREM NothingLostOrDoubled == Spec => []Conserved
<1>1. Init => Kept
  <2> SUFFICES ASSUME Init, NEW n \in 1..MaxArrivals
               PROVE  ~(n <= arrived) /\ Nowhere(n)
    BY Zenon DEF Kept
  <2> QED BY MailboxAssumption
          DEF Init, Nowhere, HeldBy, SlotsOf, TakenAs, IdlePump
<1>2. TypeOK /\ Counted /\ Kept /\ [Next]_vars => Kept'
  <2> SUFFICES ASSUME TypeOK, Counted, Kept, [Next]_vars PROVE Kept'
    BY Zenon
  <2>1. CASE Arrive
    BY <2>1, RecvKeeps, Zenon DEF Arrive
  <2>2. CASE \E t \in Pumps : PumpStep(t) \/ CancelPump(t)
    BY <2>2, PumpSteps, PushKeeps, EndKeeps, Zenon
  <2>3. CASE \E t \in Tasks : Look(t)
    BY <2>3, TakeKeeps, Zenon
  <2>4. CASE UNCHANGED <<pump, box, arrived, taken, refused, dropped>>
    BY <2>4, SameKept, Zenon
  <2> QED BY <2>1, <2>2, <2>3, <2>4, Zenon
          DEF Next, Callers, Steps, TaskStep, RecvNext, Cancel, Changed, vars
<1>3. Kept => Conserved
  BY KindsOfPlaces, Zenon DEF Kept, Conserved
<1> QED BY <1>1, <1>2, <1>3, MailboxTypeCorrect, PTL DEF Spec
===============================================================================
