------------------------------ MODULE QueueProofs -----------------------------
(***************************************************************************)
(* What is proved of the two versions of can-isotp-queue.  Both keep the   *)
(* events in order: every step of the actor, the node and the receiver     *)
(* does.  In the Tokio version a call that waits is answered once.  In the *)
(* embassy version, as long as no send was cancelled, the lock makes the   *)
(* shared answer channel as good as one of the call's own.                 *)
(***************************************************************************)
EXTENDS TokioQueue, EmbassyQueue, FiniteSetTheorems, SequenceTheorems, TLAPS

-------------------------------------------------------------------------------
(* What the versions share *)

Requests == [client : Clients, call : 0..(CallSpace - 1)]
Answers == [client : Clients, call : 0..(CallSpace - 1), res : Results]

\* A sequence with one element more.
LEMMA AppendElems ==
    ASSUME NEW S, NEW s \in Seq(S), NEW e \in S
    PROVE  /\ Append(s, e) \in Seq(S)
           /\ DOMAIN Append(s, e) = DOMAIN s \cup {Len(s) + 1}
           /\ DOMAIN s = 1..Len(s) /\ Len(s) \in Nat /\ Len(s) + 1 \notin DOMAIN s
           /\ Append(s, e)[Len(s) + 1] = e
           /\ \A i \in DOMAIN s : Append(s, e)[i] = s[i]
           /\ Range(Append(s, e)) = Range(s) \cup {e}
<1>1. /\ DOMAIN s = 1..Len(s) /\ Len(s) \in Nat
      /\ Append(s, e) \in Seq(S) /\ Len(Append(s, e)) = Len(s) + 1
      /\ DOMAIN Append(s, e) = 1..(Len(s) + 1)
      /\ Append(s, e)[Len(s) + 1] = e
      /\ \A i \in 1..Len(s) : Append(s, e)[i] = s[i]
  BY AppendProperties, LenProperties
<1>2. 1..(Len(s) + 1) = (1..Len(s)) \cup {Len(s) + 1} /\ Len(s) + 1 \notin 1..Len(s)
  BY <1>1
<1>3. Range(Append(s, e)) = Range(s) \cup {e}
  BY <1>1, <1>2 DEF Range
<1> QED BY <1>1, <1>2, <1>3, Zenon

\* A finite set with one element more.
LEMMA OneMore ==
    ASSUME NEW S, IsFiniteSet(S), NEW x
    PROVE  /\ IsFiniteSet(S \cup {x})
           /\ Cardinality(S \cup {x}) <= Cardinality(S) + 1
<1>1. IsFiniteSet(S \cup {x}) /\ Cardinality(S) \in Nat
  BY FS_AddElement, FS_CardinalityType, Zenon
<1>2. CASE x \in S
  <2>1. S \cup {x} = S
    BY <1>2, Zenon
  <2> QED BY <1>1, <2>1
<1>3. CASE x \notin S
  <2>1. Cardinality(S \cup {x}) = Cardinality(S) + 1
    BY <1>3, FS_AddElement, Zenon
  <2> QED BY <1>1, <2>1
<1> QED BY <1>2, <1>3, Zenon

\* A set of numbers that is not empty has a least one.
LEMMA LeastOf ==
    ASSUME NEW S \in SUBSET Nat, S # {}
    PROVE  \E i \in S : \A j \in S : i <= j
<1>1. PICK i \in S : \A j \in S : <<j, i>> \notin OpToRel(<, Nat)
  BY NatLessThanWellFounded, WFMin, Zenon
<1>2. \A x, y \in Nat : <<x, y>> \in OpToRel(<, Nat) <=> x < y
  BY Zenon DEF OpToRel
<1>3. \A j \in S : ~(j < i) /\ j \in Nat /\ i \in Nat
  BY <1>1, <1>2, Zenon
<1> QED BY <1>3

\* A number that tells a new request from the others is found.
LEMMA NewCallIsNew ==
    ASSUME NEW c \in Clients, NEW rs, IsFiniteSet(rs), Cardinality(rs) < CallSpace
    PROVE  /\ NewCall(c, rs) \in 0..(CallSpace - 1)
           /\ \A r \in rs : r.client = c => r.call # NewCall(c, rs)
<1> DEFINE N == 0..(CallSpace - 1)
           Used(n) == \E r \in rs : r.client = c /\ r.call = n
           Free == {n \in N : ~Used(n)}
<1>1. Free # {}
  <2> SUFFICES ASSUME Free = {} PROVE FALSE
    BY Zenon
  <2>1. \A n \in N : Used(n)
    BY Zenon
  <2> DEFINE f == [n \in N |-> CHOOSE r \in rs : r.client = c /\ r.call = n]
  <2>2. \A n \in N : f[n] \in rs /\ f[n].call = n
    BY <2>1, Zenon
  <2>3. f \in Injection(N, rs)
    BY <2>2 DEF Injection, IsInjective
  <2>4. Cardinality(N) <= Cardinality(rs)
    BY <2>3, FS_Injection, Zenon
  <2>5. Cardinality(N) = CallSpace
    BY FS_Interval, ActorAssumption
  <2>6. Cardinality(rs) \in Nat
    BY FS_CardinalityType, Zenon
  <2> QED BY <2>4, <2>5, <2>6, ActorAssumption
<1>2. Free \in SUBSET Nat
  OBVIOUS
<1>3. PICK n \in Free : \A k \in Free : n <= k
  BY <1>1, <1>2, LeastOf, Zenon
<1>4. \A k \in 0..(n - 1) : Used(k)
  BY <1>2, <1>3, ActorAssumption
<1>5. \E m \in 0..CallSpace - 1 :
         /\ \A r \in rs : r.client = c => r.call # m
         /\ \A k \in 0..m - 1 : \E r \in rs : r.client = c /\ r.call = k
  BY <1>3, <1>4, Zenon
<1> QED BY <1>5, Zenon DEF NewCall

\* A sequence has at most as many different elements as it is long.
LEMMA SmallRange ==
    ASSUME NEW S, NEW s \in Seq(S)
    PROVE  /\ IsFiniteSet(Range(s)) /\ Len(s) \in Nat
           /\ Cardinality(Range(s)) \in Nat /\ Cardinality(Range(s)) <= Len(s)
<1>1. DOMAIN s = 1..Len(s) /\ Len(s) \in Nat
  OBVIOUS
<1>2. IsFiniteSet(DOMAIN s) /\ Cardinality(DOMAIN s) = Len(s)
  <2> DEFINE n == Len(s)
  <2>1. n \in Nat /\ DOMAIN s = 1..n
    BY <1>1, Zenon
  <2> HIDE DEF n
  <2>2. IsFiniteSet(1..n) /\ Cardinality(1..n) = n
    BY <2>1, FS_Interval
  <2> QED BY <2>1, <2>2, Zenon DEF n
<1>3. s \in Surjection(DOMAIN s, Range(s))
  <2>1. s = [i \in DOMAIN s |-> s[i]]
    OBVIOUS
  <2>2. s \in [DOMAIN s -> Range(s)]
    BY <2>1, Zenon DEF Range
  <2> QED BY <2>2, Zenon DEF Surjection, Range
<1> QED BY <1>1, <1>2, <1>3, FS_Surjection, FS_CardinalityType

-------------------------------------------------------------------------------

Msgs == [no : Nat, e : Incoming]
Events == {ReplyTo(m) : m \in Msgs}

\* All that left the node and was let pass, by its numbers.
Seen == (got \o NumbersOf(rxEvt)) \o NumbersOf(evt)

\* EventsInOrder of a node that received ar and still has nd, when the events
\* numbered sn were passed on.
InOrder(ar, nd, sn) ==
    /\ \A i \in DOMAIN nd : nd[i] = ar[Len(ar) - Len(nd) + i]
    /\ \A i, j \in DOMAIN sn : i < j => sn[i] < sn[j]
    /\ Range(sn) = {n \in 1..(Len(ar) - Len(nd)) : Wanted(ar[n])}

RxTypeOK ==
    /\ arrived \in Seq(Msgs) /\ node \in Seq(Msgs) /\ Len(node) <= Len(arrived)
    /\ rxEvt \in Seq(Events) /\ evt \in Seq(Events) /\ got \in Seq(Nat)
    /\ \A i \in DOMAIN arrived : arrived[i].no = i
    /\ apc # "deliver" => evt = <<>>

\* What makes EventsInOrder inductive: the actor holds an event only while it
\* waits for a slot, and the numbers are those of the order of arrival.
RxInv == RxTypeOK /\ EventsInOrder

\* EventsInOrder, before and after a step, in terms of what was seen.
LEMMA EventsAreInOrder ==
    /\ EventsInOrder <=> (apc # "stopped" => InOrder(arrived, node, Seen))
    /\ EventsInOrder' <=> (apc' # "stopped" => InOrder(arrived', node', Seen'))
BY Zenon DEF EventsInOrder, InOrder, Seen

\* The source that is reported leaves the number alone.
LEMMA EventNumber ==
    ASSUME NEW m \in Msgs
    PROVE  ReplyTo(m).no = m.no /\ ReplyTo(m) \in Events
<1>1. ReplyTo(m).no = m.no
  BY Zenon DEF ReplyTo, Msgs
<1> QED BY <1>1, Zenon DEF Events

\* Events carry numbers.
LEMMA EventsAreNumbered ==
    ASSUME NEW e \in Events
    PROVE  e.no \in Nat
<1>1. PICK m \in Msgs : e = ReplyTo(m)
  BY Zenon DEF Events
<1>2. m.no \in Nat
  BY Zenon DEF Msgs
<1> QED BY <1>1, <1>2, EventNumber, Zenon

\* The numbers of a sequence of events.
LEMMA NumbersType ==
    ASSUME NEW s \in Seq(Events)
    PROVE  /\ NumbersOf(s) \in Seq(Nat) /\ Len(NumbersOf(s)) = Len(s)
           /\ \A i \in 1..Len(s) : NumbersOf(s)[i] = s[i].no
           /\ Len(s) \in Nat
<1>1. DOMAIN s = 1..Len(s) /\ Len(s) \in Nat /\ \A i \in 1..Len(s) : s[i] \in Events
  BY LenProperties, ElementOfSeq, Zenon
<1>2. \A i \in 1..Len(s) : s[i].no \in Nat
  BY <1>1, EventsAreNumbered, Zenon
<1> QED BY <1>1, <1>2 DEF NumbersOf

\* The numbers of two sequences one after the other.
LEMMA NumbersOfConcat ==
    ASSUME NEW s \in Seq(Events), NEW t \in Seq(Events)
    PROVE  NumbersOf(s \o t) = NumbersOf(s) \o NumbersOf(t)
<1>1. s \o t \in Seq(Events) /\ Len(s \o t) = Len(s) + Len(t)
      /\ \A i \in 1..Len(s) + Len(t) :
            (s \o t)[i] = IF i <= Len(s) THEN s[i] ELSE t[i - Len(s)]
  BY ConcatProperties, Zenon
<1> DEFINE a == NumbersOf(s)
           b == NumbersOf(t)
           c == NumbersOf(s \o t)
<1>2. /\ a \in Seq(Nat) /\ Len(a) = Len(s) /\ \A i \in 1..Len(s) : a[i] = s[i].no
      /\ b \in Seq(Nat) /\ Len(b) = Len(t) /\ \A i \in 1..Len(t) : b[i] = t[i].no
      /\ Len(s) \in Nat /\ Len(t) \in Nat
  BY NumbersType, Zenon
<1>3. /\ c \in Seq(Nat) /\ Len(c) = Len(s) + Len(t)
      /\ \A i \in 1..(Len(s) + Len(t)) : c[i] = (s \o t)[i].no
  BY <1>1, NumbersType, Zenon
<1> HIDE DEF a, b, c
<1>4. /\ a \o b \in Seq(Nat) /\ Len(a \o b) = Len(s) + Len(t)
      /\ \A i \in 1..(Len(s) + Len(t)) :
            (a \o b)[i] = IF i <= Len(s) THEN a[i] ELSE b[i - Len(s)]
  BY <1>2, ConcatProperties, SMTT(20)
<1>5. \A i \in 1..(Len(s) + Len(t)) : c[i] = (a \o b)[i]
  <2> SUFFICES ASSUME NEW i \in 1..(Len(s) + Len(t))
               PROVE  c[i] = (a \o b)[i]
    BY Zenon
  <2>1. CASE i <= Len(s)
    <3>1. i \in 1..Len(s)
      BY <1>2, <2>1
    <3> QED BY <1>1, <1>2, <1>3, <1>4, <2>1, <3>1, Zenon
  <2>2. CASE ~(i <= Len(s))
    <3>1. i - Len(s) \in 1..Len(t)
      BY <1>2, <2>2
    <3> QED BY <1>1, <1>2, <1>3, <1>4, <2>2, <3>1, Zenon
  <2> QED BY <2>1, <2>2, Zenon
<1>6. c = a \o b
  BY <1>3, <1>4, <1>5, SeqEqual, Zenon
<1> QED BY <1>6, Zenon DEF a, b, c

\* The numbers of one event, and of none.
LEMMA NumbersOfOne ==
    /\ NumbersOf(<<>>) = <<>>
    /\ \A e \in Events : NumbersOf(<<e>>) = <<e.no>>
BY DEF NumbersOf

\* An arrival leaves what was polled as it is.
LEMMA ArriveInOrder ==
    ASSUME NEW ar \in Seq(Msgs), NEW nd \in Seq(Msgs), NEW m \in Msgs, NEW sn,
           Len(nd) <= Len(ar), InOrder(ar, nd, sn)
    PROVE  InOrder(Append(ar, m), Append(nd, m), sn)
<1> DEFINE k == Len(ar)
           l == Len(nd)
           a == Append(ar, m)
           b == Append(nd, m)
<1>1. /\ k \in Nat /\ l \in Nat /\ l <= k
      /\ a \in Seq(Msgs) /\ Len(a) = k + 1 /\ a[k + 1] = m
      /\ \A i \in 1..k : a[i] = ar[i]
      /\ DOMAIN b = 1..(l + 1) /\ Len(b) = l + 1 /\ b[l + 1] = m
      /\ \A i \in 1..l : b[i] = nd[i]
  BY AppendProperties, LenProperties
<1>2. /\ \A i \in 1..l : nd[i] = ar[k - l + i]
      /\ \A i, j \in DOMAIN sn : i < j => sn[i] < sn[j]
      /\ Range(sn) = {n \in 1..(k - l) : Wanted(ar[n])}
  BY LenProperties, Zenon DEF InOrder
<1> HIDE DEF k, l, a, b
<1>3. (k + 1) - (l + 1) = k - l /\ k - l \in Nat
  BY <1>1
<1>4. \A i \in 1..(l + 1) : b[i] = a[k - l + i]
  <2> TAKE i \in 1..(l + 1)
  <2>1. CASE i = l + 1
    <3>1. k - l + i = k + 1
      BY <1>1, <2>1
    <3> QED BY <1>1, <2>1, <3>1, Zenon
  <2>2. CASE i # l + 1
    <3>1. i \in 1..l /\ k - l + i \in 1..k
      BY <1>1, <2>2
    <3> QED BY <1>1, <1>2, <3>1, Zenon
  <2> QED BY <2>1, <2>2, Zenon
<1>5. \A n \in 1..(k - l) : a[n] = ar[n]
  BY <1>1
<1>6. {n \in 1..(k - l) : Wanted(ar[n])} = {n \in 1..(k - l) : Wanted(a[n])}
  BY <1>5, Zenon
<1>7. InOrder(a, b, sn)
  BY <1>1, <1>2, <1>3, <1>4, <1>6, Zenon DEF InOrder
<1> QED BY <1>7, Zenon DEF a, b

\* What a node that handed over p events hands over next, and what it still
\* has then.
HandedOver(ar, nd, p) ==
    /\ p \in Nat /\ p + 1 \in 1..Len(ar)
    /\ Head(nd) = ar[p + 1] /\ Head(nd) \in Msgs
    /\ Tail(nd) \in Seq(Msgs) /\ Len(ar) - Len(Tail(nd)) = p + 1
    /\ Len(Tail(nd)) <= Len(ar)
    /\ \A i \in DOMAIN Tail(nd) : Tail(nd)[i] = ar[(p + 1) + i]
    /\ 1..(p + 1) = (1..p) \cup {p + 1}

\* It does hand that over.
LEMMA HandOver ==
    ASSUME NEW ar \in Seq(Msgs), NEW nd \in Seq(Msgs), NEW sn,
           Len(nd) <= Len(ar), nd # <<>>, InOrder(ar, nd, sn),
           NEW p, p = Len(ar) - Len(nd)
    PROVE  HandedOver(ar, nd, p)
<1> DEFINE k == Len(ar)
           l == Len(nd)
           t == Tail(nd)
<1>1. /\ k \in Nat /\ l \in Nat \ {0} /\ l <= k /\ p = k - l
      /\ Head(nd) = nd[1] /\ Head(nd) \in Msgs
      /\ t \in Seq(Msgs) /\ Len(t) = l - 1 /\ DOMAIN t = 1..(l - 1)
      /\ \A i \in 1..(l - 1) : t[i] = nd[i + 1]
  BY HeadTailProperties, LenProperties, EmptySeq
<1>2. \A i \in 1..l : nd[i] = ar[p + i]
  BY LenProperties, Zenon DEF InOrder
<1> HIDE DEF k, l, t
<1>3. p \in Nat /\ p + 1 \in 1..k /\ k - (l - 1) = p + 1 /\ 1 \in 1..l
  <2>1. k \in Nat /\ l \in Nat \ {0} /\ l <= k /\ p = k - l
    BY <1>1, Zenon
  <2> QED BY ONLY <2>1
<1>4. \A i \in 1..(l - 1) : t[i] = ar[(p + 1) + i]
  <2> TAKE i \in 1..(l - 1)
  <2>1. i + 1 \in 1..l /\ p + (i + 1) = (p + 1) + i
    BY <1>1, <1>3
  <2> QED BY <1>1, <1>2, <2>1, Zenon
<1>5. 1..(p + 1) = (1..p) \cup {p + 1}
  BY <1>3
<1>6. l - 1 <= k
  BY <1>1
<1>7. Head(nd) = ar[p + 1]
  BY <1>1, <1>2, <1>3, Zenon
<1> QED BY <1>1, <1>3, <1>4, <1>5, <1>6, <1>7, Zenon DEF k, l, t, HandedOver

\* A payload that the filter drops.
LEMMA DropInOrder ==
    ASSUME NEW ar \in Seq(Msgs), NEW nd \in Seq(Msgs), NEW sn,
           Len(nd) <= Len(ar), nd # <<>>, InOrder(ar, nd, sn),
           ~Wanted(Head(nd))
    PROVE  InOrder(ar, Tail(nd), sn)
<1> DEFINE p == Len(ar) - Len(nd)
<1>1. p = Len(ar) - Len(nd)
  BY Zenon
<1>2. /\ \A i, j \in DOMAIN sn : i < j => sn[i] < sn[j]
      /\ Range(sn) = {n \in 1..p : Wanted(ar[n])}
  BY Zenon DEF InOrder
<1> HIDE DEF p
<1>3. /\ Head(nd) = ar[p + 1] /\ Len(ar) - Len(Tail(nd)) = p + 1
      /\ \A i \in DOMAIN Tail(nd) : Tail(nd)[i] = ar[(p + 1) + i]
      /\ 1..(p + 1) = (1..p) \cup {p + 1}
  <2>1. HandedOver(ar, nd, p)
    BY <1>1, HandOver, Zenon
  <2> QED BY <2>1, Zenon DEF HandedOver
<1>4. {n \in 1..p : Wanted(ar[n])} = {n \in 1..(p + 1) : Wanted(ar[n])}
  BY <1>3, Zenon
<1> QED BY <1>2, <1>3, <1>4, Zenon DEF InOrder

\* An event that the filter lets pass is later than all before it.
LEMMA PassInOrder ==
    ASSUME NEW ar \in Seq(Msgs), NEW nd \in Seq(Msgs), NEW sn \in Seq(Nat),
           Len(nd) <= Len(ar), nd # <<>>, InOrder(ar, nd, sn),
           Wanted(Head(nd)), \A i \in DOMAIN ar : ar[i].no = i
    PROVE  InOrder(ar, Tail(nd), Append(sn, Head(nd).no))
<1> DEFINE p == Len(ar) - Len(nd)
           q == Append(sn, p + 1)
<1>1. p = Len(ar) - Len(nd)
  BY Zenon
<1>2. /\ \A i, j \in DOMAIN sn : i < j => sn[i] < sn[j]
      /\ Range(sn) = {n \in 1..p : Wanted(ar[n])}
  BY Zenon DEF InOrder
<1> HIDE DEF p
<1>3. /\ Head(nd) = ar[p + 1] /\ Len(ar) - Len(Tail(nd)) = p + 1 /\ p \in Nat
      /\ \A i \in DOMAIN Tail(nd) : Tail(nd)[i] = ar[(p + 1) + i]
      /\ 1..(p + 1) = (1..p) \cup {p + 1} /\ p + 1 \in 1..Len(ar)
  <2>1. HandedOver(ar, nd, p)
    BY <1>1, HandOver, Zenon
  <2> QED BY <2>1, Zenon DEF HandedOver
<1>4. Head(nd).no = p + 1 /\ Wanted(ar[p + 1])
  BY <1>3, LenProperties
<1>5. /\ DOMAIN q = DOMAIN sn \cup {Len(sn) + 1} /\ Len(sn) \in Nat
      /\ DOMAIN sn = 1..Len(sn) /\ q[Len(sn) + 1] = p + 1
      /\ \A i \in DOMAIN sn : q[i] = sn[i]
      /\ Range(q) = Range(sn) \cup {p + 1}
  <2>1. PICK e \in Nat : e = p + 1
    BY <1>3
  <2>2. /\ DOMAIN Append(sn, e) = DOMAIN sn \cup {Len(sn) + 1} /\ Len(sn) \in Nat
        /\ DOMAIN sn = 1..Len(sn) /\ Append(sn, e)[Len(sn) + 1] = e
        /\ \A i \in DOMAIN sn : Append(sn, e)[i] = sn[i]
        /\ Range(Append(sn, e)) = Range(sn) \cup {e}
    <3> DEFINE S == Nat
    <3>1. sn \in Seq(S) /\ e \in S
      BY Zenon
    <3> HIDE DEF S
    <3> QED BY ONLY <3>1, AppendElems
  <2> QED BY <2>1, <2>2, Zenon
<1> HIDE DEF q
<1>6. \A i \in DOMAIN sn : sn[i] \in 1..p
  BY <1>2, Zenon DEF Range
<1>7. ASSUME NEW i \in DOMAIN q, NEW j \in DOMAIN q, i < j
      PROVE  q[i] < q[j]
  <2>1. i \in DOMAIN sn
    BY <1>5, <1>7
  <2>2. CASE j \in DOMAIN sn
    BY <1>2, <1>5, <1>7, <2>1, <2>2, Zenon
  <2>3. CASE j = Len(sn) + 1
    <3>1. q[i] = sn[i] /\ q[j] = p + 1 /\ sn[i] \in 1..p
      BY <1>5, <1>6, <2>1, <2>3, Zenon
    <3> QED BY <1>3, <3>1
  <2> QED BY <1>5, <2>2, <2>3, Zenon
<1>8. Range(q) = {n \in 1..(p + 1) : Wanted(ar[n])}
  BY <1>2, <1>3, <1>4, <1>5, Zenon
<1>9. InOrder(ar, Tail(nd), q)
  BY <1>3, <1>7, <1>8, Zenon DEF InOrder
<1> QED BY <1>4, <1>9, Zenon DEF q

-------------------------------------------------------------------------------

\* What is seen is a sequence of numbers.
LEMMA SeenType ==
    ASSUME RxTypeOK
    PROVE  /\ Seen \in Seq(Nat) /\ got \o NumbersOf(rxEvt) \in Seq(Nat)
           /\ NumbersOf(rxEvt) \in Seq(Nat) /\ NumbersOf(evt) \in Seq(Nat)
           /\ (evt = <<>> => Seen = got \o NumbersOf(rxEvt))
<1>1. NumbersOf(rxEvt) \in Seq(Nat) /\ NumbersOf(evt) \in Seq(Nat)
  BY NumbersType, Zenon DEF RxTypeOK
<1>2. got \o NumbersOf(rxEvt) \in Seq(Nat)
  BY <1>1, ConcatProperties, Zenon DEF RxTypeOK
<1>3. Seen \in Seq(Nat)
  BY <1>1, <1>2, ConcatProperties, Zenon DEF Seen
<1>4. evt = <<>> => Seen = got \o NumbersOf(rxEvt)
  BY <1>2, ConcatEmptySeq, NumbersOfOne, Zenon DEF Seen
<1> QED BY <1>1, <1>2, <1>3, <1>4, Zenon

\* The node receives.
LEMMA ArriveKeepsEvents ==
    ASSUME RxInv, NEW x \in Incoming, Arrive(x)
    PROVE  RxInv'
<1> DEFINE m == [no |-> Len(arrived) + 1, e |-> x]
<1>1. /\ arrived' = Append(arrived, m) /\ node' = Append(node, m)
      /\ apc' = apc /\ evt' = evt /\ rxEvt' = rxEvt /\ got' = got
  BY Zenon DEF Arrive
<1>2. m \in Msgs /\ m.no = Len(arrived) + 1
  BY LenProperties DEF RxInv, RxTypeOK, Msgs
<1> HIDE DEF m
<1>3. RxTypeOK
  BY Zenon DEF RxInv
<1>4. /\ arrived' \in Seq(Msgs) /\ node' \in Seq(Msgs)
      /\ DOMAIN arrived' = DOMAIN arrived \cup {Len(arrived) + 1}
      /\ arrived'[Len(arrived) + 1] = m
      /\ \A i \in DOMAIN arrived : arrived'[i] = arrived[i]
  BY <1>1, <1>2, <1>3, AppendElems, SMTT(20) DEF RxTypeOK
<1>5. Len(node') <= Len(arrived')
  BY <1>1, <1>2, <1>3, AppendProperties, LenProperties DEF RxTypeOK
<1>6. \A i \in DOMAIN arrived' : arrived'[i].no = i
  BY <1>2, <1>3, <1>4, Zenon DEF RxTypeOK
<1>7. RxTypeOK'
  BY <1>1, <1>3, <1>4, <1>5, <1>6, Zenon DEF RxTypeOK
<1>8. InOrder(arrived, node, Seen) => InOrder(Append(arrived, m), Append(node, m), Seen)
  BY <1>2, <1>3, ArriveInOrder, Zenon DEF RxTypeOK
<1>9. Seen' = Seen
  BY <1>1, Zenon DEF Seen, NumbersOf
<1>10. EventsInOrder'
  BY <1>1, <1>8, <1>9, EventsAreInOrder, Zenon DEF RxInv
<1> QED BY <1>7, <1>10, Zenon DEF RxInv

\* The actor takes what the node received, and passes it on or drops it.
LEMMA PollKeepsEvents ==
    ASSUME RxInv, Poll
    PROVE  RxInv'
<1>1. /\ apc = "recv" /\ evt = <<>> /\ node # <<>> /\ node' = Tail(node)
      /\ rxEvt' = rxEvt /\ arrived' = arrived /\ got' = got /\ RxTypeOK
      /\ apc # "stopped"
  BY Zenon DEF Poll, RxInv, RxTypeOK
<1>2. InOrder(arrived, node, Seen)
  BY <1>1, EventsAreInOrder, Zenon DEF RxInv
<1>3. /\ Head(node) \in Msgs /\ Tail(node) \in Seq(Msgs)
      /\ Len(Tail(node)) <= Len(arrived)
  BY <1>1, <1>2, HandOver DEF RxTypeOK
<1>4. Passes(Head(node)) <=> Wanted(Head(node))
  BY Zenon DEF Passes, Wanted
<1>5. CASE Passes(Head(node))
  <2> DEFINE r == ReplyTo(Head(node))
  <2>1. evt' = <<r>> /\ apc' = "deliver"
    BY <1>5, Zenon DEF Poll
  <2>2. r \in Events /\ r.no = Head(node).no /\ Head(node).no \in Nat
    BY <1>3, EventNumber, Zenon DEF Msgs
  <2> HIDE DEF r
  <2>3. <<r>> \in Seq(Events)
    BY <2>2
  <2>4. RxTypeOK'
    BY <1>1, <1>3, <2>1, <2>3, Zenon DEF RxTypeOK
  <2>5. NumbersOf(rxEvt)' = NumbersOf(rxEvt) /\ NumbersOf(evt)' = <<Head(node).no>>
    BY <1>1, <2>1, <2>2, NumbersOfOne, Zenon DEF NumbersOf
  <2>6. Seen' = Append(Seen, Head(node).no)
    BY <1>1, <2>2, <2>5, SeenType, AppendIsConcat DEF Seen
  <2>7. InOrder(arrived, Tail(node), Append(Seen, Head(node).no))
    BY <1>1, <1>2, <1>4, <1>5, SeenType, PassInOrder, Zenon DEF RxTypeOK
  <2> QED BY <1>1, <2>4, <2>6, <2>7, EventsAreInOrder, Zenon DEF RxInv
<1>6. CASE ~Passes(Head(node))
  <2>1. evt' = evt /\ apc' = "tx"
    BY <1>6, Zenon DEF Poll, NextRound
  <2>2. RxTypeOK'
    BY <1>1, <1>3, <2>1, Zenon DEF RxTypeOK
  <2>3. Seen' = Seen
    BY <1>1, <2>1, Zenon DEF Seen, NumbersOf
  <2>4. InOrder(arrived, Tail(node), Seen)
    BY <1>1, <1>2, <1>4, <1>6, DropInOrder, Zenon DEF RxTypeOK
  <2> QED BY <1>1, <2>2, <2>3, <2>4, EventsAreInOrder, Zenon DEF RxInv
<1> QED BY <1>5, <1>6, Zenon

\* The event goes from the actor's hands to the channel.
LEMMA DeliverKeepsEvents ==
    ASSUME RxInv, Deliver
    PROVE  RxInv'
<1>1. /\ apc = "deliver" /\ apc' = "tx" /\ rxEvt' = rxEvt \o evt /\ evt' = <<>>
      /\ node' = node /\ arrived' = arrived /\ got' = got /\ RxTypeOK
  BY Zenon DEF Deliver, NextRound, RxInv
<1>2. rxEvt' \in Seq(Events) /\ evt' \in Seq(Events)
  BY <1>1, ConcatProperties, EmptySeq, Zenon DEF RxTypeOK
<1>3. RxTypeOK'
  BY <1>1, <1>2, Zenon DEF RxTypeOK
<1>4. NumbersOf(rxEvt)' = NumbersOf(rxEvt) \o NumbersOf(evt)
  <2>1. NumbersOf(rxEvt \o evt) = NumbersOf(rxEvt) \o NumbersOf(evt)
    BY <1>1, NumbersOfConcat, Zenon DEF RxTypeOK
  <2>2. NumbersOf(rxEvt)' = NumbersOf(rxEvt \o evt)
    BY <1>1, Zenon DEF NumbersOf
  <2> QED BY <2>1, <2>2, Zenon
<1>5. Seen' = got \o (NumbersOf(rxEvt) \o NumbersOf(evt))
  <2>1. NumbersOf(evt)' = <<>>
    BY <1>1 DEF NumbersOf
  <2>2. got \o (NumbersOf(rxEvt) \o NumbersOf(evt)) \in Seq(Nat)
    BY <1>1, SeenType, ConcatProperties, Zenon DEF RxTypeOK
  <2>3. Seen' = (got \o (NumbersOf(rxEvt) \o NumbersOf(evt))) \o <<>>
    BY <1>1, <1>4, <2>1, Zenon DEF Seen
  <2> QED BY <2>2, <2>3, ConcatEmptySeq, Zenon
<1>6. Seen' = Seen
  <2>1. /\ got \in Seq(Nat) /\ NumbersOf(rxEvt) \in Seq(Nat)
        /\ NumbersOf(evt) \in Seq(Nat)
    BY <1>1, SeenType, Zenon DEF RxTypeOK
  <2>2. got \o (NumbersOf(rxEvt) \o NumbersOf(evt)) = Seen
    <3> DEFINE S == Nat
    <3>1. got \in Seq(S) /\ NumbersOf(rxEvt) \in Seq(S) /\ NumbersOf(evt) \in Seq(S)
      BY <2>1, Zenon
    <3> HIDE DEF S
    <3> QED BY <3>1, ConcatAssociative, SMTT(20) DEF Seen
  <2> QED BY <1>5, <2>2, Zenon
<1> QED BY <1>1, <1>3, <1>6, EventsAreInOrder, Zenon DEF RxInv

\* The receiver takes the oldest event.
LEMMA RecvKeepsEvents ==
    ASSUME RxInv, RecvOneInto
    PROVE  RxInv'
<1> DEFINE h == Head(rxEvt)
           t == Tail(rxEvt)
<1>1. /\ rxEvt # <<>> /\ rxEvt' = t /\ got' = Append(got, h.no) /\ apc' = apc
      /\ node' = node /\ arrived' = arrived /\ evt' = evt /\ RxTypeOK
  BY Zenon DEF RecvOneInto, RxInv
<1>2. h \in Events /\ t \in Seq(Events) /\ rxEvt = <<h>> \o t
  <2>1. h \in Events /\ t \in Seq(Events) /\ rxEvt \in Seq(Events)
    BY <1>1, HeadTailProperties, Zenon DEF RxTypeOK
  <2> QED BY <1>1, <2>1
<1> HIDE DEF h, t
<1>3. h.no \in Nat
  BY <1>2, EventsAreNumbered, Zenon
<1>4. /\ got' \in Seq(Nat) /\ got' = got \o <<h.no>> /\ <<h.no>> \in Seq(Nat)
      /\ <<h>> \in Seq(Events)
  BY <1>1, <1>2, <1>3, AppendProperties, AppendIsConcat DEF RxTypeOK
<1>5. RxTypeOK'
  BY <1>1, <1>2, <1>4, Zenon DEF RxTypeOK
<1>6. NumbersOf(rxEvt) = <<h.no>> \o NumbersOf(t) /\ NumbersOf(t) \in Seq(Nat)
  BY <1>2, <1>4, NumbersOfConcat, NumbersOfOne, NumbersType, Zenon
<1>7. got' \o NumbersOf(t) = got \o NumbersOf(rxEvt)
  <2>1. got \in Seq(Nat)
    BY <1>1, Zenon DEF RxTypeOK
  <2>2. (got \o <<h.no>>) \o NumbersOf(t) = got \o (<<h.no>> \o NumbersOf(t))
    <3> DEFINE S == Nat
    <3>1. got \in Seq(S) /\ <<h.no>> \in Seq(S) /\ NumbersOf(t) \in Seq(S)
      BY <1>4, <1>6, <2>1, Zenon
    <3> HIDE DEF S
    <3> QED BY <3>1, ConcatAssociative, SMTT(20)
  <2> QED BY <1>4, <1>6, <2>2, Zenon
<1>8. NumbersOf(rxEvt)' = NumbersOf(t) /\ NumbersOf(evt)' = NumbersOf(evt)
  BY <1>1, Zenon DEF NumbersOf
<1>9. Seen' = Seen
  BY <1>7, <1>8, Zenon DEF Seen
<1> QED BY <1>1, <1>5, <1>9, EventsAreInOrder, Zenon DEF RxInv

\* All else leaves the events alone.
LEMMA OthersKeepEvents ==
    ASSUME RxInv, UNCHANGED rxVars, apc # "deliver" \/ apc' = apc,
           apc' \in {apc, "tx", "send", "respond", "recv"},
           apc' # "stopped" => apc # "stopped"
    PROVE  RxInv'
<1>1. /\ node' = node /\ evt' = evt /\ rxEvt' = rxEvt /\ arrived' = arrived
      /\ got' = got
  BY Zenon DEF rxVars
<1>2. RxTypeOK'
  BY <1>1, Zenon DEF RxInv, RxTypeOK
<1>3. Seen' = Seen
  BY <1>1, Zenon DEF Seen, NumbersOf
<1> QED BY <1>1, <1>2, <1>3, EventsAreInOrder, Zenon DEF RxInv

\* It starts in order.
LEMMA InitInOrder ==
    ASSUME ActorInit
    PROVE  RxInv
<1>1. RxTypeOK
  BY EmptySeq DEF ActorInit, RxTypeOK
<1>2. Seen = <<>>
  BY <1>1, SeenType, NumbersOfOne, ConcatEmptySeq, Zenon DEF ActorInit
<1>3. Len(arrived) = 0 /\ Len(node) = 0 /\ node = <<>> /\ 1..(0 - 0) = {}
  BY DEF ActorInit
<1>4. InOrder(arrived, node, Seen)
  BY <1>2, <1>3 DEF InOrder, Range
<1> QED BY <1>1, <1>4, EventsAreInOrder, Zenon DEF RxInv

-------------------------------------------------------------------------------
(* The Tokio version *)

ClientStates == [pc : {"idle", "enqueue", "wait", "done"},
                 call : 0..(CallSpace - 1),
                 res : Results \cup {"none", "closed"}]

QueueTypeOK ==
    /\ apc \in {"tx", "send", "respond", "recv", "deliver", "stopped"}
    /\ txReq \in Seq(Requests) /\ Len(txReq) <= TxDepth
    /\ cur \in {NoReq} \cup Requests \cup Answers
    /\ apc = "send" => cur \in Requests
    /\ apc = "respond" => cur \in Answers
    /\ apc \notin {"send", "respond"} => cur = NoReq
    /\ client \in [Clients -> ClientStates]

\* The request of client c's call.
RequestOf(c) == [client |-> c, call |-> client[c].call]

\* Request r is in the actor's reach once.
Once(r) ==
    /\ (r \in InHand) <=> (r \notin Range(txReq))
    /\ \A i, j \in DOMAIN txReq : txReq[i] = r /\ txReq[j] = r => i = j

\* That is what WaitingIsPending says of the requests that are waited for.
LEMMA WaitingIsOnce ==
    WaitingIsPending <=>
        \A c \in Clients : client[c].pc = "wait" => Once(RequestOf(c))
  BY Zenon DEF WaitingIsPending, Once, RequestOf

\* What leaves the requests alone, and makes no call wait, keeps it so.
LEMMA SameRequests ==
    ASSUME WaitingIsPending, UNCHANGED txReq, InHand' = InHand,
           \A d \in Clients : client'[d].pc = "wait" => client'[d] = client[d]
    PROVE  WaitingIsPending'
<1>1. \A c \in Clients : client[c].pc = "wait" => Once(RequestOf(c))
  BY WaitingIsOnce, Zenon
<1> SUFFICES ASSUME NEW d \in Clients, client'[d].pc = "wait"
             PROVE  Once(RequestOf(d))'
  BY Zenon DEF WaitingIsPending, Once, RequestOf
<1>2. client'[d] = client[d] /\ Once(RequestOf(d))
  BY <1>1, Zenon
<1> QED BY <1>2, Zenon DEF Once, RequestOf

\* What makes WaitingIsPending inductive is the type of what is queued.
QueueInv == QueueTypeOK /\ WaitingIsPending

\* The queue holds at most as many different requests as it is long.
LEMMA FewRequests ==
    ASSUME QueueTypeOK, Len(txReq) < TxDepth
    PROVE  /\ IsFiniteSet(Range(txReq) \cup {cur})
           /\ Cardinality(Range(txReq) \cup {cur}) < CallSpace
<1>1. /\ IsFiniteSet(Range(txReq)) /\ Len(txReq) \in Nat
      /\ Cardinality(Range(txReq)) <= Len(txReq) /\ Cardinality(Range(txReq)) \in Nat
  BY SmallRange, Zenon DEF QueueTypeOK
<1>2. /\ IsFiniteSet(Range(txReq) \cup {cur})
      /\ Cardinality(Range(txReq) \cup {cur}) <= Cardinality(Range(txReq)) + 1
  BY <1>1, OneMore, Zenon
<1>3. Cardinality(Range(txReq) \cup {cur}) \in Nat
  BY <1>2, FS_CardinalityType, Zenon
<1> QED BY <1>1, <1>2, <1>3, ActorAssumption

\* A send, its end and its cancellation leave the queue alone.
LEMMA ClientKeeps ==
    ASSUME QueueInv, NEW c \in Clients, SendTo(c) \/ Finish(c) \/ Cancel(c)
    PROVE  QueueInv'
<1>1. /\ UNCHANGED <<apc, txReq, cur>>
      /\ \E s \in ClientStates : s.pc # "wait" /\ client' = [client EXCEPT ![c] = s]
  <2>1. client \in [Clients -> ClientStates] /\ IdleClient \in ClientStates
    BY ActorAssumption DEF QueueInv, QueueTypeOK, IdleClient, ClientStates
  <2>2. CASE SendTo(c)
    <3> DEFINE s == [client[c] EXCEPT !.pc = "enqueue"]
    <3>1. s \in ClientStates /\ s.pc = "enqueue"
      BY <2>1, Zenon DEF ClientStates
    <3>2. client' = [client EXCEPT ![c] = s]
      BY <2>1, <2>2, Zenon DEF SendTo
    <3> QED BY <2>2, <3>1, <3>2, Zenon DEF SendTo, txVars
  <2>3. CASE Finish(c) \/ Cancel(c)
    BY <2>1, <2>3, Zenon DEF Finish, Cancel, txVars, IdleClient
  <2> QED BY <2>2, <2>3, Zenon
<1>2. QueueTypeOK'
  BY <1>1, Zenon DEF QueueInv, QueueTypeOK
<1>3. InHand' = InHand
  BY <1>1, Zenon DEF InHand
<1>4. \A d \in Clients : client'[d].pc = "wait" => client'[d] = client[d]
  BY <1>1, Zenon DEF QueueInv, QueueTypeOK
<1>5. WaitingIsPending'
  BY <1>1, <1>3, <1>4, SameRequests, Zenon DEF QueueInv
<1> QED BY <1>2, <1>5, Zenon DEF QueueInv

\* A new request is in the queue once, and no other is disturbed.
LEMMA EnqueueKeeps ==
    ASSUME QueueInv, NEW c \in Clients, Enqueue(c)
    PROVE  QueueInv'
<1>a. QueueTypeOK /\ client \in [Clients -> ClientStates]
  BY Zenon DEF QueueInv, QueueTypeOK
<1>b. UNCHANGED <<apc, burst, cur>>
  BY Zenon DEF Enqueue
<1>1. CASE apc = "stopped"
  <2> DEFINE s == [client[c] EXCEPT !.pc = "done", !.res = "closed"]
  <2>1. txReq' = txReq /\ client' = [client EXCEPT ![c].pc = "done", ![c].res = "closed"]
    BY <1>1, Zenon DEF Enqueue
  <2>2. client' = [client EXCEPT ![c] = s]
    BY <1>a, <2>1, Zenon
  <2>3. s \in ClientStates /\ s.pc = "done"
    BY <1>a, Zenon DEF ClientStates
  <2> HIDE DEF s
  <2>4. QueueTypeOK'
    BY <1>a, <1>b, <2>1, <2>2, <2>3, Zenon DEF QueueTypeOK
  <2>5. InHand' = InHand
    BY <1>b, Zenon DEF InHand
  <2>6. \A d \in Clients : client'[d].pc = "wait" => client'[d] = client[d]
    BY <1>a, <2>2, <2>3, Zenon
  <2>7. WaitingIsPending'
    BY <2>1, <2>5, <2>6, SameRequests, Zenon DEF QueueInv
  <2> QED BY <2>4, <2>7, Zenon DEF QueueInv
<1>2. CASE apc # "stopped"
  <2> DEFINE n == NewCall(c, Range(txReq) \cup {cur})
             r == [client |-> c, call |-> n]
             s == [client[c] EXCEPT !.pc = "wait", !.call = n]
  <2>1. /\ Len(txReq) < TxDepth /\ txReq' = Append(txReq, r)
        /\ client' = [client EXCEPT ![c].pc = "wait", ![c].call = n]
    BY <1>2, Zenon DEF Enqueue
  <2>2. /\ n \in 0..(CallSpace - 1)
        /\ \A q \in Range(txReq) \cup {cur} : q.client = c => q.call # n
    BY <1>a, <2>1, FewRequests, NewCallIsNew, Zenon
  <2> HIDE DEF n
  <2>3. r \in Requests /\ r.client = c /\ r.call = n
    BY <2>2, Zenon DEF Requests
  <2>4. client' = [client EXCEPT ![c] = s]
    BY <1>a, <2>1, Zenon
  <2>5. s \in ClientStates /\ s.pc = "wait" /\ s.call = n
    BY <1>a, <2>2, Zenon DEF ClientStates
  <2> HIDE DEF s
  <2>6. /\ client' \in [Clients -> ClientStates] /\ client'[c] = s
        /\ \A d \in Clients \ {c} : client'[d] = client[d]
    BY <1>a, <2>4, <2>5, Zenon
  <2>7. r \notin Range(txReq) /\ r \notin InHand
    BY <2>2, <2>3, Zenon DEF InHand
  <2> HIDE DEF r
  <2>8. /\ txReq' \in Seq(Requests)
        /\ DOMAIN txReq' = DOMAIN txReq \cup {Len(txReq) + 1}
        /\ txReq'[Len(txReq) + 1] = r
        /\ \A i \in DOMAIN txReq : txReq'[i] = txReq[i]
        /\ Range(txReq') = Range(txReq) \cup {r}
    BY <1>a, <2>1, <2>3, AppendElems DEF QueueTypeOK
  <2>9. Len(txReq') <= TxDepth
    BY <1>a, <2>1, <2>3, ActorAssumption DEF QueueTypeOK
  <2>10. QueueTypeOK'
    BY <1>a, <1>b, <2>6, <2>8, <2>9, Zenon DEF QueueTypeOK
  <2>11. InHand' = InHand
    BY <1>b, Zenon DEF InHand
  <2>12. \A i \in DOMAIN txReq : txReq[i] # r
    BY <2>7, Zenon DEF Range
  <2>13. WaitingIsPending'
    <3> SUFFICES ASSUME NEW d \in Clients, client'[d].pc = "wait"
                 PROVE  Once(RequestOf(d))'
      BY Zenon DEF WaitingIsPending, Once, RequestOf
    <3>1. CASE d = c
      <4>1. RequestOf(d)' = r
        BY <2>5, <2>6, <3>1, Zenon DEF RequestOf, r
      <4> QED BY <2>7, <2>8, <2>11, <2>12, <4>1, Zenon DEF Once
    <3>2. CASE d # c
      <4>1. client'[d] = client[d] /\ RequestOf(d)' = RequestOf(d)
        BY <2>6, <3>2, Zenon DEF RequestOf
      <4>2. Once(RequestOf(d))
        BY <4>1, WaitingIsOnce, Zenon DEF QueueInv
      <4>3. RequestOf(d) # r
        BY <2>3, <3>2 DEF RequestOf
      <4> QED BY <2>8, <2>11, <4>1, <4>2, <4>3, Zenon DEF Once
    <3> QED BY <3>1, <3>2, Zenon
  <2> QED BY <2>10, <2>13, Zenon DEF QueueInv
<1> QED BY <1>1, <1>2, Zenon

\* The oldest request goes from the queue to the actor.
LEMMA TakeKeeps ==
    ASSUME QueueInv, TakeRequest, client' = client
    PROVE  QueueInv'
<1>1. /\ txReq # <<>> /\ txReq' = Tail(txReq) /\ cur' = Head(txReq)
      /\ apc = "tx" /\ apc' = "send" /\ txReq \in Seq(Requests)
      /\ Len(txReq) <= TxDepth
  BY Zenon DEF TakeRequest, BurstOver, QueueInv, QueueTypeOK
<1> DEFINE n == Len(txReq)
<1>2. /\ Head(txReq) \in Requests /\ Head(txReq) = txReq[1] /\ n \in Nat \ {0}
      /\ txReq' \in Seq(Requests) /\ Len(txReq') = n - 1
      /\ DOMAIN txReq' = 1..(n - 1) /\ DOMAIN txReq = 1..n
      /\ \A i \in 1..(n - 1) : txReq'[i] = txReq[i + 1]
  BY <1>1, HeadTailProperties, EmptySeq, LenProperties
<1>3. TxDepth \in Nat /\ Len(txReq') <= TxDepth
  BY <1>1, <1>2, ActorAssumption
<1>4. QueueTypeOK'
  BY <1>1, <1>2, <1>3, Zenon DEF QueueInv, QueueTypeOK
<1> HIDE DEF n
<1>5. Head(txReq) # NoReq
  BY <1>2, ActorAssumption DEF Requests, NoReq
<1>6. Head(txReq) = [client |-> Head(txReq).client, call |-> Head(txReq).call]
  BY <1>2, Zenon DEF Requests
<1>7. cur = NoReq
  BY <1>1, Zenon DEF QueueInv, QueueTypeOK
<1>8. InHand = {} /\ InHand' = {txReq[1]}
  BY <1>1, <1>2, <1>5, <1>6, <1>7, Zenon DEF InHand
<1>9. Range(txReq) \subseteq Range(txReq') \cup {txReq[1]}
  <2> SUFFICES ASSUME NEW i \in 1..n PROVE txReq[i] \in Range(txReq') \cup {txReq[1]}
    BY <1>2 DEF Range
  <2>1. CASE i = 1
    BY <2>1, Zenon
  <2>2. CASE i # 1
    <3>1. i - 1 \in 1..(n - 1) /\ (i - 1) + 1 = i
      BY <1>2, <2>2
    <3>2. txReq'[i - 1] = txReq[i]
      BY <1>2, <3>1, Zenon
    <3> QED BY <1>2, <3>1, <3>2, Zenon DEF Range
  <2> QED BY <2>1, <2>2, Zenon
<1>10. WaitingIsPending'
  <2> SUFFICES ASSUME NEW d \in Clients, client[d].pc = "wait"
               PROVE  Once(RequestOf(d))'
    BY Zenon DEF WaitingIsPending, Once, RequestOf
  <2> DEFINE r == RequestOf(d)
  <2>0. RequestOf(d)' = r
    BY Zenon DEF RequestOf
  <2>1. /\ r \in Range(txReq)
        /\ \A i, j \in DOMAIN txReq : txReq[i] = r /\ txReq[j] = r => i = j
    BY <1>8, WaitingIsOnce, Zenon DEF QueueInv, Once
  <2> HIDE DEF r
  <2>2. 1 \in 1..n /\ \A i \in 1..(n - 1) : i + 1 \in 1..n /\ i + 1 # 1
    BY <1>2
  <2>3. ASSUME NEW i \in 1..(n - 1), NEW j \in 1..(n - 1),
               txReq'[i] = r, txReq'[j] = r
        PROVE  i = j
    <3>1. i + 1 = j + 1
      BY <1>2, <2>1, <2>2, <2>3, Zenon
    <3> QED BY <3>1
  <2>4. r \in Range(txReq') \cup {txReq[1]}
    BY <1>9, <2>1, Zenon
  <2>5. ~(r = txReq[1] /\ r \in Range(txReq'))
    <3> SUFFICES ASSUME r = txReq[1], NEW i \in 1..(n - 1), txReq'[i] = r
                 PROVE  FALSE
      BY <1>2, Zenon DEF Range
    <3> QED BY <1>2, <2>1, <2>2, Zenon
  <2> QED BY <1>2, <1>8, <2>0, <2>3, <2>4, <2>5, Zenon DEF Once
<1> QED BY <1>4, <1>10, Zenon DEF QueueInv

\* The node's result goes with the request.
LEMMA NodeSendKeeps ==
    ASSUME QueueInv, NodeSend, client' = client
    PROVE  QueueInv'
<1>1. PICK res \in Results :
         cur' = [client |-> cur.client, call |-> cur.call, res |-> res]
  BY Zenon DEF NodeSend
<1>2. cur \in Requests /\ txReq' = txReq /\ apc' = "respond"
  BY Zenon DEF NodeSend, QueueInv, QueueTypeOK
<1>3. /\ cur' \in Answers /\ cur'.client = cur.client /\ cur'.call = cur.call
      /\ cur.client \in Clients
  BY <1>1, <1>2, Zenon DEF Requests, Answers
<1>4. cur' # NoReq /\ cur # NoReq
  BY <1>2, <1>3, ActorAssumption DEF NoReq
<1>5. InHand' = InHand
  BY <1>2, <1>3, <1>4, Zenon DEF InHand
<1>6. QueueTypeOK'
  BY <1>2, <1>3, Zenon DEF QueueInv, QueueTypeOK
<1>7. WaitingIsPending'
  BY <1>2, <1>5, SameRequests, Zenon DEF QueueInv
<1> QED BY <1>6, <1>7, Zenon DEF QueueInv

\* The call that is answered does not wait any more; no other loses its
\* request.
LEMMA RespondKeeps ==
    ASSUME QueueInv, Respond
    PROVE  QueueInv'
<1>1. /\ cur \in Answers /\ cur' = NoReq /\ apc' = "tx" /\ txReq' = txReq
      /\ client \in [Clients -> ClientStates]
  BY Zenon DEF Respond, QueueInv, QueueTypeOK
<1>2. cur.client \in Clients /\ cur.res \in Results /\ cur # NoReq
  BY <1>1, ActorAssumption DEF Answers, NoReq
<1>3. /\ client' \in [Clients -> ClientStates]
      /\ \A d \in Clients : client'[d].pc = "wait" =>
            client'[d] = client[d] /\ ~(d = cur.client /\ Waiting(cur))
  <2>1. CASE Waiting(cur)
    <3> DEFINE s == [client[cur.client] EXCEPT !.pc = "done", !.res = cur.res]
    <3>1. s \in ClientStates /\ s.pc = "done"
      BY <1>1, <1>2, Zenon DEF ClientStates
    <3>2. client' = [client EXCEPT ![cur.client] = s]
      BY <1>1, <1>2, <2>1, Zenon DEF Respond
    <3> HIDE DEF s
    <3> QED BY <1>1, <1>2, <3>1, <3>2, Zenon
  <2>2. CASE ~Waiting(cur)
    BY <1>1, <2>2, Zenon DEF Respond
  <2> QED BY <2>1, <2>2, Zenon
<1>4. QueueTypeOK'
  BY <1>1, <1>3, Zenon DEF QueueInv, QueueTypeOK
<1>5. InHand' = {} /\ InHand = {[client |-> cur.client, call |-> cur.call]}
  BY <1>1, <1>2, Zenon DEF InHand
<1>6. WaitingIsPending'
  <2> SUFFICES ASSUME NEW d \in Clients, client'[d].pc = "wait"
               PROVE  Once(RequestOf(d))'
    BY Zenon DEF WaitingIsPending, Once, RequestOf
  <2>1. /\ client'[d] = client[d] /\ RequestOf(d)' = RequestOf(d)
        /\ ~(d = cur.client /\ Waiting(cur))
    BY <1>3, Zenon DEF RequestOf
  <2>2. Once(RequestOf(d))
    BY <2>1, WaitingIsOnce, Zenon DEF QueueInv
  <2>3. RequestOf(d) # [client |-> cur.client, call |-> cur.call]
    BY <2>1, Zenon DEF RequestOf, Waiting
  <2> QED BY <1>1, <1>5, <2>1, <2>2, <2>3, Zenon DEF Once
<1> QED BY <1>4, <1>6, Zenon DEF QueueInv

\* Nobody waits for a stopped actor.
LEMMA StopKeeps ==
    ASSUME QueueInv, Stop
    PROVE  QueueInv'
<1>1. client \in [Clients -> ClientStates]
  BY Zenon DEF QueueInv, QueueTypeOK
<1>2. \A c \in Clients : /\ client'[c] \in ClientStates /\ client'[c].pc # "wait"
  <2> TAKE c \in Clients
  <2>1. /\ [client[c] EXCEPT !.pc = "done", !.res = "closed"] \in ClientStates
        /\ [client[c] EXCEPT !.pc = "done", !.res = "closed"].pc = "done"
    BY <1>1, Zenon DEF ClientStates
  <2>2. client'[c] = IF client[c].pc = "wait"
                     THEN [client[c] EXCEPT !.pc = "done", !.res = "closed"]
                     ELSE client[c]
    BY Zenon DEF Stop
  <2> QED BY <1>1, <2>1, <2>2, Zenon
<1>3. client' \in [Clients -> ClientStates]
  BY <1>2, Zenon DEF Stop
<1>4. QueueTypeOK'
  <2>1. <<>> \in Seq(Requests) /\ Len(<<>>) = 0 /\ 0 <= TxDepth
    BY ActorAssumption
  <2> QED BY <1>3, <2>1, Zenon DEF Stop, QueueTypeOK
<1>5. WaitingIsPending'
  BY <1>2, Zenon DEF WaitingIsPending
<1> QED BY <1>4, <1>5, Zenon DEF QueueInv

\* What the actor does on the receiving side leaves the requests alone.
LEMMA RxKeeps ==
    ASSUME QueueInv, UNCHANGED <<txReq, cur, client>>,
           apc' = apc \/ {apc, apc'} \subseteq {"tx", "recv", "deliver"}
    PROVE  QueueInv'
<1>1. QueueTypeOK'
  BY Zenon DEF QueueInv, QueueTypeOK
<1>2. WaitingIsPending'
  <2>1. InHand' = InHand
    BY Zenon DEF InHand
  <2> QED BY <2>1, SameRequests, Zenon DEF QueueInv
<1> QED BY <1>1, <1>2, Zenon DEF QueueInv

\* A call that waits has exactly one request in the actor's reach: it will be
\* answered, and once, however calls are cancelled and the actor is stopped.
THEOREM CallsArePending == Spec => []WaitingIsPending
<1>1. Init => QueueInv
  <2> SUFFICES ASSUME Init PROVE QueueInv
    BY Zenon
  <2>1. IdleClient \in ClientStates /\ IdleClient.pc # "wait"
    BY ActorAssumption DEF IdleClient, ClientStates
  <2>2. QueueTypeOK
    BY <2>1, ActorAssumption DEF Init, ActorInit, QueueTypeOK
  <2>3. WaitingIsPending
    BY <2>1, Zenon DEF Init, WaitingIsPending
  <2> QED BY <2>2, <2>3, Zenon DEF QueueInv
<1>2. QueueInv /\ [Next]_vars => QueueInv'
  <2> SUFFICES ASSUME QueueInv, [Next]_vars PROVE QueueInv'
    BY Zenon
  <2>1. CASE \E c \in Clients : SendTo(c) \/ Finish(c) \/ Cancel(c)
    BY <2>1, ClientKeeps, Zenon
  <2>2. CASE \E c \in Clients : Enqueue(c)
    BY <2>2, EnqueueKeeps, Zenon
  <2>3. CASE ActorTx /\ UNCHANGED client
    <3>1. CASE EndBurst
      BY <2>3, <3>1, RxKeeps, Zenon DEF EndBurst, txVars
    <3> QED BY <2>3, <3>1, TakeKeeps, NodeSendKeeps, Zenon DEF ActorTx
  <2>4. CASE ActorRx /\ UNCHANGED client
    BY <2>4, RxKeeps, Zenon DEF ActorRx, Poll, PollTimeout, Deliver, NextRound
  <2>5. CASE Respond
    BY <2>5, RespondKeeps, Zenon
  <2>6. CASE Recv \/ (\E e \in Incoming : Arrive(e) /\ UNCHANGED client)
    BY <2>6, RxKeeps, Zenon DEF Recv, RecvOneInto, Arrive, txVars
  <2>7. CASE Stop
    BY <2>7, StopKeeps, Zenon
  <2>8. CASE UNCHANGED vars
    BY <2>8, RxKeeps, Zenon DEF vars, txVars
  <2> QED BY <2>1, <2>2, <2>3, <2>4, <2>5, <2>6, <2>7, <2>8, Zenon
          DEF Next, Actor, ClientStep
<1>3. QueueInv => WaitingIsPending
  BY Zenon DEF QueueInv
<1> QED BY <1>1, <1>2, <1>3, PTL DEF Spec

\* While the actor runs, what the node received and the filter lets pass is
\* what the endpoint got or will find, once and in the order of arrival.
THEOREM TokioEventsInOrder == Spec => []EventsInOrder
<1>1. Init => RxInv
  BY InitInOrder, Zenon DEF Init
<1>2. RxInv /\ [Next]_vars => RxInv'
  <2> SUFFICES ASSUME RxInv, [Next]_vars PROVE RxInv'
    BY Zenon
  <2>1. CASE ActorTx
    BY <2>1, OthersKeepEvents, Zenon DEF ActorTx, TakeRequest, NodeSend, EndBurst
  <2>2. CASE ActorRx
    <3>1. CASE PollTimeout
      BY <3>1, OthersKeepEvents, Zenon DEF PollTimeout, NextRound
    <3> QED BY <2>2, <3>1, PollKeepsEvents, DeliverKeepsEvents, Zenon DEF ActorRx
  <2>3. CASE Respond
    BY <2>3, OthersKeepEvents, Zenon DEF Respond
  <2>4. CASE Recv
    BY <2>4, RecvKeepsEvents, Zenon DEF Recv
  <2>5. CASE Stop
    <3>1. /\ apc' = "stopped" /\ evt' = <<>> /\ node' = node /\ rxEvt' = rxEvt
          /\ arrived' = arrived /\ got' = got
      BY <2>5, Zenon DEF Stop
    <3>2. RxTypeOK'
      BY <3>1, EmptySeq, Zenon DEF RxInv, RxTypeOK
    <3>3. EventsInOrder'
      BY <3>1, EventsAreInOrder, Zenon
    <3> QED BY <3>2, <3>3, Zenon DEF RxInv
  <2>6. CASE \E e \in Incoming : Arrive(e)
    BY <2>6, ArriveKeepsEvents, Zenon
  <2>7. CASE \E c \in Clients : ClientStep(c) \/ Cancel(c)
    BY <2>7, OthersKeepEvents, Zenon DEF ClientStep, SendTo, Enqueue, Finish, Cancel
  <2>8. CASE UNCHANGED vars
    BY <2>8, OthersKeepEvents, Zenon DEF vars
  <2> QED BY <2>1, <2>2, <2>3, <2>4, <2>5, <2>6, <2>7, <2>8, Zenon DEF Next, Actor
<1>3. RxInv => EventsInOrder
  BY Zenon DEF RxInv
<1> QED BY <1>1, <1>2, <1>3, PTL DEF Spec

-------------------------------------------------------------------------------
(* The embassy version *)

CallerStates == [pc : {"idle", "lock", "enqueue", "wait"}, call : 0..(CallSpace - 1)]

\* There is no request and no answer.
Nothing == txReq = <<>> /\ cur = NoReq /\ txResp = <<>>

\* x is the request of client c's call, or the answer to it.
IsOf(x, c) == x.client = c /\ x.call = caller[c].call

\* The request of c's call, or its answer, is in one place, and there is no
\* other.
OnlyOf(c) ==
    \/ \E x : txReq = <<x>> /\ IsOf(x, c) /\ cur = NoReq /\ txResp = <<>>
    \/ txReq = <<>> /\ cur # NoReq /\ IsOf(cur, c) /\ txResp = <<>>
    \/ \E x : txReq = <<>> /\ cur = NoReq /\ txResp = <<x>> /\ IsOf(x, c)

Alone ==
    /\ caller \in [Clients -> CallerStates]
    /\ apc \in {"send", "respond"} <=> cur # NoReq
    /\ \A c \in Clients : caller[c].pc \in {"enqueue", "wait"} <=> holder = {c}
    /\ \A c \in Clients : caller[c].pc = "wait" => OnlyOf(c)
    /\ (\A c \in Clients : caller[c].pc # "wait") => Nothing

\* What makes OwnAnswer and AnswerNeverBlocks inductive: until a send is
\* cancelled there is at most one request or answer, and it is the holder's.
AloneInv == ~cancelled => Alone

\* What the holder of the lock does leaves the others where they were.
LEMMA OneWaits ==
    ASSUME Alone, NEW c \in Clients, caller[c].pc \in {"enqueue", "wait"},
           NEW d \in Clients, d # c
    PROVE  caller[d].pc \notin {"enqueue", "wait"}
BY Zenon DEF Alone

\* A call starts.
LEMMA SendToKeeps ==
    ASSUME Alone, NEW c \in Clients, EmbassySendTo(c)
    PROVE  Alone'
<1> DEFINE s == [caller[c] EXCEPT !.pc = "lock"]
<1>1. /\ caller[c].pc = "idle" /\ caller \in [Clients -> CallerStates]
      /\ apc' = apc /\ txReq' = txReq /\ cur' = cur /\ holder' = holder
      /\ txResp' = txResp
  BY Zenon DEF EmbassySendTo, txVars, Alone
<1>2. s \in CallerStates /\ s.pc = "lock" /\ caller' = [caller EXCEPT ![c] = s]
  BY <1>1, Zenon DEF EmbassySendTo, CallerStates
<1> HIDE DEF s
<1>3. /\ caller' \in [Clients -> CallerStates] /\ caller'[c].pc = "lock"
      /\ \A d \in Clients : d # c => caller'[d] = caller[d]
  BY <1>1, <1>2, Zenon
<1>4. \A d \in Clients : caller'[d].pc = "wait" <=> caller[d].pc = "wait"
  BY <1>1, <1>3, Zenon
<1>5. \A d \in Clients : caller'[d].pc \in {"enqueue", "wait"} <=> holder' = {d}
  BY <1>1, <1>3, Zenon DEF Alone
<1>6. \A d \in Clients : caller'[d].pc = "wait" => OnlyOf(d)'
  BY <1>1, <1>3, <1>4 DEF Alone, OnlyOf, IsOf
<1>7. (\A d \in Clients : caller'[d].pc # "wait") => Nothing'
  BY <1>1, <1>4, Zenon DEF Alone, Nothing
<1>8. apc' \in {"send", "respond"} <=> cur' # NoReq
  BY <1>1, Zenon DEF Alone
<1> QED BY <1>3, <1>5, <1>6, <1>7, <1>8, Zenon DEF Alone

\* A call gets the lock; there was nothing to drain.
LEMMA LockKeeps ==
    ASSUME Alone, NEW c \in Clients, Lock(c)
    PROVE  Alone'
<1> DEFINE s == [caller[c] EXCEPT !.pc = "enqueue"]
<1>1. /\ caller[c].pc = "lock" /\ caller \in [Clients -> CallerStates]
      /\ apc' = apc /\ txReq' = txReq /\ cur' = cur
      /\ holder = {} /\ holder' = {c} /\ txResp' = <<>>
  BY Zenon DEF Lock, Drain, txVars, Alone
<1>2. s \in CallerStates /\ s.pc = "enqueue" /\ caller' = [caller EXCEPT ![c] = s]
  BY <1>1, Zenon DEF Lock, CallerStates
<1> HIDE DEF s
<1>3. /\ caller' \in [Clients -> CallerStates] /\ caller'[c].pc = "enqueue"
      /\ \A d \in Clients : d # c => caller'[d] = caller[d]
  BY <1>1, <1>2, Zenon
<1>4. \A d \in Clients : caller[d].pc \notin {"enqueue", "wait"}
  BY <1>1, Zenon DEF Alone
<1>5. Nothing'
  BY <1>1, <1>4, Zenon DEF Alone, Nothing
<1>6. \A d \in Clients : caller'[d].pc \in {"enqueue", "wait"} <=> holder' = {d}
  BY <1>1, <1>3, <1>4, Zenon
<1>7. \A d \in Clients : caller'[d].pc # "wait"
  BY <1>3, <1>4, Zenon
<1>8. apc' \in {"send", "respond"} <=> cur' # NoReq
  BY <1>1, Zenon DEF Alone
<1> QED BY <1>3, <1>5, <1>6, <1>7, <1>8, Zenon DEF Alone

\* The holder queues its request.
LEMMA QueueRequestKeeps ==
    ASSUME Alone, NEW c \in Clients, QueueRequest(c)
    PROVE  Alone'
<1> DEFINE n == NewCall(c, Range(txReq) \cup {cur} \cup Range(txResp))
           s == [caller[c] EXCEPT !.pc = "wait", !.call = n]
           r == [client |-> c, call |-> n]
<1>1. /\ caller[c].pc = "enqueue" /\ caller \in [Clients -> CallerStates]
      /\ apc' = apc /\ txReq' = Append(txReq, r) /\ cur' = cur
      /\ holder' = holder /\ txResp' = txResp /\ holder = {c}
  BY Zenon DEF QueueRequest, Alone
<1>2. \A d \in Clients : d # c => caller[d].pc \notin {"enqueue", "wait"}
  BY <1>1, OneWaits, Zenon
<1>3. txReq = <<>> /\ cur = NoReq /\ txResp = <<>>
  BY <1>1, <1>2, Zenon DEF Alone, Nothing
<1>4. n \in 0..(CallSpace - 1)
  <2>1. Range(txReq) \cup {cur} \cup Range(txResp) = {NoReq}
    BY <1>3 DEF Range
  <2>2. IsFiniteSet({NoReq}) /\ Cardinality({NoReq}) = 1
    BY FS_Singleton, Zenon
  <2>3. 1 < CallSpace
    BY ActorAssumption
  <2> QED BY <2>1, <2>2, <2>3, NewCallIsNew, Zenon
<1> HIDE DEF n
<1>5. /\ s \in CallerStates /\ s.pc = "wait" /\ s.call = n
      /\ caller' = [caller EXCEPT ![c] = s]
  BY <1>1, <1>4, Zenon DEF QueueRequest, CallerStates, n
<1> HIDE DEF s
<1>6. /\ caller' \in [Clients -> CallerStates] /\ caller'[c] = s
      /\ \A d \in Clients : d # c => caller'[d] = caller[d]
  BY <1>1, <1>5, Zenon
<1>7. txReq' = <<r>> /\ r.client = c /\ r.call = n
  BY <1>1, <1>3
<1> HIDE DEF r
<1>8. OnlyOf(c)'
  BY <1>1, <1>3, <1>5, <1>6, <1>7, Zenon DEF OnlyOf, IsOf
<1>9. \A d \in Clients : caller'[d].pc \in {"enqueue", "wait"} <=> holder' = {d}
  BY <1>1, <1>2, <1>5, <1>6, Zenon
<1>10. \A d \in Clients : caller'[d].pc = "wait" => d = c
  BY <1>2, <1>6, Zenon
<1>11. apc' \in {"send", "respond"} <=> cur' # NoReq
  BY <1>1, Zenon DEF Alone
<1> QED BY <1>5, <1>6, <1>8, <1>9, <1>10, <1>11, Zenon DEF Alone

\* The holder takes the one answer.
LEMMA ReceiveKeeps ==
    ASSUME Alone, NEW c \in Clients, Receive(c)
    PROVE  Alone'
<1>1. /\ caller[c].pc = "wait" /\ caller \in [Clients -> CallerStates]
      /\ apc' = apc /\ txReq' = txReq /\ cur' = cur
      /\ holder' = {} /\ txResp' = Tail(txResp) /\ txResp # <<>>
      /\ caller' = [caller EXCEPT ![c] = IdleCaller] /\ OnlyOf(c)
  BY Zenon DEF Receive, txVars, Alone
<1>2. \A d \in Clients : d # c => caller[d].pc \notin {"enqueue", "wait"}
  BY <1>1, OneWaits, Zenon
<1>3. PICK x : txReq = <<>> /\ cur = NoReq /\ txResp = <<x>>
  BY <1>1, Zenon DEF OnlyOf
<1>4. Nothing'
  BY <1>1, <1>3 DEF Nothing
<1>5. IdleCaller \in CallerStates /\ IdleCaller.pc = "idle"
  BY ActorAssumption DEF IdleCaller, CallerStates
<1>6. /\ caller' \in [Clients -> CallerStates] /\ caller'[c] = IdleCaller
      /\ \A d \in Clients : d # c => caller'[d] = caller[d]
  BY <1>1, <1>5, Zenon
<1>7. \A d \in Clients : caller'[d].pc \notin {"enqueue", "wait"}
  BY <1>2, <1>5, <1>6, Zenon
<1>8. apc' \in {"send", "respond"} <=> cur' # NoReq
  BY <1>1, Zenon DEF Alone
<1>9. \A d \in Clients : caller'[d].pc \in {"enqueue", "wait"} <=> holder' = {d}
  BY <1>1, <1>7, Zenon
<1> QED BY <1>4, <1>6, <1>7, <1>8, <1>9, Zenon DEF Alone

\* The one request goes from the queue to the actor, to the node and to the
\* answer channel.
LEMMA ServeKeeps ==
    ASSUME Alone, \/ TakeRequest /\ txResp' = txResp
                  \/ NodeSend /\ txResp' = txResp
                  \/ PutAnswer,
           caller' = caller, holder' = holder
    PROVE  Alone'
<1>1. ASSUME NEW c \in Clients, caller[c].pc = "wait"
      PROVE  OnlyOf(c)'
  <2>1. OnlyOf(c) /\ (apc \in {"send", "respond"} <=> cur # NoReq)
    BY <1>1, Zenon DEF Alone
  <2>2. CASE TakeRequest /\ txResp' = txResp
    <3>1. txReq # <<>> /\ txReq' = Tail(txReq) /\ cur' = Head(txReq)
      BY <2>2, Zenon DEF TakeRequest, BurstOver
    <3>2. PICK x : txReq = <<x>> /\ IsOf(x, c) /\ cur = NoReq /\ txResp = <<>>
      BY <2>1, <2>2, <3>1, Zenon DEF OnlyOf, TakeRequest
    <3>3. txReq' = <<>> /\ cur' = x /\ txResp' = <<>>
      BY <2>2, <3>1, <3>2
    <3>4. x.client = c /\ x.call = caller[c].call /\ x # NoReq
      BY <3>2, ActorAssumption DEF IsOf, NoReq
    <3> QED BY <3>3, <3>4, Zenon DEF OnlyOf, IsOf
  <2>3. CASE NodeSend /\ txResp' = txResp
    <3>1. PICK res : cur' = [client |-> cur.client, call |-> cur.call, res |-> res]
      BY <2>3, Zenon DEF NodeSend
    <3>2. /\ txReq = <<>> /\ txResp = <<>> /\ cur.client = c
          /\ cur.call = caller[c].call /\ txReq' = txReq
      BY <2>1, <2>3, Zenon DEF OnlyOf, IsOf, NodeSend
    <3>3. cur'.client = c /\ cur'.call = caller[c].call /\ cur' # NoReq
      BY <3>1, <3>2, ActorAssumption, Zenon DEF NoReq
    <3> QED BY <2>3, <3>2, <3>3, Zenon DEF OnlyOf, IsOf
  <2>4. CASE PutAnswer
    <3>1. /\ txReq = <<>> /\ txResp = <<>> /\ cur.client = c
          /\ cur.call = caller[c].call
      BY <2>1, <2>4, Zenon DEF OnlyOf, IsOf, PutAnswer
    <3>2. txReq' = <<>> /\ cur' = NoReq /\ txResp' = <<cur>>
      BY <2>4, <3>1 DEF PutAnswer
    <3> QED BY <3>1, <3>2, Zenon DEF OnlyOf, IsOf
  <2> QED BY <2>2, <2>3, <2>4, Zenon
<1>2. \E c \in Clients : caller[c].pc = "wait"
  <2> SUFFICES ASSUME \A c \in Clients : caller[c].pc # "wait" PROVE FALSE
    BY Zenon
  <2>1. txReq = <<>> /\ cur = NoReq /\ apc \notin {"send", "respond"}
    BY Zenon DEF Alone, Nothing
  <2> QED BY <2>1, Zenon DEF TakeRequest, BurstOver, NodeSend, PutAnswer
<1>3. apc' \in {"send", "respond"} <=> cur' # NoReq
  <2>1. PICK c \in Clients : caller[c].pc = "wait"
    BY <1>2, Zenon
  <2>2. OnlyOf(c)' /\ OnlyOf(c)
    BY <1>1, <2>1, Zenon DEF Alone
  <2>3. CASE TakeRequest /\ txResp' = txResp
    <3>1. txReq # <<>> /\ txReq' = Tail(txReq) /\ apc' = "send" /\ txResp' = txResp
      BY <2>3, Zenon DEF TakeRequest, BurstOver
    <3>2. PICK x : txReq = <<x>> /\ txResp = <<>>
      BY <2>2, <3>1, Zenon DEF OnlyOf
    <3>3. txReq' = <<>> /\ txResp' = <<>>
      BY <3>1, <3>2
    <3> QED BY <2>2, <3>1, <3>3, SMTT(20) DEF OnlyOf
  <2>4. CASE NodeSend /\ txResp' = txResp
    <3>1. /\ apc' = "respond" /\ txReq' = txReq /\ txResp' = txResp /\ cur # NoReq
      BY <2>4, Zenon DEF NodeSend, Alone
    <3>2. txReq = <<>> /\ txResp = <<>>
      BY <2>2, <3>1, Zenon DEF OnlyOf
    <3> QED BY <2>2, <3>1, <3>2, Zenon DEF OnlyOf
  <2>5. CASE PutAnswer
    BY <2>5, Zenon DEF PutAnswer
  <2> QED BY <2>3, <2>4, <2>5, Zenon
<1> QED BY <1>1, <1>2, <1>3, Zenon DEF Alone

\* Nothing else moves requests or answers.
LEMMA OthersKeep ==
    ASSUME Alone, UNCHANGED <<txReq, cur, caller, holder, txResp>>,
           apc' = apc \/ {apc, apc'} \subseteq {"tx", "recv", "deliver"}
    PROVE  Alone'
<1>1. apc' \in {"send", "respond"} <=> cur' # NoReq
  BY Zenon DEF Alone
<1>2. \A c \in Clients : OnlyOf(c)' <=> OnlyOf(c)
  BY Zenon DEF OnlyOf, IsOf
<1>3. Nothing' <=> Nothing
  BY Zenon DEF Nothing
<1> QED BY <1>1, <1>2, <1>3, Zenon DEF Alone

\* AloneInv is inductive.
LEMMA AloneAlways == EmbassySpec => []AloneInv
<1>1. EmbassyInit => AloneInv
  <2> SUFFICES ASSUME EmbassyInit PROVE Alone
    BY Zenon DEF AloneInv
  <2>1. IdleCaller \in CallerStates /\ IdleCaller.pc = "idle"
    BY ActorAssumption DEF IdleCaller, CallerStates
  <2>2. caller = [c \in Clients |-> IdleCaller] /\ holder = {} /\ Nothing /\ apc = "tx"
    BY Zenon DEF EmbassyInit, ActorInit, Nothing
  <2> QED BY <2>1, <2>2, Zenon DEF Alone, Nothing
<1>2. AloneInv /\ [EmbassyNext]_embassyVars => AloneInv'
  <2> SUFFICES ASSUME AloneInv, [EmbassyNext]_embassyVars, ~cancelled' PROVE Alone'
    BY Zenon DEF AloneInv
  <2>1. ~cancelled
    BY Zenon DEF EmbassyNext, EmbassyActor, PutAnswer, EmbassyRecv, CallerStep, EmbassySendTo, Lock, QueueRequest, Receive,
           DropCall, embassyVars, rpcVars
  <2>2. Alone
    BY <2>1, Zenon DEF AloneInv
  <2>3. CASE \E c \in Clients : EmbassySendTo(c) \/ CallerStep(c) \/ DropCall(c)
    BY <2>2, <2>3, SendToKeeps, LockKeeps, QueueRequestKeeps, ReceiveKeeps, Zenon
       DEF CallerStep, DropCall
  <2>4. CASE ActorTx /\ UNCHANGED rpcVars
    <3>1. CASE EndBurst
      BY <2>2, <2>4, <3>1, OthersKeep, Zenon DEF EndBurst, txVars, rpcVars
    <3> QED BY <2>2, <2>4, <3>1, ServeKeeps, Zenon DEF ActorTx, rpcVars
  <2>5. CASE PutAnswer
    BY <2>2, <2>5, ServeKeeps, Zenon DEF PutAnswer
  <2>6. CASE ActorRx /\ UNCHANGED rpcVars
    BY <2>2, <2>6, OthersKeep, Zenon
       DEF ActorRx, Poll, PollTimeout, Deliver, NextRound, rpcVars
  <2>7. CASE EmbassyRecv \/ \E e \in Incoming : Arrive(e) /\ UNCHANGED rpcVars
    BY <2>2, <2>7, OthersKeep, Zenon DEF EmbassyRecv, RecvOneInto, Arrive, txVars, rpcVars
  <2>8. CASE UNCHANGED embassyVars
    BY <2>2, <2>8, OthersKeep, Zenon DEF embassyVars, txVars, rpcVars
  <2> QED BY <2>3, <2>4, <2>5, <2>6, <2>7, <2>8, Zenon DEF EmbassyNext, EmbassyActor
<1> QED BY <1>1, <1>2, PTL DEF EmbassySpec

\* As long as no send was cancelled, the answer that a call finds in the
\* shared channel is the answer to its own request.
THEOREM AnswersAreOwn == EmbassySpec => []OwnAnswer
<1>1. AloneInv => OwnAnswer
  <2> SUFFICES ASSUME Alone, NEW c \in Clients, caller[c].pc = "wait", txResp # <<>>
               PROVE  Head(txResp).client = c /\ Head(txResp).call = caller[c].call
    BY Zenon DEF AloneInv, OwnAnswer
  <2>1. PICK x : txResp = <<x>> /\ IsOf(x, c)
    BY Zenon DEF Alone, OnlyOf
  <2> QED BY <2>1 DEF IsOf
<1> QED BY <1>1, AloneAlways, PTL

\* As long as no send was cancelled, the actor finds a free slot in the
\* shared channel.
THEOREM ActorNeverBlocks == EmbassySpec => []AnswerNeverBlocks
<1>1. AloneInv => AnswerNeverBlocks
  <2> SUFFICES ASSUME Alone, apc = "respond" PROVE Len(txResp) < RespDepth
    BY Zenon DEF AloneInv, AnswerNeverBlocks
  <2>1. cur # NoReq
    BY Zenon DEF Alone
  <2>2. txResp = <<>>
    BY <2>1, Zenon DEF Alone, OnlyOf, Nothing
  <2> QED BY <2>2, EmbassyAssumption
<1> QED BY <1>1, AloneAlways, PTL

\* What the node received and the filter lets pass is what the endpoint got
\* or will find, once and in the order of arrival.
THEOREM EmbassyEventsInOrder == EmbassySpec => []EventsInOrder
<1>1. EmbassyInit => RxInv
  BY InitInOrder, Zenon DEF EmbassyInit
<1>2. RxInv /\ [EmbassyNext]_embassyVars => RxInv'
  <2> SUFFICES ASSUME RxInv, [EmbassyNext]_embassyVars PROVE RxInv'
    BY Zenon
  <2>1. CASE ActorTx
    BY <2>1, OthersKeepEvents, Zenon DEF ActorTx, TakeRequest, NodeSend, EndBurst
  <2>2. CASE ActorRx
    <3>1. CASE PollTimeout
      BY <3>1, OthersKeepEvents, Zenon DEF PollTimeout, NextRound
    <3> QED BY <2>2, <3>1, PollKeepsEvents, DeliverKeepsEvents, Zenon DEF ActorRx
  <2>3. CASE PutAnswer
    BY <2>3, OthersKeepEvents, Zenon DEF PutAnswer
  <2>4. CASE EmbassyRecv
    BY <2>4, RecvKeepsEvents, Zenon DEF EmbassyRecv
  <2>5. CASE \E e \in Incoming : Arrive(e)
    BY <2>5, ArriveKeepsEvents, Zenon
  <2>6. CASE \E c \in Clients : EmbassySendTo(c) \/ CallerStep(c) \/ DropCall(c)
    BY <2>6, OthersKeepEvents, Zenon
       DEF CallerStep, EmbassySendTo, Lock, QueueRequest, Receive, DropCall
  <2>7. CASE UNCHANGED embassyVars
    BY <2>7, OthersKeepEvents, Zenon DEF embassyVars
  <2> QED BY <2>1, <2>2, <2>3, <2>4, <2>5, <2>6, <2>7, Zenon DEF EmbassyNext, EmbassyActor
<1>3. RxInv => EventsInOrder
  BY Zenon DEF RxInv
<1> QED BY <1>1, <1>2, <1>3, PTL DEF EmbassySpec
===============================================================================
