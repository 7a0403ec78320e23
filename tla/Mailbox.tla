------------------------------- MODULE Mailbox --------------------------------
(***************************************************************************)
(* The receive side of a thincan Interface: pump tasks take payloads from  *)
(* the transport and ingest them into one bounded mailbox per message      *)
(* type; tasks wait for the next message of a type from a peer.            *)
(*                                                                         *)
(* A mailbox is a sequence, the used part of TypeMailbox::slots.  Its      *)
(* mutex is held over steps without an await, so each is one action.       *)
(* Between the push and the notification, and between a fruitless look     *)
(* and the wait, other tasks run.                                          *)
(***************************************************************************)
EXTENDS ThincanWire, Sequences, FiniteSets

CONSTANTS
    MESSAGE_IDS,    \* the message ids of the maplet, one mailbox each
    DEPTH,          \* slots of a mailbox
    MAX_BODY,       \* bytes of a slot
    MAX_WAITERS,    \* receivers of a Watch
    Pumps,          \* tasks that call pump_ingest_once
    Tasks,          \* tasks that receive messages
    Predicates,     \* what receivers accept, as sets of tags
    Arrivals,       \* payloads of the transport: [id, from, len, tag]
    MaxArrivals     \* bound on arrivals

VARIABLES
    pump,           \* what each pump does
    box,            \* rx_state: the mailbox of each message id
    version,        \* the Watch counter of each message id
    task,           \* what each receiving task does
    arrived,        \* payloads the transport has handed over
    taken,          \* history: messages in the order they were received
    refused,        \* history: numbers of the payloads ingest refused
    dropped         \* history: numbers of the payloads lost with a pump

vars == <<pump, box, version, task, arrived, taken, refused, dropped>>

ASSUME MailboxAssumption ==
    /\ DEPTH \in Nat
    /\ MAX_BODY \in Nat
    /\ MAX_WAITERS \in Nat
    /\ MaxArrivals \in Nat
    /\ \A p \in Arrivals : p.len \in Nat
    /\ IsFiniteSet(Pumps) /\ IsFiniteSet(Tasks)

\* A payload with its number of arrival and the pump that took it.
Messages == [no : 1..MaxArrivals, p : Arrivals, by : Pumps]

Sources == {p.from : p \in Arrivals}

NoPayload == [no |-> 0]
IdlePump == [pc |-> "idle", got |-> NoPayload]
IdleTask == [pc |-> "idle"]

Init ==
    /\ pump = [t \in Pumps |-> IdlePump]
    /\ box = [id \in MESSAGE_IDS |-> <<>>]
    /\ version = [id \in MESSAGE_IDS |-> 0]
    /\ task = [t \in Tasks |-> IdleTask]
    /\ arrived = 0
    /\ taken = <<>>
    /\ refused = {}
    /\ dropped = {}

\* pump_ingest_once: recv_one_into under the lock of rx_transport, which is
\* released before the payload is ingested.  The transport hands payloads
\* over in the order of their arrival.
PumpRecv(t, p) ==
    /\ pump[t].pc = "idle"
    /\ arrived < MaxArrivals
    /\ arrived' = arrived + 1
    /\ pump' = [pump EXCEPT ![t] =
                   [pc |-> "ingest",
                    got |-> [no |-> arrived + 1, p |-> p, by |-> t]]]
    /\ UNCHANGED <<box, version, task, taken, refused, dropped>>

\* decode_wire and slot_for_id
Decodes(p) == HasHeader(p) /\ p.id \in MESSAGE_IDS

\* Mutant: one message more than the slots.
FitsOffByOne(p) == BodyLen(p) <= MAX_BODY /\ Len(box[p.id]) <= DEPTH

\* TypeMailbox::push refuses a body that is too long, then a full mailbox.
Fits(p) == BodyLen(p) <= MAX_BODY /\ Len(box[p.id]) # DEPTH

\* Mutant: the pump waits until the mailbox has room.
IngestWaiting(t) ==
    LET got == pump[t].got IN
    /\ pump[t].pc = "ingest"
    /\ Decodes(got.p) /\ Fits(got.p)
    /\ box' = [box EXCEPT ![got.p.id] = Append(@, got)]
    /\ pump' = [pump EXCEPT ![t].pc = "notify"]
    /\ UNCHANGED <<version, task, arrived, taken, refused, dropped>>

\* BusHandle::ingest up to the release of the lock of rx_state.
Ingest(t) ==
    LET got == pump[t].got IN
    /\ pump[t].pc = "ingest"
    /\ IF Decodes(got.p) /\ Fits(got.p)
       THEN /\ box' = [box EXCEPT ![got.p.id] = Append(@, got)]
            /\ pump' = [pump EXCEPT ![t].pc = "notify"]
            /\ UNCHANGED refused
       ELSE /\ refused' = refused \cup {got.no}
            /\ pump' = [pump EXCEPT ![t] = IdlePump]
            /\ UNCHANGED box
    /\ UNCHANGED <<version, task, arrived, taken, dropped>>

\* The rest of ingest: Watch::send.
Notify(t) ==
    /\ pump[t].pc = "notify"
    /\ version' = [version EXCEPT ![pump[t].got.p.id] = @ + 1]
    /\ pump' = [pump EXCEPT ![t] = IdlePump]
    /\ UNCHANGED <<box, task, arrived, taken, refused, dropped>>

\* Mutant: the pump also lets go between the push and the notification.
CancelPumpAnywhere(t) ==
    /\ pump[t].pc # "idle"
    /\ dropped' = IF pump[t].pc = "ingest"
                  THEN dropped \cup {pump[t].got.no} ELSE dropped
    /\ pump' = [pump EXCEPT ![t] = IdlePump]
    /\ UNCHANGED <<box, version, task, arrived, taken, refused>>

\* The future of pump_ingest_once is dropped where it waits with a payload
\* in its buffer, for the lock of rx_state.  It does not wait between the
\* push and the notification.
CancelPump(t) ==
    /\ pump[t].pc = "ingest"
    /\ dropped' = dropped \cup {pump[t].got.no}
    /\ pump' = [pump EXCEPT ![t] = IdlePump]
    /\ UNCHANGED <<box, version, task, arrived, taken, refused>>

\* Calls of __recv_next_capnp_from_where in progress for an id.
Waiters(id) ==
    Cardinality({t \in Tasks : task[t].pc # "idle" /\ task[t].id = id})

\* __recv_next_capnp_from_where: Watch::receiver fails when all receivers
\* are taken, and then the call fails.  A new receiver has seen version 0.
RecvNext(t, id, from, pred) ==
    /\ task[t].pc = "idle"
    /\ Waiters(id) < MAX_WAITERS
    /\ task' = [task EXCEPT ![t] = [pc |-> "look", id |-> id, from |-> from,
                                    pred |-> pred, seen |-> 0]]
    /\ UNCHANGED <<pump, box, version, arrived, taken, refused, dropped>>

Matches(r, m) == m.p.from = r.from /\ m.p.tag \in r.pred

\* Mutant: the slots before the hole are gone too.
TakeOutFromFront(b, i) == SubSeq(b, i + 1, Len(b))

\* The slots after the hole move down by one.
TakeOut(b, i) == SubSeq(b, 1, i - 1) \o SubSeq(b, i + 1, Len(b))

\* Mutant: the search starts at the newest slot.
FoundFromEnd(hits) == {i \in hits : \A j \in hits : i >= j}

\* The search starts at the oldest slot and ends at the first match.
Found(hits) == {i \in hits : \A j \in hits : i <= j}

\* TypeMailbox::pop_matching_where: the first match, or none and the task
\* goes on to wait.
Look(t) ==
    LET r == task[t]
        hits == {i \in DOMAIN box[r.id] : Matches(r, box[r.id][i])}
    IN
    /\ r.pc = "look"
    /\ \/ /\ hits = {}
          /\ task' = [task EXCEPT ![t].pc = "wait"]
          /\ UNCHANGED <<box, taken>>
       \/ \E i \in Found(hits) :
          /\ box' = [box EXCEPT ![r.id] = TakeOut(@, i)]
          /\ taken' = Append(taken, [m |-> box[r.id][i], from |-> r.from,
                                  pred |-> r.pred])
          /\ task' = [task EXCEPT ![t] = IdleTask]
    /\ UNCHANGED <<pump, version, arrived, refused, dropped>>

\* Receiver::changed returns once the Watch is newer than what was seen.
Changed(t) ==
    /\ task[t].pc = "wait"
    /\ version[task[t].id] > task[t].seen
    /\ task' = [task EXCEPT ![t].pc = "look",
                            ![t].seen = version[task[t].id]]
    /\ UNCHANGED <<pump, box, version, arrived, taken, refused, dropped>>

\* The caller's timeout drops the future where it waits, for a change or
\* for the lock of rx_state.
Cancel(t) ==
    /\ task[t].pc \in {"look", "wait"}
    /\ task' = [task EXCEPT ![t] = IdleTask]
    /\ UNCHANGED <<pump, box, version, arrived, taken, refused, dropped>>

Arrive == \E t \in Pumps, p \in Arrivals : PumpRecv(t, p)

\* What applications do: receive, and drop a receive or a pump.
Callers ==
    \/ \E t \in Tasks, id \in MESSAGE_IDS, pred \in Predicates :
          \E from \in Sources : RecvNext(t, id, from, pred)
    \/ \E t \in Tasks : Cancel(t)
    \/ \E t \in Pumps : CancelPump(t)

\* Mutant: ingest notifies before it pushes.
PumpStepNotifyingFirst(t) ==
    LET got == pump[t].got IN
    \/ pump[t].pc = "ingest" /\ ~(Decodes(got.p) /\ Fits(got.p)) /\ Ingest(t)
    \/ /\ pump[t].pc = "ingest"
       /\ Decodes(got.p) /\ Fits(got.p)
       /\ version' = [version EXCEPT ![got.p.id] = @ + 1]
       /\ pump' = [pump EXCEPT ![t].pc = "notify"]
       /\ UNCHANGED <<box, task, arrived, taken, refused, dropped>>
    \/ /\ pump[t].pc = "notify"
       /\ box' = [box EXCEPT ![got.p.id] = Append(@, got)]
       /\ pump' = [pump EXCEPT ![t] = IdlePump]
       /\ UNCHANGED <<version, task, arrived, taken, refused, dropped>>

\* pump_ingest_once, once it has a payload.
PumpStep(t) == Ingest(t) \/ Notify(t)

\* __recv_next_capnp_from_where
TaskStep(t) == Look(t) \/ Changed(t)

Steps ==
    \/ \E t \in Pumps : PumpStep(t)
    \/ \E t \in Tasks : TaskStep(t)

Next == Arrive \/ Callers \/ Steps

Spec == Init /\ [][Next]_vars

-------------------------------------------------------------------------------

\* What a task does, and what it takes
Receiving == [pc : {"look", "wait"}, id : MESSAGE_IDS, from : Sources,
              pred : Predicates, seen : 0..MaxArrivals]
Takings == [m : Messages, from : Sources, pred : Predicates]

\* Every variable has its type: a TypeMailbox holds at most DEPTH messages,
\* of its own id, and a Watch has at most MAX_WAITERS receivers.
TypeOK ==
    /\ pump \in [Pumps -> {IdlePump}
                     \cup [pc : {"ingest", "notify"}, got : Messages]]
    /\ box \in [MESSAGE_IDS -> Seq(Messages)]
    /\ \A id \in MESSAGE_IDS :
          /\ \A i \in DOMAIN box[id] : box[id][i].p.id = id
          /\ Len(box[id]) <= DEPTH
          /\ Waiters(id) <= MAX_WAITERS
    /\ version \in [MESSAGE_IDS -> 0..MaxArrivals]
    /\ task \in [Tasks -> {IdleTask} \cup Receiving]
    /\ arrived \in 0..MaxArrivals
    /\ taken \in Seq(Takings)
    /\ refused \subseteq 1..arrived
    /\ dropped \subseteq 1..arrived

\* The message that task t waits for is in its mailbox.
Served(t) ==
    /\ task[t].pc = "wait"
    /\ \E i \in DOMAIN box[task[t].id] : Matches(task[t], box[task[t].id][i])

\* A task never sleeps over a message it waits for: the Watch is newer than
\* what the task has seen, or a pump is about to make it so.  This is the
\* order of push and Watch::send against look and changed.
NoLostWakeup ==
    \A t \in Tasks : Served(t) =>
        \/ version[task[t].id] > task[t].seen
        \/ \E q \in Pumps : pump[q].pc = "notify" /\ pump[q].got.p.id = task[t].id

\* Where payload number n is: with a pump, in a slot of a mailbox, received
\* as the i-th, refused or dropped.
HeldBy(n) == {t \in Pumps : pump[t].pc = "ingest" /\ pump[t].got.no = n}
SlotsOf(n) == {s \in MESSAGE_IDS \X (1..DEPTH) :
                  s[2] \in DOMAIN box[s[1]] /\ box[s[1]][s[2]].no = n}
TakenAs(n) == {i \in DOMAIN taken : taken[i].m.no = n}
Places(n) == [pump |-> HeldBy(n), slot |-> SlotsOf(n), taken |-> TakenAs(n),
              refused |-> refused \cap {n}, dropped |-> dropped \cap {n}]

\* In one place of one kind, and in none of any other
Once(n) ==
    \E k \in DOMAIN Places(n) :
        /\ \E w \in Places(n)[k] : Places(n)[k] = {w}
        /\ \A j \in DOMAIN Places(n) \ {k} : Places(n)[j] = {}

\* No payload is received twice, and none is lost without an error unless the
\* future of the pump that holds it is dropped: each one that has arrived is
\* in one place, and nothing else is anywhere.  A receiver that is cancelled
\* loses nothing, also when two look at the same mailbox.
Conserved ==
    \A n \in 1..MaxArrivals :
        IF n <= arrived THEN Once(n)
                        ELSE \A k \in DOMAIN Places(n) : Places(n)[k] = {}

\* Of the messages one pump has ingested, a receiver takes the oldest it
\* accepts: what it would have accepted and is received later arrived later.
\* With one pump that is the order of arrival.
TakenInOrder ==
    \A i, j \in DOMAIN taken :
        /\ i < j
        /\ taken[i].m.by = taken[j].m.by
        /\ taken[i].m.p.id = taken[j].m.p.id
        /\ Matches(taken[i], taken[j].m)
        => taken[i].m.no < taken[j].m.no

\* A task whose message is there gets it, unless another task does.
WaitEnds == \A t \in Tasks : Served(t) ~> ~Served(t)
===============================================================================
