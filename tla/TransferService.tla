--------------------------- MODULE TransferService ----------------------------
(***************************************************************************)
(* What the file-transfer bundle promises to the two applications: a call  *)
(* offers one file, the receiving side opens one file at a time and then   *)
(* commits or abandons it as a whole, and a call that succeeds was         *)
(* committed.  Messages, chunks, acks and retries do not appear.           *)
(***************************************************************************)
CONSTANTS
    Ids,            \* transfer ids
    Contents,       \* files
    Distinct        \* TRUE: no id is given to two transfers

VARIABLES
    active,         \* what the sending call is carrying out: {} or one transfer
    open,           \* what the receiving call has a handle for: {} or one
    offered,        \* every transfer offered so far
    committed,      \* every transfer committed so far
    outcomes        \* every transfer that ended, with its result

serviceVars == <<active, open, offered, committed, outcomes>>

Transfers == [id : Ids, file : Contents]

Init ==
    /\ active = {}
    /\ open = {}
    /\ offered = {}
    /\ committed = {}
    /\ outcomes = {}

Ended(t, res) ==
    outcomes' = outcomes \cup {[id |-> t.id, file |-> t.file, res |-> res]}

\* A call begins.
Offer(t) ==
    /\ active = {}
    /\ active' = {t}
    /\ offered' = offered \cup {t}
    /\ UNCHANGED <<open, committed, outcomes>>

\* A call is turned away at once.
TurnAway(t) ==
    /\ active = {}
    /\ Ended(t, "err")
    /\ UNCHANGED <<active, open, offered, committed>>

\* A call may fail at any time, also when its file was committed.
Fail(t) ==
    /\ active = {t}
    /\ active' = {}
    /\ Ended(t, "err")
    /\ UNCHANGED <<open, offered, committed>>

\* An empty file is reported when it is accepted.
Succeed(t) ==
    /\ active = {t}
    /\ Distinct /\ t.file # <<>> => t \in committed
    /\ active' = {}
    /\ Ended(t, "ok")
    /\ UNCHANGED <<open, offered, committed>>

Open(t) ==
    /\ open = {}
    /\ t \in offered
    /\ open' = {t}
    /\ UNCHANGED <<active, offered, committed, outcomes>>

Commit(t) ==
    /\ open = {t}
    /\ open' = {}
    /\ committed' = committed \cup {t}
    /\ UNCHANGED <<active, offered, outcomes>>

Abandon ==
    /\ open # {}
    /\ open' = {}
    /\ UNCHANGED <<active, offered, committed, outcomes>>

Next ==
    \/ \E t \in Transfers : \/ Offer(t) \/ TurnAway(t) \/ Fail(t) \/ Succeed(t)
                            \/ Open(t) \/ Commit(t)
    \/ Abandon

Spec == Init /\ [][Next]_serviceVars
===============================================================================
