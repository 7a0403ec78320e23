----------------------------- MODULE TypedChannel -----------------------------
(***************************************************************************)
(* What two joined Interfaces promise to the applications: one channel per *)
(* message type, which may lose messages but does not change, repeat or    *)
(* reorder them.  A receiver gets the oldest message it accepts.           *)
(***************************************************************************)
EXTENDS Naturals, Sequences, SequencesExt

CONSTANTS
    Types,          \* message types
    Callers,        \* tasks that send
    Packets,        \* messages: [id, from, ...]
    Tests           \* what receivers accept

VARIABLES
    putting,        \* what each caller is about to put: {} or one message
    channel,        \* the messages of each type on their way, oldest first
    got             \* the messages received, with the test of the receiver

channelVars == <<putting, channel, got>>

Init ==
    /\ putting = [c \in Callers |-> {}]
    /\ channel = [id \in Types |-> <<>>]
    /\ got = <<>>

Begin(c, m) ==
    /\ putting[c] = {}
    /\ putting' = [putting EXCEPT ![c] = {m}]
    /\ UNCHANGED <<channel, got>>

Put(c) ==
    /\ putting' = [putting EXCEPT ![c] = {}]
    /\ UNCHANGED got
    /\ \E m \in putting[c] :
          /\ m.id \in Types
          /\ channel' = [channel EXCEPT ![m.id] = Append(@, m)]

\* The call ends without its message, or the other side does not know it.
End(c) ==
    /\ putting[c] # {}
    /\ putting' = [putting EXCEPT ![c] = {}]
    /\ UNCHANGED <<channel, got>>

Lose(id) ==
    /\ UNCHANGED <<putting, got>>
    /\ \E i \in DOMAIN channel[id] :
          channel' = [channel EXCEPT ![id] = RemoveAt(@, i)]

Accepted(m, from, test) == m.from = from /\ m.tag \in test

Get(id, from, test) ==
    /\ UNCHANGED putting
    /\ \E i \in DOMAIN channel[id] :
          /\ got' = Append(got, [p |-> channel[id][i], test |-> test])
          /\ Accepted(channel[id][i], from, test)
          /\ \A j \in 1..(i - 1) : ~Accepted(channel[id][j], from, test)
          /\ channel' = [channel EXCEPT ![id] = RemoveAt(@, i)]

Next ==
    \/ \E c \in Callers : Put(c) \/ End(c) \/ \E m \in Packets : Begin(c, m)
    \/ \E id \in Types :
          \/ Lose(id)
          \/ \E from \in {m.from : m \in Packets}, test \in Tests : Get(id, from, test)

Spec == Init /\ [][Next]_channelVars
===============================================================================
