----------------------------- MODULE InterfaceTx ------------------------------
(***************************************************************************)
(* The send side of a thincan Interface: tasks that share one transmit     *)
(* buffer and one transport endpoint under the lock of tx_state.           *)
(*                                                                         *)
(* A call encodes its value into the buffer and hands the transport a      *)
(* slice of it; the lock is held until send_to returns or the call is      *)
(* dropped.  The transport is external: it takes the bytes that are in the *)
(* buffer at some time during send_to, or reports a failure without.       *)
(***************************************************************************)
EXTENDS ThincanWire, Sequences, SequencesExt

CONSTANTS
    TX_LEN,         \* bytes of the transmit buffer
    Senders,        \* tasks that send
    Values,         \* what they send: [id, from, max, used, tag]
    MaxSends        \* bound on calls

VARIABLES
    tx_state,       \* the holder of the lock: {} or one task
    tx,             \* the payload in the transmit buffer: {} or one
    send,           \* the call of each task
    sends,          \* calls so far
    wire            \* payloads the transport has taken, oldest first

txVars == <<tx_state, tx, send, sends, wire>>

ASSUME InterfaceTxAssumption ==
    /\ TX_LEN \in Nat
    /\ MaxSends \in Nat
    /\ \A v \in Values : v.max \in Nat /\ v.used \in Nat

NoCall == [pc |-> "idle"]

TxInit ==
    /\ tx_state = {}
    /\ tx = {}
    /\ send = [s \in Senders |-> NoCall]
    /\ sends = 0
    /\ wire = <<>>

\* __send_capnp_to and __send_capnp_functional_to up to tx_state.lock
SendCapnp(s, v) ==
    /\ send[s].pc = "idle"
    /\ sends < MaxSends
    /\ sends' = sends + 1
    /\ send' = [send EXCEPT ![s] = [pc |-> "lock", v |-> v]]
    /\ UNCHANGED <<tx_state, tx, wire>>

\* encode_capnp_into_buf succeeds: the buffer holds the upper bound that the
\* value announces, and no more than that was used.
Encodes(v) == HEADER_LEN + v.max <= TX_LEN /\ v.used <= v.max

\* The call is over, and with it its guard of tx_state.
EndCall(s) ==
    /\ send' = [send EXCEPT ![s] = NoCall]
    /\ tx_state' = tx_state \ {s}

\* Mutant: the buffer is shared without the lock.
LockTxShared(s) ==
    /\ send[s].pc = "lock"
    /\ \/ /\ Encodes(send[s].v)
          /\ tx_state' = tx_state \cup {s}
          /\ tx' = {Payload(send[s].v)}
          /\ send' = [send EXCEPT ![s].pc = "sending"]
       \/ ~Encodes(send[s].v) /\ EndCall(s) /\ UNCHANGED tx
    /\ UNCHANGED <<sends, wire>>

\* send_capnp_to_async_shared and send_capnp_functional_to_async_shared from
\* the lock to the await of send_to.  What a failed encode leaves in the
\* buffer is not sent by anyone.
LockTx(s) ==
    /\ send[s].pc = "lock"
    /\ tx_state = {}
    /\ \/ /\ Encodes(send[s].v)
          /\ tx_state' = {s}
          /\ tx' = {Payload(send[s].v)}
          /\ send' = [send EXCEPT ![s].pc = "sending"]
       \/ ~Encodes(send[s].v) /\ EndCall(s) /\ UNCHANGED tx
    /\ UNCHANGED <<sends, wire>>

\* The transport takes the bytes of its slice.  Until send_to returns, with
\* or without an error, or the future is dropped, the call only keeps the
\* lock: that is the same as taking the bytes later.
SendToTakes(s) ==
    /\ send[s].pc = "sending"
    /\ \E p \in tx : wire' = Append(wire, p)
    /\ EndCall(s)
    /\ UNCHANGED <<tx, sends>>

\* send_to fails before that, or the future is dropped.
SendToFails(s) ==
    /\ send[s].pc = "sending"
    /\ EndCall(s)
    /\ UNCHANGED <<tx, sends, wire>>

\* The caller drops the future while it waits for the lock.
CancelSend(s) ==
    /\ send[s].pc = "lock"
    /\ EndCall(s)
    /\ UNCHANGED <<tx, sends, wire>>

SenderStep(s) == LockTx(s) \/ SendToTakes(s) \/ SendToFails(s)

SenderCalls(s) == CancelSend(s) \/ \E v \in Values : SendCapnp(s, v)
===============================================================================
