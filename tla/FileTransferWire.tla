--------------------------- MODULE FileTransferWire ---------------------------
(***************************************************************************)
(* The three message types of the file-transfer bundle (FileReq, FileChunk *)
(* and FileAck of schema/file_transfer.capnp) and the path each one takes  *)
(* from a send_to call to the mailbox of its type at the other node.       *)
(*                                                                         *)
(* A queue holds what is on the wire and what already sits in the peer's   *)
(* mailbox: the transport and the mailboxes are both first-in first-out,   *)
(* one mailbox per type, so only the order within a type is visible.  A    *)
(* message is lost when the transport drops it or when the mailbox of its  *)
(* type is full.  send_to can also fail, and a failure does not say that   *)
(* the message was not delivered: UnixCan::send_timeout times out when the *)
(* frame was broadcast and only its acknowledgement is late.               *)
(***************************************************************************)
EXTENDS Integers, Sequences

CONSTANTS
    Files,          \* the byte sequences applications send
    IdSpace,        \* transfer ids are integers modulo IdSpace (2^32: u32)
    LossyKinds,     \* kinds of message that may be lost
    FailingKinds,   \* kinds of message whose send may report an error;
                    \* "store" stands for the receiver's storage
    MaxFaults       \* bound on losses and failures together

VARIABLES
    reqQ,           \* FileReq messages, sender to receiver
    chunkQ,         \* FileChunk messages, sender to receiver
    ackQ,           \* FileAck messages, receiver to sender
    faults          \* losses and failures so far

wireVars == <<reqQ, chunkQ, ackQ, faults>>

ASSUME WireAssumption ==
    /\ Files \subseteq Seq(Nat)
    /\ IdSpace \in Nat \ {0}
    /\ MaxFaults \in Nat

Ids == 0..IdSpace - 1

\* SHA-256 is taken to be collision free: the digest of a file is the file.
\* `valid' says that the request passes the receiver's checks of the hash
\* algorithm, the presence and length of the hash, and the metadata length.
Req == [kind : {"req"}, id : Ids, total : Nat, smax : Nat,
        valid : BOOLEAN, hash : Seq(Nat)]

Chunk == [kind : {"chunk"}, id : Ids, offset : Nat, data : Seq(Nat)]

AckKinds == {"accept", "ack", "reject", "complete", "abort"}

\* The error field is not modelled: no sender looks at it.
Ack == [kind : AckKinds, id : Ids, next : Nat, chunk : Nat]

FileOffer(id, file, smax) ==
    [kind |-> "req", id |-> id, total |-> Len(file), smax |-> smax,
     valid |-> TRUE, hash |-> file]

\* The older constructor: no chunk size and an empty hash.
FileReqValue(id, file) ==
    [kind |-> "req", id |-> id, total |-> Len(file), smax |-> 0,
     valid |-> FALSE, hash |-> <<>>]

FileChunk(id, offset, data) ==
    [kind |-> "chunk", id |-> id, offset |-> offset, data |-> data]

FileAck(id, kind, next, chunk) ==
    [kind |-> kind, id |-> id, next |-> next, chunk |-> chunk]

Fault(kind, kinds) ==
    /\ kind \in kinds
    /\ faults < MaxFaults
    /\ faults' = faults + 1

\* send_to_with_timeout: message m goes to queue q, the caller sees res.
Transmit(q, m, res) ==
    \/ /\ res = "ok"
       /\ q' = Append(q, m)
       /\ UNCHANGED faults
    \/ /\ res = "ok"
       /\ q' = q
       /\ Fault(m.kind, LossyKinds)
    \/ /\ res \in {"timeout", "error"}
       /\ q' \in {q, Append(q, m)}
       /\ Fault(m.kind, FailingKinds)

Results == {"ok", "timeout", "error"}

WireInit ==
    /\ reqQ = <<>>
    /\ chunkQ = <<>>
    /\ ackQ = <<>>
    /\ faults = 0

WireTypeOK ==
    /\ reqQ \in Seq(Req)
    /\ chunkQ \in Seq(Chunk)
    /\ ackQ \in Seq(Ack)
    /\ faults \in 0..MaxFaults
===============================================================================
