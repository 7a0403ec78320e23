----------------------------- MODULE ThincanWire ------------------------------
(***************************************************************************)
(* The payloads of thincan: a message id of HEADER_LEN bytes, then a body. *)
(* A payload is [id, from, len, tag]: its bytes count, and tag is what the *)
(* body says.  One shorter than the header has no id.                      *)
(***************************************************************************)
EXTENDS Integers

CONSTANT HEADER_LEN

ASSUME ThincanWireAssumption == HEADER_LEN \in Nat

\* encode_capnp_into_buf writes the header in front of the body.
Payload(v) == [id |-> v.id, from |-> v.from, len |-> HEADER_LEN + v.used,
               tag |-> v.tag]

\* decode_wire
HasHeader(p) == p.len >= HEADER_LEN

BodyLen(p) == p.len - HEADER_LEN
===============================================================================
