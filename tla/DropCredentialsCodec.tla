-------------------------- MODULE DropCredentialsCodec --------------------------
(***************************************************************************)
(* The DropCredentials logical extension node (sqlexec/src/planner/        *)
(* logical_plan/drop_credentials.rs) shipped across a process boundary:   *)
(* try_encode builds the protobuf DropCredentials {names, if_exists},      *)
(* wraps it as the DropCredentials variant of LogicalPlanExtension.inner  *)
(* and encodes it; the receiver decodes the message (prost, generated     *)
(* code outside src/) and try_decode rebuilds the node.                    *)
(*                                                                         *)
(* Before encoding, the extension codec recovers the node from the plan's *)
(* generic Extension with try_decode_extension, a downcast that fails for *)
(* an extension node of another type.                                      *)
(*                                                                         *)
(* The wire message is modelled by what protobuf encoding keeps: the      *)
(* oneof variant written, then the payload as a sequence of fields, one   *)
(* field 1 per name (repeated string), and field 2 only when if_exists is *)
(* true (proto3 omits a bool at its default).  A decoder collects every   *)
(* field 1 in order and takes the last field 2, defaulting to false.      *)
(***************************************************************************)
EXTENDS Naturals, Sequences, SequencesExt

CONSTANTS
  Names,        \* credential names (model values)
  MaxNames,     \* longest names list
  None          \* model value: nothing encoded or decoded yet

(* DropCredentials {names: Vec<String>, if_exists: bool}.                 *)
Nodes == [names : BoundedSeq(Names, MaxNames), if_exists : BOOLEAN]

(* The payload fields of protogen DropCredentials.                        *)
Field == [num : {1}, val : Names] \cup [num : {2}, val : BOOLEAN]

(***************************************************************************)
(* try_encode: DropCredentials {names, if_exists} as the DropCredentials  *)
(* variant of LogicalPlanExtension {inner: Some(..)}, encoded.             *)
(***************************************************************************)
TryEncode(node) ==
  [variant |-> "DropCredentials",
   payload |-> [i \in 1..Len(node.names) |-> [num |-> 1, val |-> node.names[i]]]
               \o (IF node.if_exists THEN <<[num |-> 2, val |-> TRUE]>> ELSE <<>>)]

(* Decoding the payload: the repeated field in order, the last bool.      *)
DecodeProto(msg) ==
  LET ns == SelectSeq(msg.payload, LAMBDA f : f.num = 1)
      bs == SelectSeq(msg.payload, LAMBDA f : f.num = 2)
  IN [names     |-> [i \in 1..Len(ns) |-> ns[i].val],
      if_exists |-> IF bs = <<>> THEN FALSE ELSE Last(bs).val]

(* Mutant: the decoder drops the if_exists flag.                          *)
TryDecodeNoFlag(proto) == [names |-> proto.names, if_exists |-> FALSE]

(* try_decode: the node from the decoded proto's fields.                  *)
TryDecode(proto) == [names |-> proto.names, if_exists |-> proto.if_exists]

(* try_decode_extension: the node if the extension holds a DropCredentials *)
(* (downcast_ref::<Self>, then clone), else the "try_decode_extension      *)
(* failed" error.                                                           *)
TryDecodeExtension(kind, n) ==
  IF kind = "DropCredentials" THEN [ok |-> TRUE, node |-> n]
                              ELSE [ok |-> FALSE, node |-> n]

(* The internal error of a failed encode, shaped like a message so that *)
(* wire stays comparable.                                                  *)
EncodeError == [variant |-> "error", payload |-> <<>>]

VARIABLES
  kind,         \* the type of node the plan's Extension holds
  node,         \* the node the planner built
  wire,         \* the encoded LogicalPlanExtension, None, or EncodeError
  decoded       \* the node the receiver rebuilt, or None

vars == <<kind, node, wire, decoded>>

TypeOK ==
  /\ kind \in {"DropCredentials", "Other"}
  /\ node \in Nodes
  /\ wire \in {None, EncodeError} \cup [variant : {"DropCredentials"}, payload : Seq(Field)]
  /\ decoded \in {None} \cup Nodes

Init ==
  /\ kind \in {"DropCredentials", "Other"}
  /\ node \in Nodes /\ wire = None /\ decoded = None

(* The plan is encoded to be shipped: the node is recovered from the     *)
(* Extension, then try_encode.                                             *)
Encode ==
  /\ wire = None
  /\ LET n == TryDecodeExtension(kind, node)
     IN wire' = IF n.ok THEN TryEncode(n.node) ELSE EncodeError
  /\ UNCHANGED <<kind, node, decoded>>

(* The receiver decodes the message and rebuilds the node.                *)
Decode ==
  /\ wire # None /\ wire # EncodeError /\ decoded = None
  /\ decoded' = TryDecode(DecodeProto(wire))
  /\ UNCHANGED <<kind, node, wire>>

Next == Encode \/ Decode

Spec == Init /\ [][Next]_vars

(***************************************************************************)
(* Properties                                                              *)
(***************************************************************************)

(* Spec section 8: decode(encode(node)) == node for the DropCredentials   *)
(* extension node, including an empty names list, repeated names and the *)
(* if_exists flag that protobuf leaves off the wire when false.            *)
RoundTrip == decoded # None => decoded = node

=============================================================================
