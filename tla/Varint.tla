------------------------------- MODULE Varint -------------------------------
(***************************************************************************)
(* The protobuf primitives of src/pbx/fetch_node_config.py: base-128       *)
(* varints and the leading tag of a FromRadio message.  Bytes are numbers  *)
(* below 256; positions count from 1.                                      *)
(***************************************************************************)
EXTENDS Integers, Sequences, SequencesExt

EncodeVarint[n \in Nat] ==
    IF n < 128 THEN <<n>> ELSE <<(n % 128) + 128>> \o EncodeVarint[n \div 128]

\* read_varint(): the value at pos and the position after it, or Truncated
\* where the code raises ValueError.
Truncated == [value |-> -1, next |-> 0]
ReadVarint(bytes, pos) ==
    LET ends == {i \in pos .. Len(bytes) : bytes[i] < 128}
        last == CHOOSE i \in ends : \A j \in ends : i <= j
    IN  IF ends = {} THEN Truncated
        ELSE [value |-> FoldRight(LAMBDA b, v : (b % 128) + 128 * v,
                                  SubSeq(bytes, pos, last), 0),
              next  |-> last + 1]

CONFIG_COMPLETE_TAG == 56     \* field 7, wire type 0
WANT_CONFIG_TAG     == 24     \* field 3, wire type 0

NoId == -1
ExtractConfigCompleteId(payload) ==
    LET tag == ReadVarint(payload, 1)
    IN  IF tag = Truncated \/ tag.value # CONFIG_COMPLETE_TAG THEN NoId
        ELSE ReadVarint(payload, tag.next).value

BuildWantConfig(nonce) == EncodeVarint[WANT_CONFIG_TAG] \o EncodeVarint[nonce]
ConfigComplete(nonce)  == EncodeVarint[CONFIG_COMPLETE_TAG] \o EncodeVarint[nonce]
=============================================================================
