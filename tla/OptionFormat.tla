---------------------------- MODULE OptionFormat ----------------------------
(***************************************************************************)
(* The option kinds (src/model.rs, src/options/kind.rs) and the typed      *)
(* options with their wire forms (src/options/typed.rs).                   *)
(*                                                                         *)
(* A raw option is a kind and a value, as in RawOption and OptionRef; a    *)
(* typed option is a record of its kind and fields.                        *)
(***************************************************************************)
EXTENDS Bytes, OptionType

\* model::kind
EOL == 0
NOP == 1
APC == 2
FRAG == 3
MDS == 4
MRDS == 5
REQ == 6
RES == 7
ExtendedLengthMarker == 255
UnsafeKinds == 192 .. 255
\* TIME, AUTH, EXP and the reserved SAFE kinds
OutOfScopeAssigned == {8, 9, 127} \cup (128 .. 191)

\* model::length
OcsLen == 2
UdpHeaderLen == 8
TlvHeaderLen == 2

\* OptionKind::is_single_byte
IsSingleByte(kind) == kind \in {EOL, NOP}

\* OptionKind::fixed_tlv_lengths
FixedTlvLengths(kind) ==
    CASE kind \in {APC, REQ, RES} -> {6}
      [] kind = FRAG -> {10, 12}
      [] kind = MDS -> {4}
      [] kind = MRDS -> {5}
      [] OTHER -> {}

RawOption(kind, value) == [kind |-> kind, value |-> value]
RawOptionType == [kind : Byte, value : Seq(Byte)]

TypedOptionType ==
    [kind : {APC}, crc32c : U32]
    \cup [kind : {MDS}, max_datagram_size : U16]
    \cup [kind : {MRDS}, max_reassembled_size : U16, max_segments : Byte]
    \cup [kind : {REQ, RES}, token : {s \in Seq(Byte) : Len(s) = 4}]
    \cup [kind : {FRAG}, frag_start : U16, identification : U32, frag_offset : U16,
           rdos : U16 \cup {None}]

-----------------------------------------------------------------------------
\* What encode() writes behind Kind and Length.
Fields(t) ==
    CASE t.kind = APC -> U32Bytes(t.crc32c)
      [] t.kind = MDS -> U16Bytes(t.max_datagram_size)
      [] t.kind = MRDS -> Append(U16Bytes(t.max_reassembled_size), t.max_segments)
      [] t.kind \in {REQ, RES} -> t.token
      [] t.kind = FRAG ->
            U16Bytes(t.frag_start) \o U32Bytes(t.identification) \o U16Bytes(t.frag_offset)
            \o (IF t.rdos = None THEN <<>> ELSE U16Bytes(t.rdos))

\* The Length byte encode() writes: FRAG has two forms, told apart by rdos.
TypedLength(t) ==
    IF t.kind = FRAG THEN (IF t.rdos = None THEN 10 ELSE 12)
    ELSE CHOOSE n \in FixedTlvLengths(t.kind) : TRUE

\* TypedOption::encode
Encode(t) == <<t.kind, TypedLength(t)>> \o Fields(t)

\* Frag::decode of a value with one of its two lengths
DecodeFrag(value) ==
    [kind |-> FRAG, frag_start |-> ReadU16(value, 0), identification |-> ReadU32(value, 2),
     frag_offset |-> ReadU16(value, 6),
     rdos |-> IF Len(value) = 10 THEN ReadU16(value, 8) ELSE None]

\* TypedOption::decode: None is the error InvalidLength of expect_value_len.
Decode(kind, value) ==
    IF Len(value) + TlvHeaderLen \notin FixedTlvLengths(kind) THEN None
    ELSE CASE kind = APC -> [kind |-> APC, crc32c |-> ReadU32(value, 0)]
           [] kind = MDS -> [kind |-> MDS, max_datagram_size |-> ReadU16(value, 0)]
           [] kind = MRDS -> [kind |-> MRDS, max_reassembled_size |-> ReadU16(value, 0),
                              max_segments |-> value[3]]
           [] kind \in {REQ, RES} -> [kind |-> kind, token |-> value]
           [] kind = FRAG -> DecodeFrag(value)

=============================================================================
