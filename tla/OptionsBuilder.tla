--------------------------- MODULE OptionsBuilder ---------------------------
(***************************************************************************)
(* The option serializer (src/options/serialize.rs) and, behind it, the    *)
(* iterator that reads the body back.  A caller pushes options in any      *)
(* order, raw or typed; finish() validates, sorts, measures, patches FRAG  *)
(* and encodes.  The iterator also reads bytes no builder has made.        *)
(***************************************************************************)
EXTENDS OptionsIter, FiniteSets, Functions

CONSTANTS
    Typed,          \* typed options a caller pushes (SendOptions::push_typed)
    Raw,            \* raw options a caller pushes (push, push_raw, extend_raw)
    MaxOptions,     \* bound: options pushed into one builder
    MaxValueBytes   \* bound: value bytes held when another option is pushed

SerializeErrors ==
    {"ReservedKind", "UnsafeKind", "UnsupportedAssignedKind", "ValueTooLong",
     "InvalidFixedValueLength", "DuplicateFrag", "BodyTooLong", "FragmentStartTooLarge"}

ASSUME TypedAssumption == Typed \subseteq TypedOptionType
ASSUME RawAssumption == Raw \subseteq RawOptionType
ASSUME OutcomesAssumption == None \notin U16 /\ None \notin SerializeErrors \cup {"Ok", "Foreign"}

VARIABLES
    options,        \* OptionsBuilder.options
    outcome,        \* None, "Ok" or the SerializeError of finish(); "Foreign" without a builder
    body            \* the body finish() returned

builderVars == <<options, outcome, body>>
codecVars == <<builderVars, iterVars>>

\* Slip: the largest one-byte total length is taken to be the marker.
DefaultValueLenMaxWithMarker == ExtendedLengthMarker - 2

DefaultValueLenMax == 252
ExtendedValueLenMax == U16Max - 4
BodyLenMax == U16Max - 1

-----------------------------------------------------------------------------
\* validate_option: None is Ok.
ValidateOption(o) ==
    CASE o.kind \in {EOL, NOP} -> "ReservedKind"
      [] o.kind \in UnsafeKinds -> "UnsafeKind"
      [] o.kind \in OutOfScopeAssigned -> "UnsupportedAssignedKind"
      [] Len(o.value) > ExtendedValueLenMax -> "ValueTooLong"
      [] OTHER -> LET expected == FixedTlvLengths(o.kind)
                  IN  IF expected = {} \/ Len(o.value) + TlvHeaderLen \in expected THEN None
                      ELSE "InvalidFixedValueLength"

\* The verdict of validated_options on the i-th option.
Verdict(opts, i) ==
    IF ValidateOption(opts[i]) # None THEN ValidateOption(opts[i])
    ELSE IF opts[i].kind = FRAG /\ \E j \in 1 .. i - 1 : opts[j].kind = FRAG
         THEN "DuplicateFrag" ELSE None

\* validated_options: the first error in the order of the options.
Validate(opts) ==
    LET bad == {i \in DOMAIN opts : Verdict(opts, i) # None}
    IN  IF bad = {} THEN None ELSE Verdict(opts, CHOOSE i \in bad : \A j \in bad : i <= j)

\* canonical_rank
CanonicalRank(kind) ==
    CASE kind = FRAG -> 0
      [] kind = APC -> 1
      [] kind = MDS -> 2
      [] kind = MRDS -> 3
      [] kind = REQ -> 4
      [] kind = RES -> 5
      [] OTHER -> 1000 + kind

\* options.sort_by_key, which is stable: the i-th option goes before the j-th
Precedes(opts, i, j) ==
    LET rank(k) == CanonicalRank(opts[k].kind)
    IN  rank(i) < rank(j) \/ (rank(i) = rank(j) /\ i < j)

Place(opts, i) == Cardinality({j \in DOMAIN opts : j = i \/ Precedes(opts, j, i)})

Canonical(opts) == [k \in DOMAIN opts |-> opts[CHOOSE i \in DOMAIN opts : Place(opts, i) = k]]

\* encoded_len
EncodedLen(valueLen) == IF valueLen <= DefaultValueLenMax THEN valueLen + 2 ELSE valueLen + 4

RoundUpEven(n) == n + (n % 2)

\* The length serialized_body_len has reached after each option
MeasuredLen(opts) ==
    LET len[k \in 0 .. Len(opts)] ==
            IF k = 0 THEN OcsLen ELSE RoundUpEven(len[k - 1]) + EncodedLen(Len(opts[k].value))
    IN  len

\* serialized_body_len.  checked_body_add only ever grows the length, so the refusal of one of its
\* calls is that of the final length.
SerializedBodyLen(opts) == RoundUpEven(1 + MeasuredLen(opts)[Len(opts)])

\* patch_frag_start
PatchFragStart(opts, start) ==
    [k \in DOMAIN opts |->
        IF opts[k].kind # FRAG THEN opts[k]
        ELSE [opts[k] EXCEPT !.value = U16Bytes(start) \o SubSeq(@, 3, Len(@))]]

\* encode_option
EncodeOption(o) ==
    (IF Len(o.value) <= DefaultValueLenMax THEN <<o.kind, Len(o.value) + 2>>
     ELSE <<o.kind, ExtendedLengthMarker>> \o U16Bytes(Len(o.value) + 4))
    \o o.value

Padded(out, filler) == IF Len(out) % 2 = 1 THEN Append(out, filler) ELSE out

\* What the encoding loop of finish() has written after each option, behind the OCS placeholder
Written(opts) ==
    LET out[k \in 0 .. Len(opts)] ==
            IF k = 0 THEN <<0, 0>> ELSE Padded(out[k - 1], NOP) \o EncodeOption(opts[k])
    IN  out

\* The body finish() returns: EOL and zero fill behind the options
EncodeBody(opts) == Padded(Append(Written(opts)[Len(opts)], EOL), 0)

-----------------------------------------------------------------------------
CodecInit ==
    /\ options = <<>> /\ outcome = None /\ body = <<>>
    /\ IterInit(<<>>)

HeldBytes == FoldFunction(LAMBDA o, n : n + Len(o.value), 0, options)

CanPush == outcome = None /\ Len(options) < MaxOptions /\ HeldBytes <= MaxValueBytes

\* push, push_raw and extend_raw
Push(o) ==
    /\ CanPush
    /\ options' = Append(options, o)
    /\ UNCHANGED <<outcome, body, iterVars>>

\* SendOptions::push_typed, whose raw options options_body hands to extend_raw
PushTyped(t) == Push(RawFromTyped(t))

\* finish() that refuses: validated_options, serialized_body_len or patch_frag_start
FinishFails ==
    /\ outcome = None
    /\ LET bodyLen == SerializedBodyLen(Canonical(options))
       IN  outcome' = CASE Validate(options) # None -> Validate(options)
                        [] bodyLen > BodyLenMax -> "BodyTooLong"
                        [] UdpHeaderLen + bodyLen > U16Max -> "FragmentStartTooLarge"
                        [] OTHER -> None
    /\ outcome' # None
    /\ UNCHANGED <<options, body, iterVars>>

\* finish() that returns a body, and OptionsIter::new over what follows its OCS
Finish ==
    /\ outcome = None
    /\ Validate(options) = None
    /\ LET sorted == Canonical(options)
           bodyLen == SerializedBodyLen(sorted)
       IN  /\ UdpHeaderLen + bodyLen <= U16Max
           /\ body' = EncodeBody(PatchFragStart(sorted, UdpHeaderLen + bodyLen))
    /\ bytes' = SubSeq(body', OcsLen + 1, Len(body'))
    /\ outcome' = "Ok"
    /\ UNCHANGED <<options, pos, done, error, current_nop_run, max_nop_run, items>>

\* OptionsIter::new over bytes that came from elsewhere
Receive(bs) ==
    /\ outcome = None /\ options = <<>>
    /\ outcome' = "Foreign"
    /\ bytes' = bs
    /\ UNCHANGED <<options, body, pos, done, error, current_nop_run, max_nop_run, items>>

Iterate == outcome \in {"Ok", "Foreign"} /\ NextItem /\ UNCHANGED builderVars

CodecNext ==
    \/ \E t \in Typed : PushTyped(t)
    \/ \E o \in Raw : Push(o)
    \/ FinishFails
    \/ Finish
    \/ \E bs \in Inputs : Receive(bs)
    \/ Iterate

CodecSpec == CodecInit /\ [][CodecNext]_codecVars

-----------------------------------------------------------------------------
\* Properties

\* What the serializer must preserve of an option: all of it, but for FRAG's start.
Content(o) ==
    RawOption(o.kind, IF o.kind = FRAG THEN SubSeq(o.value, 3, Len(o.value)) ELSE o.value)

\* The options among the items: all but the single bytes NOP and EOL.
Read == {i \in DOMAIN items : ~IsSingleByte(items[i].kind)}

\* The iterator has nothing more to yield.
ReadToEnd == outcome = "Ok" /\ (done \/ pos = Len(bytes))

\* A body that finish() returns is read back without error as the options that were pushed: each of
\* them once, with its value, and those of one kind in the caller's order.  FRAG comes first and its
\* start is where the body ends behind the UDP header; typed options decode to what they were; EOL
\* is followed by at most one byte of fill.  Every option begins at an even offset, behind at most
\* one NOP, and the body has the even length measured before it was encoded (the debug_assert of
\* finish()), on which the offset in FRAG rests.
RoundTrip ==
    ReadToEnd =>
        /\ error = None /\ done
        /\ Len(bytes) - pos \in {0, 1}
        /\ max_nop_run <= 1
        /\ Len(body) = SerializedBodyLen(Canonical(options)) /\ Len(body) % 2 = 0
        /\ \E pushed \in Bijection(Read, DOMAIN options) :
               /\ \A i \in Read : Content(items[i]) = Content(options[pushed[i]])
               /\ \A i, j \in Read : i < j /\ items[i].kind = items[j].kind => pushed[i] < pushed[j]
        /\ \A i \in Read : items[i].from % 2 = 0
        /\ \A i \in Read : items[i].kind = FRAG =>
               /\ \A j \in Read : i <= j
               /\ ReadU16(items[i].value, 0) = UdpHeaderLen + Len(body)
        /\ \A t \in Typed : RawFromTyped(t) \in Range(options) =>
               \E i \in Read :
                   /\ items[i].kind = t.kind
                   /\ LET back == Decode(t.kind, items[i].value)
                      IN  IF t.kind = FRAG THEN [back EXCEPT !.frag_start = t.frag_start] = t
                          ELSE back = t

=============================================================================
