---------------------------- MODULE OptionsIter -----------------------------
(***************************************************************************)
(* The TLV iterator (OptionsIter of src/options/parse.rs) over any bytes:  *)
(* every step is one call of next() that does not return None.             *)
(***************************************************************************)
EXTENDS OptionFormat

CONSTANT Inputs    \* the option bytes iterators are made for

ASSUME InputsAssumption == Inputs \subseteq Seq(Byte)
ASSUME ErrorsAssumption == None \notin {"Overrun", "InvalidLength"}

VARIABLES
    bytes,             \* the option bytes behind the OCS
    pos,               \* bytes consumed
    done,              \* EOL or an error was seen
    error,             \* the error yielded, or None
    current_nop_run,
    max_nop_run,
    items              \* history: the options yielded, with the range each was read from

iterVars == <<bytes, pos, done, error, current_nop_run, max_nop_run, items>>

Failure(why, start) == [error |-> why, start |-> start, header |-> 0, total |-> 0]
Framed(start, header, total) ==
    [error |-> None, start |-> start, header |-> header, total |-> total]

\* Slip: the marker is taken for any other length.
FramingDefaultOnly(bs, start) ==
    LET have == Len(bs) - start
        total == IF have < 2 THEN 0 ELSE bs[start + 2]
    IN  IF have < 2 \/ total > have THEN Failure("Overrun", start)
        ELSE IF total < 2 THEN Failure("InvalidLength", start)
        ELSE Framed(start, 2, total)

\* What next() makes of the Length fields of an option that begins at start: the checks in their
\* order.
Framing(bs, start) ==
    LET have == Len(bs) - start
        extended == bs[start + 2] = ExtendedLengthMarker
        total == IF extended THEN ReadU16(bs, start + 2) ELSE bs[start + 2]
        least == IF extended THEN ExtendedLengthMarker ELSE TlvHeaderLen
    IN  IF have < 2 THEN Failure("Overrun", start)
        ELSE IF extended /\ have < 4 THEN Failure("Overrun", start)
        ELSE IF total < least THEN Failure("InvalidLength", start)
        ELSE IF total > have THEN Failure("Overrun", start)
        ELSE Framed(start, IF extended THEN 4 ELSE 2, total)

\* value_slice
ValueOf(bs, f) == SubSeq(bs, f.start + f.header + 1, f.start + f.total)

\* raw_from_typed of src/api/mod.rs: the first option of an encoded typed option.
RawFromTyped(t) ==
    LET f == Framing(Encode(t), 0) IN RawOption(Encode(t)[1], ValueOf(Encode(t), f))

-----------------------------------------------------------------------------
IterInit(bs) ==
    /\ bytes = bs
    /\ pos = 0
    /\ done = FALSE
    /\ error = None
    /\ current_nop_run = 0
    /\ max_nop_run = 0
    /\ items = <<>>

ParseInit == \E bs \in Inputs : IterInit(bs)

\* next() has something to look at.
HasMore == ~done /\ pos < Len(bytes)

Kind == bytes[pos + 1]

Yield(value, to) ==
    items' = Append(items, [kind |-> Kind, value |-> value, from |-> pos, to |-> to])

NextEol ==
    /\ HasMore /\ Kind = EOL
    /\ pos' = pos + 1
    /\ current_nop_run' = 0
    /\ done' = TRUE
    /\ Yield(<<>>, pos + 1)
    /\ UNCHANGED <<bytes, error, max_nop_run>>

NextNop ==
    /\ HasMore /\ Kind = NOP
    /\ pos' = pos + 1
    /\ current_nop_run' = current_nop_run + 1
    /\ max_nop_run' = IF current_nop_run' > max_nop_run THEN current_nop_run' ELSE max_nop_run
    /\ Yield(<<>>, pos + 1)
    /\ UNCHANGED <<bytes, done, error>>

NextOption ==
    /\ HasMore /\ ~IsSingleByte(Kind)
    /\ LET f == Framing(bytes, pos)
       IN  /\ f.error = None
           /\ pos' = pos + f.total
           /\ Yield(ValueOf(bytes, f), pos + f.total)
    /\ current_nop_run' = 0
    /\ UNCHANGED <<bytes, done, error, max_nop_run>>

\* fail()
NextFails ==
    /\ HasMore /\ ~IsSingleByte(Kind)
    /\ Framing(bytes, pos).error # None
    /\ error' = Framing(bytes, pos).error
    /\ done' = TRUE
    /\ UNCHANGED <<bytes, pos, current_nop_run, max_nop_run, items>>

NextItem == NextEol \/ NextNop \/ NextOption \/ NextFails

ParseSpec == ParseInit /\ [][NextItem]_iterVars

-----------------------------------------------------------------------------
\* Properties

\* An option is framed by the bytes it was read from: its value ends where its Length says.
WellFramed(item) ==
    /\ item.from < item.to /\ item.to <= Len(bytes)
    /\ item.kind = bytes[item.from + 1]
    /\ IF IsSingleByte(item.kind)
       THEN item.to = item.from + 1 /\ item.value = <<>>
       ELSE \E header \in {2, 4} :
                /\ item.value = SubSeq(bytes, item.from + header + 1, item.to)
                /\ bytes[item.from + 2] = ExtendedLengthMarker <=> header = 4
                /\ item.to - item.from =
                       IF header = 4 THEN ReadU16(bytes, item.from + 2)
                       ELSE bytes[item.from + 2]

\* Where the i-th option ends.
EndOf(i) == IF i = 0 THEN 0 ELSE items[i].to

\* Whatever the bytes, next() never reads behind them: what it has yielded tiles the bytes
\* consumed, in order and without gap or overlap, and each option is framed by its own bytes.
\* Nothing follows EOL, and only EOL or an error ends the iteration before the last byte.
ItemsTile ==
    /\ pos = EndOf(Len(items)) /\ pos <= Len(bytes)
    /\ \A i \in 1 .. Len(items) :
        /\ items[i].from = EndOf(i - 1)
        /\ WellFramed(items[i])
        /\ items[i].kind = EOL => i = Len(items) /\ done
    /\ done => error # None \/ (items # <<>> /\ items[Len(items)].kind = EOL)

=============================================================================
