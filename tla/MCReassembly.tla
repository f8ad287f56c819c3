--------------------------- MODULE MCReassembly ---------------------------
(***************************************************************************)
(* Small instances of the reassembly cache.                                *)
(***************************************************************************)
EXTENDS Reassembly

\* Byte strings: the empty one, two of one byte and one of two bytes.
MCData == {"", "a", "b", "aa"}
MCDataLen == [d \in MCData |-> CASE d = "" -> 0 [] d \in {"a", "b"} -> 1 [] OTHER -> 2]

PlainOptions == {NoOptions}

Plain(off, rdos, data) ==
    [offset |-> off, rdos |-> rdos, data |-> data, options |-> NoOptions,
     failures |-> {}, ocs |-> "valid"]

\* Every placement of the byte strings in a tail of up to three bytes or just past it, with the
\* RDOS values that fit, and one fragment for each header check: an offset inside the UDP
\* header, an RDOS below it and an RDOS above the size limit.
LayoutFragments ==
    {Plain(off, rdos, d) : off \in {0, 8, 9, 10}, rdos \in {None, 8, 10}, d \in MCData}
        \cup {Plain(7, None, "a"), Plain(8, 7, "a"), Plain(8, 12, "a")}

-----------------------------------------------------------------------------
\* Fragments of one two-byte datagram that differ in the options and OCS they carry.

MCOptions(mds, size, segs, req) ==
    [mds |-> mds, mrds_size |-> size, mrds_segments |-> segs, req |-> req, res |-> None]

CarriedOptions ==
    {NoOptions, MCOptions(2, 5, 3, None), MCOptions(1, None, None, "x"), MCOptions(None, 4, 6, "y")}

With(f, o, fails, ocs) == [f EXCEPT !.options = o, !.failures = fails, !.ocs = ocs]

OptionFragments ==
    {With(f, o, {}, "valid") :
        f \in {Plain(8, None, "a"), Plain(9, 9, "b"), Plain(10, 9, "")}, o \in CarriedOptions}
    \cup {With(Plain(9, None, "b"), NoOptions, fails, ocs) :
        fails \in SUBSET {"mds", "req"}, ocs \in {"unused", "unobserved"}}
    \cup {With(Plain(8, None, "a"), NoOptions, {}, ocs) : ocs \in {"unused", "unobserved"}}
    \cup {With(Plain(10, 9, ""), NoOptions, {}, "unused"), Plain(0, 10, "aa")}

LayoutAndOptionFragments == LayoutFragments \cup OptionFragments

\* Few fragments, for long runs of the clock: two halves, an atomic datagram and a conflict.
TimedFragments ==
    {Plain(8, None, "a"), Plain(9, 10, "b"), Plain(9, None, "a"), Plain(0, 9, "a"),
     Plain(10, 10, "")}

=============================================================================
