------------------------------ MODULE Checksum ------------------------------
(***************************************************************************)
(* The checksum accumulator (struct Checksum of src/wire/checksum.rs) as   *)
(* its callers drive it: a fresh one is given scalars and byte slices in   *)
(* any number and order, and add_slice goes through its slice word by      *)
(* word.                                                                   *)
(***************************************************************************)
EXTENDS OnesComplement

CONSTANTS
    Scalars,    \* the arguments of add_u16
    Slices,     \* the arguments of add_slice
    MaxWords    \* bound on the words one accumulator is given

ASSUME WordsAssumption == Scalars \subseteq U16 /\ Slices \subseteq Seq(Byte)
ASSUME MaxWordsAssumption == MaxWords \in Nat

VARIABLES
    sum,      \* the u32 accumulator
    slice,    \* what add_slice has still to add
    words,    \* how many words were added, up to MaxWords
    total     \* history: their sum in unbounded arithmetic

checksum_vars == <<sum, slice, words, total>>

ChecksumInit ==
    /\ sum = 0
    /\ slice = <<>>
    /\ words = 0
    /\ total = 0

\* Checksum::new, for the next use.
New ==
    /\ slice = <<>>
    /\ sum' = 0
    /\ words' = 0
    /\ total' = 0
    /\ UNCHANGED slice

Add(v) ==
    /\ sum' = AddU16(sum, v)
    /\ words' = words + 1
    /\ total' = total + v

AddScalar(v) ==
    /\ slice = <<>>
    /\ words < MaxWords
    /\ Add(v)
    /\ UNCHANGED slice

AddSlice(bytes) ==
    /\ slice = <<>>
    /\ words + Len(Words(bytes)) <= MaxWords
    /\ slice' = bytes
    /\ UNCHANGED <<sum, words, total>>

\* One turn over chunks_exact(2).
SliceWord ==
    /\ Len(slice) >= 2
    /\ Add(Word(slice[1], slice[2]))
    /\ slice' = SubSeq(slice, 3, Len(slice))

\* The remainder.
SliceLast ==
    /\ Len(slice) = 1
    /\ Add(Word(slice[1], 0))
    /\ slice' = <<>>

ChecksumNext ==
    \/ New
    \/ \E v \in Scalars : AddScalar(v)
    \/ \E bytes \in Slices : AddSlice(bytes)
    \/ SliceWord
    \/ SliceLast

ChecksumSpec == ChecksumInit /\ [][ChecksumNext]_checksum_vars

-----------------------------------------------------------------------------
\* Properties

TypeOK ==
    /\ sum \in Nat
    /\ slice \in Seq(Byte)
    /\ words \in Nat
    /\ total \in Nat

\* However many words were added and in whatever order, the running sum stays below 2^17, as the
\* comment in add_u16 claims, sum() returns the ones' complement sum of all of them, and its loop
\* needs no more than one turn.
SumIsOnesComplement ==
    /\ sum < 131072
    /\ SumOf(sum) = OnesComplementOf(total)
    /\ SumOf(sum) = Fold(sum)

=============================================================================
