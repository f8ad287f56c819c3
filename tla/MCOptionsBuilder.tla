-------------------------- MODULE MCOptionsBuilder --------------------------
(***************************************************************************)
(* One typed option of every kind (FRAG in both forms, RES twice), raw     *)
(* values around the 252/253 byte boundary of the two length forms, one    *)
(* option for every way to be refused, and values at the 16-bit limit.     *)
(*                                                                         *)
(* For the iterator alone, every string of up to five bytes over the       *)
(* single-byte kinds, lengths below and at the minimum, and the marker;    *)
(* and options whose total length is at the boundaries of the two forms,   *)
(* complete or cut short.                                                  *)
(***************************************************************************)
EXTENDS OptionsBuilder, SequencesExt

Zeros(n) == [i \in 1 .. n |-> 0]

Frag(rdos) ==
    [kind |-> FRAG, frag_start |-> 0, identification |-> <<4660, 22136>>, frag_offset |-> 300,
     rdos |-> rdos]

MCTyped ==
    {Frag(None), Frag(513),
     [kind |-> APC, crc32c |-> <<51966, 47806>>],
     [kind |-> MDS, max_datagram_size |-> 1400],
     [kind |-> MRDS, max_reassembled_size |-> 65535, max_segments |-> 3],
     [kind |-> REQ, token |-> <<1, 2, 3, 4>>],
     [kind |-> RES, token |-> <<5, 6, 7, 8>>]}

MCRaw ==
    {RawOption(10, <<>>), RawOption(10, <<0>>), RawOption(126, <<1, 1, 1>>),
     RawOption(10, Zeros(252)), RawOption(10, Zeros(253)), RawOption(126, Zeros(254)),
     RawOption(RES, <<0, 0, 0, 0>>), RawOption(RES, <<0, 0, 0>>), RawOption(FRAG, Zeros(9)),
     RawOption(EOL, <<>>), RawOption(NOP, <<>>), RawOption(9, <<>>), RawOption(127, <<>>),
     RawOption(160, <<>>), RawOption(192, <<>>),
     RawOption(10, Zeros(65527)), RawOption(10, Zeros(65529)),
     RawOption(10, Zeros(65532))}

Filler(n) == [i \in 1 .. n |-> MDS]

\* An option in the extended form that claims this total length.
ExtendedForm(total) == <<200, ExtendedLengthMarker>> \o U16Bytes(total) \o Filler(total - 4)
DefaultForm(total) == <<10, total>> \o Filler(total - 2)

MCInputs ==
    BoundedSeq({EOL, NOP, APC, FRAG, MDS, ExtendedLengthMarker}, 5)
    \cup {ExtendedForm(n) \o <<EOL>> : n \in {4, 254, 255, 256, 257, 512}}
    \cup {Front(ExtendedForm(n)) : n \in {254, 255, 256}}
    \cup {DefaultForm(n) \o <<NOP, EOL, NOP>> : n \in {2, 3, 253, 254}}
    \cup {Front(DefaultForm(254)), <<NOP>> \o DefaultForm(254)}

=============================================================================
