--------------------------- MODULE OnesComplement ---------------------------
(***************************************************************************)
(* The arithmetic of the Internet checksum (src/wire/checksum.rs) on its   *)
(* u32 accumulator, and the stored forms the wire layer makes of it.       *)
(***************************************************************************)
EXTENDS Bytes

\* Slip: the carry is lost.
FoldNoCarry(s) == s % 65536

\* One end-around carry.
Fold(s) == (s % 65536) + (s \div 65536)

\* Checksum::add_u16
AddU16(s, v) == Fold(s + v)

\* Checksum::sum: its loop folds until nothing is left above 16 bits, which takes two turns at
\* most on a u32; Fold changes nothing below 65536.
SumOf(s) == Fold(Fold(s))

\* Checksum::finish
Finish(s) == U16Max - SumOf(s)

\* The words add_slice makes of a byte slice: a last odd byte is the high byte of its word.
Words(bytes) ==
    [i \in 1 .. (Len(bytes) + 1) \div 2 |->
        Word(bytes[2 * i - 1], IF 2 * i <= Len(bytes) THEN bytes[2 * i] ELSE 0)]

\* A Checksum after each of these words was added to it, and after all of them
Sums(ws) ==
    LET sum_of[i \in 0 .. Len(ws)] == IF i = 0 THEN 0 ELSE AddU16(sum_of[i - 1], ws[i])
    IN  sum_of

Accumulate(ws) == Sums(ws)[Len(ws)]

\* The wire value of a UDP checksum or an OCS: a computed zero is stored as 0xffff.
NonZero(checksum) == IF checksum = 0 THEN U16Max ELSE checksum

-----------------------------------------------------------------------------
\* The reference: the ones' complement sum of words with this total, with 0xffff for every
\* multiple of 0xffff but zero itself.
OnesComplementOf(total) == IF total = 0 THEN 0 ELSE 1 + ((total - 1) % U16Max)

\* The sums of the first i words, and of all, in unbounded arithmetic.
Totals(ws) ==
    LET total_of[i \in 0 .. Len(ws)] == IF i = 0 THEN 0 ELSE total_of[i - 1] + ws[i]
    IN  total_of

Total(ws) == Totals(ws)[Len(ws)]

=============================================================================
