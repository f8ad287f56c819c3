------------------------------- MODULE Bytes --------------------------------
(***************************************************************************)
(* Bytes and the big-endian fields made of them.  A u32 is the pair of its *)
(* 16-bit halves.                                                          *)
(***************************************************************************)
EXTENDS Naturals, Sequences

U16Max == 65535
Byte == 0 .. 255
U16 == 0 .. U16Max
U32 == U16 \X U16

\* u16::from_be_bytes
Word(hi, lo) == hi * 256 + lo

\* u16::to_be_bytes, u32::to_be_bytes
U16Bytes(n) == <<n \div 256, n % 256>>
U32Bytes(n) == U16Bytes(n[1]) \o U16Bytes(n[2])

\* read_u16, read_u32: offsets count from zero.
ReadU16(value, offset) == Word(value[offset + 1], value[offset + 2])
ReadU32(value, offset) == <<ReadU16(value, offset), ReadU16(value, offset + 2)>>

=============================================================================
