----------------------------- MODULE MCChecksum -----------------------------
(***************************************************************************)
(* Scalars at the carries, and every slice of up to three bytes from the   *)
(* ends of the byte range.                                                 *)
(***************************************************************************)
EXTENDS Checksum, SequencesExt

MCScalars == {0, 1, 32767, 32768, 65534, 65535}
MCSlices == BoundedSeq({0, 128, 255}, 3)

=============================================================================
