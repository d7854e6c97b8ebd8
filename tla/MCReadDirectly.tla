--------------------------- MODULE MCReadDirectly ---------------------------
(***************************************************************************)
(* Instance of ReadDirectly for TLC: every stream of at most MaxLength     *)
(* bytes, so that blocks of every size from empty to larger than the       *)
(* buffer start and end at every place of a chunk, for every buffer.       *)
(***************************************************************************)
EXTENDS ReadDirectly, SequencesExt

CONSTANT MaxLength    \* bound on the length of a stream

MCStreams == BoundedSeq(Byte, MaxLength)
=============================================================================
