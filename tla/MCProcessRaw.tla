---------------------------- MODULE MCProcessRaw ----------------------------
(***************************************************************************)
(* Instance of ProcessRaw for TLC: every stream of at most MaxLength bytes.*)
(***************************************************************************)
EXTENDS ProcessRaw, SequencesExt

CONSTANT MaxLength    \* bound on the length of a stream

MCStreams == BoundedSeq(Byte, MaxLength)
=============================================================================
