------------------------- MODULE MCUnpackThenProcess ------------------------
(***************************************************************************)
(* Instance of UnpackThenProcess for TLC: every stream of at most          *)
(* MaxLength bytes.                                                        *)
(***************************************************************************)
EXTENDS UnpackThenProcess, SequencesExt

CONSTANT MaxLength    \* bound on the length of a stream

MCStreams == BoundedSeq(Byte, MaxLength)
=============================================================================
