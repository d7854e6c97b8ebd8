----------------------------- MODULE MCCountFile ----------------------------
(***************************************************************************)
(* Instance of CountFile for TLC: every stream of at most MaxLength bytes. *)
(***************************************************************************)
EXTENDS CountFile, SequencesExt

CONSTANT MaxLength    \* bound on the length of a stream

MCStreams == BoundedSeq(Byte, MaxLength)

(* Type 1 has a message of one byte, type 2 one of two.                    *)
MCSizeOfType == [t \in Types |-> t]
=============================================================================
