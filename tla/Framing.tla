------------------------------- MODULE Framing ------------------------------
(***************************************************************************)
(* What reading a file promises, whatever path reads it and however the    *)
(* bytes are cut into chunks: the blocks of the decompressed stream reach  *)
(* the processor in order, each once, numbered 1, 2, 3, ..., and reading   *)
(* stops where no complete block is left, unless something throws.         *)
(***************************************************************************)
EXTENDS MoldBlock

CONSTANT Streams    \* the byte sequences a file may decompress to

VARIABLES
    stream,         \* the decompressed content of the file
    pos,            \* offset of the first byte no processor has seen
    delivered,      \* history: the calls of the processor, in order
    phase           \* "reading", "stopped" or "failed"

framingVars == <<stream, pos, delivered, phase>>

Init ==
    /\ stream \in Streams
    /\ pos = 0
    /\ delivered = << >>
    /\ phase = "reading"

Deliver ==
    /\ phase = "reading"
    /\ CompleteBlock(stream, pos, Len(stream))
    /\ delivered' = Append(delivered,
           [seqn  |-> Len(delivered) + 1,
            bytes |-> BytesAt(stream, pos + HeaderSize, MessageSize(stream, pos))])
    /\ pos' = pos + BlockSize(stream, pos)
    /\ UNCHANGED <<stream, phase>>

Stop ==
    /\ phase = "reading"
    /\ ~CompleteBlock(stream, pos, Len(stream))
    /\ phase' = "stopped"
    /\ UNCHANGED <<stream, pos, delivered>>

Fail ==
    /\ phase = "reading"
    /\ phase' = "failed"
    /\ UNCHANGED <<stream, pos, delivered>>

Next == Deliver \/ Stop \/ Fail

Spec == Init /\ [][Next]_framingVars
=============================================================================
