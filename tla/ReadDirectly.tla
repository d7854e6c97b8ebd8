---------------------------- MODULE ReadDirectly ----------------------------
(***************************************************************************)
(* read_directly: the decompressed stream is read through one fixed buffer;*)
(* what fake_sequence leaves unprocessed is moved to its front before the  *)
(* next read fills the rest.                                               *)
(***************************************************************************)
EXTENDS FakeSequence

CONSTANTS
    Streams,        \* the byte sequences a file may decompress to
    MinBuffer,      \* the least buffer run() accepts: 1500 in the code
    BufferOptions   \* values of the option buffer-size

ASSUME StreamsAssumption   == Streams \subseteq Seq(Byte)
ASSUME MinBufferAssumption == MinBuffer \in Nat /\ MinBuffer >= HeaderSize
ASSUME OptionsAssumption   == BufferOptions \subseteq Nat

VARIABLES
    stream,         \* the decompressed content of the file
    taken,          \* how many bytes of it have been read so far
    leftover        \* unprocessed bytes kept at the front of the buffer

vars == <<mem, begin, end, seqn, delivered, pc, stream, taken, leftover>>

BufferSize(option) == IF option < MinBuffer THEN MinBuffer ELSE option

buffer_size == Len(mem)

(* boost::iostreams::read on the filtering_streambuf: as many bytes as     *)
(* asked for unless the stream ends first.                                 *)
ReadCountBut(reserved) ==
    LET room == buffer_size - leftover - reserved
        left == Len(stream) - taken
    IN  IF room <= left THEN room ELSE left
ReadCountSparingOne == ReadCountBut(1)
ReadCount == ReadCountBut(0)

Init ==
    /\ SequenceInit
    /\ stream \in Streams
    /\ \E option \in BufferOptions :
           mem = [i \in 1 .. BufferSize(option) |-> 0]
    /\ taken = 0
    /\ leftover = 0
    /\ pc = "read"

Read ==
    /\ pc = "read"
    /\ taken < Len(stream)
    /\ mem' = [i \in 1 .. buffer_size |->
                  IF i \in leftover + 1 .. leftover + ReadCount
                  THEN stream[taken + (i - leftover)]
                  ELSE mem[i]]
    /\ taken' = taken + ReadCount
    /\ begin' = 0
    /\ end' = leftover + ReadCount
    /\ pc' = "sequence"
    /\ UNCHANGED <<seqn, delivered, stream, leftover>>

EndOfStream ==
    /\ pc = "read"
    /\ taken = Len(stream)
    /\ pc' = "eof"
    /\ UNCHANGED <<mem, begin, end, seqn, delivered, stream, taken, leftover>>

(* The decompressor throws: the archive is damaged.                        *)
ReadThrows ==
    /\ pc = "read"
    /\ pc' = "failed"
    /\ UNCHANGED <<mem, begin, end, seqn, delivered, stream, taken, leftover>>

RunSequence == Sequence /\ UNCHANGED <<stream, taken, leftover>>

(* memmove(begin, prev(end, leftover), leftover) of reader.cpp: nothing    *)
(* moves when no byte is left over.                                        *)
NotMoved == mem
Moved == [i \in 1 .. buffer_size |->
             IF i <= end - begin THEN mem[begin + i] ELSE mem[i]]

Compact ==
    /\ pc = "returned"
    /\ end - begin # buffer_size
    /\ leftover' = end - begin
    /\ mem' = Moved
    /\ pc' = "read"
    /\ UNCHANGED <<begin, end, seqn, delivered, stream, taken>>

(* "decoded size seems wrong, or buffer has to be increased"               *)
BufferTooSmall ==
    /\ pc = "returned"
    /\ end - begin = buffer_size
    /\ leftover' = end - begin
    /\ pc' = "too_small"
    /\ UNCHANGED <<mem, begin, end, seqn, delivered, stream, taken>>

Next ==
    \/ Read
    \/ EndOfStream
    \/ ReadThrows
    \/ RunSequence
    \/ Compact
    \/ BufferTooSmall

Spec == Init /\ [][Next]_vars

(* One thread runs the loop and nothing in it waits: it keeps going.       *)
FairSpec == Spec /\ WF_vars(Next)
-----------------------------------------------------------------------------
Ended == {"eof", "failed", "too_small"}

(* Offset in the stream of the first byte no processor has seen. Compact   *)
(* leaves begin and end behind, and end - begin is leftover then.          *)
Position == taken - (end - begin)

TypeOK ==
    /\ stream \in Streams
    /\ mem \in Seq(Byte)
    /\ begin \in Nat
    /\ end \in Nat
    /\ taken \in Nat
    /\ leftover \in Nat
    /\ seqn \in Nat \ {0}
    /\ delivered \in Seq([seqn : Nat \ {0}, bytes : Seq(Byte)])
    /\ pc \in {"read", "sequence", "returned"} \union Ended

(* What is left for the next chunk is exactly the part of the stream that  *)
(* follows the blocks already delivered: moving it to the front of the     *)
(* buffer (reader.cpp 39-40) loses, repeats and tears no byte, and the     *)
(* bytes fake_sequence walks over are the stream's from there on.          *)
BufferMirrorsStream ==
    /\ 0 <= Position
    /\ taken <= Len(stream)
    /\ pc = "read" =>
        /\ end - begin = leftover
        /\ leftover < buffer_size
        /\ BytesAt(mem, 0, leftover) = BytesAt(stream, Position, leftover)
    /\ pc \in {"sequence", "returned"} => WindowMirrors(stream, Position)

(* The error "buffer has to be increased" (reader.cpp 37-38) is the truth: *)
(* the next block of the stream has its header in the buffer and is larger *)
(* than the whole buffer; a block that exactly fills it never raises it.   *)
TooSmallOnlyForOversizedBlock ==
    pc = "too_small" =>
        /\ Position + HeaderSize <= Len(stream)
        /\ BlockSize(stream, Position) > buffer_size

(* However chunks cut the blocks, reading through the buffer delivers what *)
(* Framing promises: the refinement maps the first unseen byte to pos and  *)
(* both ways of giving up to "failed".                                     *)
Phase ==
    IF pc = "eof" THEN "stopped"
    ELSE IF pc \in {"failed", "too_small"} THEN "failed" ELSE "reading"

Abstract == INSTANCE Framing WITH pos <- Position, phase <- Phase

RefinesFraming == Abstract!Spec

(* The loop of read_directly ends for every file: each turn either takes   *)
(* bytes from the stream or gives up.                                      *)
Termination == <>(pc \in Ended)
=============================================================================
