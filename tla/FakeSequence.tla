---------------------------- MODULE FakeSequence ----------------------------
(***************************************************************************)
(* class fake_sequence: the loop that cuts [begin, end) of a memory into   *)
(* message blocks and calls the processor for each. It is one object for   *)
(* the whole file, so seqn_ survives from one call to the next. Reading    *)
(* paths extend this module: they set begin and end, move pc to "sequence" *)
(* and take over again at "returned". Definitions that only differ from    *)
(* the one below them by a fault are the mutants of PROJECT.json.          *)
(***************************************************************************)
EXTENDS MoldBlock

VARIABLES
    mem,            \* the memory the pointers point into
    begin,          \* begin, as an offset in mem
    end,            \* end, as an offset in mem
    seqn,           \* fake_sequence::seqn_
    delivered,      \* history: the calls of proc that returned
    pc              \* control state of the reading path

SequenceInit ==
    /\ begin = 0
    /\ end = 0
    /\ seqn = 1
    /\ delivered = << >>

(* begin once decode<packet_block>, which takes it by reference, has read  *)
(* the header.                                                             *)
HeaderNotConsumed == begin
AfterHeader == begin + HeaderSize

HeaderFitsStrictly == HeaderSize < end - begin
HeaderFits == HeaderSize <= end - begin

MessageFitsStrictly == MessageSize(mem, begin) < end - AfterHeader
MessageFits == MessageSize(mem, begin) <= end - AfterHeader

(* One iteration of the loop whose call of proc returns.                   *)
Process ==
    /\ pc = "sequence"
    /\ HeaderFits
    /\ MessageFits
    /\ delivered' = Append(delivered,
           [seqn  |-> seqn,
            bytes |-> BytesAt(mem, AfterHeader, MessageSize(mem, begin))])
    /\ seqn' = seqn + 1
    /\ begin' = AfterHeader + MessageSize(mem, begin)
    /\ UNCHANGED <<mem, end, pc>>

(* proc throws: the exception leaves the loop and the reading path.        *)
ProcessThrows ==
    /\ pc = "sequence"
    /\ HeaderFits
    /\ MessageFits
    /\ pc' = "failed"
    /\ UNCHANGED <<mem, begin, end, seqn, delivered>>

(* The loop ends because not even a header is left.                        *)
HeaderCut ==
    /\ pc = "sequence"
    /\ ~HeaderFits
    /\ pc' = "returned"
    /\ UNCHANGED <<mem, begin, end, seqn, delivered>>

MessageCutWithoutBreak ==
    /\ pc = "sequence"
    /\ HeaderFits
    /\ ~MessageFits
    /\ begin' = AfterHeader - HeaderSize
    /\ UNCHANGED <<mem, end, seqn, delivered, pc>>

(* The header says more than is there: begin goes back to the header that  *)
(* decoding moved it past, and the loop breaks.                            *)
MessageCut ==
    /\ pc = "sequence"
    /\ HeaderFits
    /\ ~MessageFits
    /\ begin' = AfterHeader - HeaderSize
    /\ pc' = "returned"
    /\ UNCHANGED <<mem, end, seqn, delivered>>

(* The window [begin, end) lies in the memory and holds the bytes of s     *)
(* that start at `at`.                                                     *)
WindowMirrors(s, at) ==
    /\ begin <= end
    /\ end <= Len(mem)
    /\ BytesAt(mem, begin, end - begin) = BytesAt(s, at, end - begin)

Sequence == Process \/ ProcessThrows \/ HeaderCut \/ MessageCut
=============================================================================
