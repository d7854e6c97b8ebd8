----------------------------- MODULE ProcessRaw -----------------------------
(***************************************************************************)
(* process_raw: a file that is not compressed is mapped as a whole and     *)
(* walked where it lies.                                                   *)
(***************************************************************************)
EXTENDS FakeSequence

CONSTANT Streams    \* the contents a file may have

ASSUME StreamsAssumption == Streams \subseteq Seq(Byte)

VARIABLES
    stream,     \* the content of the file
    warned      \* "bytes, was left unprocessed" has been logged

vars == <<mem, begin, end, seqn, delivered, pc, stream, warned>>

Init ==
    /\ SequenceInit
    /\ stream \in Streams
    /\ mem = << >>
    /\ warned = FALSE
    /\ pc = "open"

(* The mapping is the file; an empty file cannot be mapped.                *)
Open ==
    /\ pc = "open"
    /\ stream # << >>
    /\ mem' = stream
    /\ end' = Len(stream)
    /\ pc' = "sequence"
    /\ UNCHANGED <<begin, seqn, delivered, stream, warned>>

(* No such file, no permission to write it, or nothing in it.              *)
OpenThrows ==
    /\ pc = "open"
    /\ pc' = "failed"
    /\ UNCHANGED <<mem, begin, end, seqn, delivered, stream, warned>>

RunSequence == Sequence /\ UNCHANGED <<stream, warned>>

LeftoverIgnored == FALSE
IsLeftover == end - begin # 0

Finish ==
    /\ pc = "returned"
    /\ warned' = IsLeftover
    /\ pc' = "finished"
    /\ UNCHANGED <<mem, begin, end, seqn, delivered, stream>>

Next ==
    \/ Open
    \/ OpenThrows
    \/ RunSequence
    \/ Finish

Spec == Init /\ [][Next]_vars

(* One thread runs the function and nothing in it waits.                   *)
FairSpec == Spec /\ WF_vars(Next)
-----------------------------------------------------------------------------
TypeOK ==
    /\ stream \in Streams
    /\ mem \in {<< >>, stream}
    /\ begin \in Nat
    /\ end \in Nat
    /\ seqn \in Nat \ {0}
    /\ delivered \in Seq([seqn : Nat \ {0}, bytes : Seq(Byte)])
    /\ pc \in {"open", "sequence", "returned", "finished", "failed"}
    /\ warned \in BOOLEAN

(* The walk stays inside the mapping, on the file's own bytes.             *)
MappingMirrorsStream ==
    pc \in {"sequence", "returned"} => /\ end = Len(stream)
                                       /\ WindowMirrors(stream, begin)

(* A block cut by the end of the file is reported, and only that.          *)
TruncationReported == pc = "finished" => (warned <=> begin # Len(stream))

(* Walking the mapped file delivers what Framing promises.                 *)
Phase ==
    IF pc = "finished" THEN "stopped"
    ELSE IF pc = "failed" THEN "failed" ELSE "reading"

Abstract == INSTANCE Framing WITH pos <- begin, phase <- Phase

RefinesFraming == Abstract!Spec

(* The function returns or throws.                                         *)
Termination == <>(pc \in {"finished", "failed"})
=============================================================================
