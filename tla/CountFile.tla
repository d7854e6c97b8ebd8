------------------------------ MODULE CountFile -----------------------------
(***************************************************************************)
(* The tool as it is run by default, in a release build: read_directly,    *)
(* fake_sequence and message_counter composed, from the bytes of a gzip    *)
(* file to the report. RunProcessor takes two things for granted, that the *)
(* complete blocks of the file arrive and that a block is of a type or of  *)
(* none; here the blocks are cut out of a buffer that is refilled, and the *)
(* counter decodes their bytes.                                            *)
(***************************************************************************)
EXTENDS ReadDirectly, MessageCounter

CONSTANTS
    Types,          \* the values of a first byte that are the type of a message
    SizeOfType,     \* encoded_sizeof of the messages of a type
    Undecodable     \* stands for a block that holds none of them

ASSUME TypesAssumption ==
    /\ Types \subseteq Byte
    /\ SizeOfType \in [Types -> Nat \ {0}]
    /\ Undecodable \notin Types

VARIABLES
    info,           \* the log filters let records of severity info pass
    stage,          \* control state of run, outside of read_directly
    duration,       \* what duration holds: nothing yet, or which interval
    messages_,      \* message_counter::messages_
    report          \* what done() logs, once it has

runVars == <<info, stage, duration, messages_, report>>
fileVars == <<vars, runVars>>

FileInit ==
    /\ Init
    /\ info \in BOOLEAN
    /\ stage = "check_type"
    /\ duration = "min"
    /\ messages_ = NoMessages
    /\ report = NoReport

IsGzip ==
    /\ stage = "check_type"
    /\ stage' = "try"
    /\ UNCHANGED <<vars, info, duration, messages_, report>>

(* What the decoder of the variant makes of a block: the type is its first *)
(* byte, and the rest of the message has to be there.                      *)
TypeOf(bytes) ==
    IF bytes # << >> /\ bytes[1] \in Types /\ Len(bytes) >= SizeOfType[bytes[1]]
    THEN bytes[1] ELSE Undecodable

Block == BytesAt(mem, AfterHeader, MessageSize(mem, begin))

(* proc(seqn_, begin, e): the number is incremented after the call.        *)
NumberAfter == seqn + 1
NumberPassed == seqn

(* One block reaches the counter; one that cannot be decoded leaves it as  *)
(* it is, or makes it throw.                                               *)
CountBlock ==
    /\ stage = "try"
    /\ Process
    /\ messages_' = LET t == TypeOf(Block)
                    IN  IF t \in Types THEN Counted(messages_, t, NumberPassed)
                        ELSE messages_
    /\ UNCHANGED <<stream, taken, leftover, info, stage, duration, report>>

CountThrows ==
    /\ stage = "try"
    /\ ProcessThrows
    /\ TypeOf(Block) = Undecodable
    /\ UNCHANGED <<stream, taken, leftover, runVars>>

(* The rest of read_directly.                                              *)
ReadOn ==
    /\ stage = "try"
    /\ \/ Read
       \/ ReadThrows
       \/ (HeaderCut \/ MessageCut) /\ UNCHANGED <<stream, taken, leftover>>
       \/ Compact
       \/ BufferTooSmall
    /\ UNCHANGED runVars

ReadAll ==
    /\ stage = "try"
    /\ EndOfStream
    /\ duration' = "processing"
    /\ UNCHANGED <<info, stage, messages_, report>>

(* The try block is left, and its sentry destroyed, either way.            *)
LeftRegularly == pc = "eof"
Left == pc \in Ended

LeaveTry ==
    /\ stage = "try"
    /\ Left
    /\ duration' = IF duration = "min" THEN "whole" ELSE duration
    /\ stage' = "done"
    /\ UNCHANGED <<vars, info, messages_, report>>

Done ==
    /\ stage = "done"
    /\ report' = IF info THEN ReportOf(messages_, Types) ELSE NoReport
    /\ stage' = "destroy"
    /\ UNCHANGED <<vars, info, duration, messages_>>

Destroy ==
    /\ stage = "destroy"
    /\ stage' = "exit"
    /\ UNCHANGED <<vars, info, duration, messages_, report>>

FileNext ==
    \/ IsGzip
    \/ CountBlock
    \/ CountThrows
    \/ ReadOn
    \/ ReadAll
    \/ LeaveTry
    \/ Done
    \/ Destroy

FileSpec == FileInit /\ [][FileNext]_fileVars /\ WF_fileVars(FileNext)
-----------------------------------------------------------------------------
(* The complete blocks of s that start at `at` or later, in the words of   *)
(* RunProcessor.                                                           *)
EntryOf(bytes) ==
    [type   |-> TypeOf(bytes),
     longer |-> TypeOf(bytes) \in Types /\ Len(bytes) > SizeOfType[bytes[1]]]

BlocksFrom(s) ==
    LET blocks[at \in 0 .. Len(s)] ==
            IF ~CompleteBlock(s, at, Len(s)) THEN << >>
            ELSE <<EntryOf(BytesAt(s, at + HeaderSize, MessageSize(s, at)))>>
                 \o blocks[at + BlockSize(s, at)]
    IN  blocks

BlocksOf(s) == BlocksFrom(s)[0]

AllFiles ==
    [kind   : {"gzip"},
     blocks : Seq([type : Types \union {Undecodable}, longer : BOOLEAN])]

RunPhase ==
    IF stage # "try" THEN stage
    ELSE IF pc = "eof" THEN "returned"
    ELSE IF pc \in Ended THEN "thrown" ELSE "reading"

Run == INSTANCE RunProcessor WITH
           Files        <- AllFiles,
           Processors   <- {"count"},
           file         <- [kind |-> "gzip", blocks |-> BlocksOf(stream)],
           unpack_first <- FALSE,
           processor    <- "count",
           debug        <- FALSE,
           pc           <- RunPhase,
           path         <- IF stage = "check_type" THEN "none" ELSE "read_directly",
           calls        <- Len(delivered),
           count_       <- 0,
           rows         <- [t \in Types |-> << >>],
           disk         <- [t \in Types |-> "absent"]

(* However the bytes of the file fall into the buffer, the whole tool does *)
(* what RunProcessor says of it: every complete block of the file reaches  *)
(* the counter once, under its number and as the type its bytes are of,    *)
(* reading returns only when there is none left, and done() reports that,  *)
(* or as much of it as there was before something threw.                   *)
RefinesRunProcessor == Run!Spec

(* What the bytes of the file say of the calls of the counter so far with  *)
(* a message of type t.                                                    *)
SeenAt(t) == {i \in 1 .. Len(delivered) : BlocksOf(stream)[i].type = t}

(* Where the buffer cuts the file plays no part in what done() reports,    *)
(* which is what the bytes of the file hold: of all of its blocks if       *)
(* reading has come to an end, and else of as many as were delivered, the  *)
(* first and the last of each type by their number in the file.            *)
ReportOfFile ==
    stage \in {"destroy", "exit"} =>
        /\ pc = "eof" => Len(delivered) = Len(BlocksOf(stream))
        /\ messages_ = [t \in {t \in Types : SeenAt(t) # {}} |->
                           [n     |-> Cardinality(SeenAt(t)),
                            first |-> Min(SeenAt(t)),
                            last  |-> Max(SeenAt(t))]]
        /\ info =>
               /\ report.reported = DOMAIN messages_
               /\ report.missing = Types \ report.reported
               /\ report.total = Cardinality(UNION {SeenAt(t) : t \in Types})

(* Whatever is in the file, the tool ends with a report.                   *)
AlwaysReports == <>(stage = "exit")
=============================================================================
