---------------------------- MODULE RunProcessor ----------------------------
(***************************************************************************)
(* run of one processor: construct it, with its outputs; run<Processor>    *)
(* chooses the reading path, feeds it every block of the file and tells it *)
(* when that is over, whether it ended well or with an exception; then the *)
(* outputs are closed. Blocks arrive as Framing promises: here a file is   *)
(* the sequence of its complete blocks.                                    *)
(***************************************************************************)
EXTENDS MessageCounter, FiniteSets, Sequences, Functions

CONSTANTS
    Types,          \* the message types of ITCH
    Undecodable,    \* stands for a block that holds none of them
    Files,          \* inputs: [kind |-> ..., blocks |-> ...]
    Processors      \* the processors to run, out of AllProcessors

AllProcessors == {"count", "dump", "hdf5", "parquet"}

ASSUME UndecodableAssumption == Undecodable \notin Types
ASSUME ProcessorsAssumption  == Processors \subseteq AllProcessors
ASSUME FilesAssumption ==
    Files \subseteq [kind   : {"gzip", "raw", "unreadable"},
                     blocks : Seq([type   : Types \union {Undecodable},
                                   longer : BOOLEAN])]  \* than the message in it

VARIABLES
    file,           \* the input
    unpack_first,   \* the option unpack-first
    processor,      \* which processor is run
    info,           \* the log filters let records of severity info pass
    debug,          \* the build evaluates assert
    pc,             \* control state of run
    path,           \* the reading path taken
    calls,          \* calls of the processor that returned
    duration,       \* what duration holds: nothing yet, or which interval
    messages_,      \* message_counter::messages_
    count_,         \* count_ of the other processors
    rows,           \* seqn of every row the writer of a type has taken
    report,         \* what done() logs, once it has
    disk            \* what there is of the output for the messages of a type

input == <<file, unpack_first, processor, info, debug>>
state == <<messages_, count_, rows>>
vars == <<file, unpack_first, processor, info, debug, pc, path, calls, duration, messages_,
          count_, rows, report, disk>>

Writers == {"hdf5", "parquet"}

(* What runs before this one can have left. The outputs of hdf5 are the    *)
(* data sets of one file, those of parquet are files.                      *)
Left == {d \in [Types -> {"absent", "earlier"}] :
            processor # "parquet" => \A t, u \in Types : d[t] = d[u]}

Init ==
    /\ file \in Files
    /\ unpack_first \in BOOLEAN
    /\ processor \in Processors
    /\ info \in BOOLEAN
    /\ debug \in BOOLEAN
    /\ pc = CASE processor = "hdf5" -> "truncate"
              [] processor = "parquet" -> "construct"
              [] OTHER -> "check_type"
    /\ path = "none"
    /\ calls = 0
    /\ duration = "min"
    /\ messages_ = NoMessages
    /\ count_ = 0
    /\ rows = [t \in Types |-> << >>]
    /\ report = NoReport
    /\ disk \in Left

-----------------------------------------------------------------------------
(* The constructor of hdf5_writer: the file is made anew, H5F_ACC_TRUNC,   *)
(* whatever it was, and a data set for each type in it.                    *)
KeptContent == disk
NoContent == [t \in Types |-> "absent"]

Truncate ==
    /\ pc = "truncate"
    /\ disk' = NoContent
    /\ pc' = "construct"
    /\ UNCHANGED <<input, path, calls, duration, state, report>>

TruncateThrows ==
    /\ pc = "truncate"
    /\ disk' \in {disk, NoContent}
    /\ pc' = "unwind"
    /\ UNCHANGED <<input, path, calls, duration, state, report>>

(* A data set, or the constructor of parquet_writer opens a file, which    *)
(* empties it, and starts to write it; one type after the other. They are  *)
(* complete only when they are closed.                                     *)
MakeSink(t) ==
    /\ pc = "construct"
    /\ disk[t] # "open"
    /\ disk' = [disk EXCEPT ![t] = "open"]
    /\ UNCHANGED <<input, pc, path, calls, duration, state, report>>

(* "unable to open file", or something is wrong once it is open.           *)
MakeSinkThrows(t) ==
    /\ pc = "construct"
    /\ disk[t] # "open"
    /\ disk' \in {disk, [disk EXCEPT ![t] = "broken"]}
    /\ pc' = "unwind"
    /\ UNCHANGED <<input, path, calls, duration, state, report>>

SomeOpen == \E t \in Types : disk[t] = "open"
AllOpen == \A t \in Types : disk[t] = "open"

Constructed ==
    /\ pc = "construct"
    /\ AllOpen
    /\ pc' = "check_type"
    /\ UNCHANGED <<input, path, calls, duration, state, report, disk>>

-----------------------------------------------------------------------------
(* check_type tells gzip from its first two bytes; a file that cannot be   *)
(* read has none, and is left to process_raw, which cannot open it either. *)
CheckType ==
    /\ pc = "check_type"
    /\ path' = IF file.kind # "gzip" THEN "process_raw"
               ELSE IF unpack_first THEN "unpack_then_process" ELSE "read_directly"
    /\ pc' = IF file.kind = "unreadable" THEN "thrown" ELSE "reading"
    /\ UNCHANGED <<input, calls, duration, state, report, disk>>

(* The block the processor is called with, and its seqn.                   *)
HasBlock == calls < Len(file.blocks)
seqn == calls + 1
type == file.blocks[seqn].type
longer == file.blocks[seqn].longer

(* Read, decompression, mapping: read_directly alone reads between calls.  *)
ReaderThrows ==
    /\ pc = "reading"
    /\ path = "read_directly" \/ calls = 0
    /\ pc' = "thrown"
    /\ UNCHANGED <<input, path, calls, duration, state, report, disk>>

(* assert(begin == end) behind the message, where it is compiled.          *)
Returned ==
    /\ IF debug /\ longer
       THEN pc' = "killed" /\ UNCHANGED calls
       ELSE calls' = calls + 1 /\ UNCHANGED pc
    /\ UNCHANGED <<input, path, duration, report, disk>>

CountBlock ==
    /\ pc = "reading"
    /\ processor = "count"
    /\ HasBlock
    /\ messages_' = IF type \in Types THEN Counted(messages_, type, seqn) ELSE messages_
    /\ UNCHANGED <<count_, rows>>
    /\ Returned

(* message_dumper: ++count_ is part of the line that is logged, and is not *)
(* evaluated for a record that the filters drop.                           *)
DumpBlock ==
    /\ pc = "reading"
    /\ processor = "dump"
    /\ HasBlock
    /\ type \in Types
    /\ count_' = IF info THEN count_ + 1 ELSE count_
    /\ UNCHANGED <<messages_, rows>>
    /\ Returned

RowOfCount == count_
RowOf == seqn

(* hdf5_writer and parquet_writer: push_back on the writer of the decoded  *)
(* alternative, then ++count_. Only parquet stores seqn with the row, hdf5 *)
(* rows carry it here as the history of where they came from.              *)
WriteBlock ==
    /\ pc = "reading"
    /\ processor \in Writers
    /\ HasBlock
    /\ type \in Types
    /\ rows' = [rows EXCEPT ![type] = Append(@, RowOf)]
    /\ count_' = count_ + 1
    /\ UNCHANGED messages_
    /\ Returned

(* The processor throws: on a block it cannot decode, which the counter    *)
(* may leave to handle_error, or when a row cannot be written, whether or  *)
(* not the sink has taken it.                                              *)
DecodeThrows ==
    /\ pc = "reading"
    /\ HasBlock
    /\ type = Undecodable
    /\ pc' = "thrown"
    /\ UNCHANGED <<input, path, calls, duration, state, report, disk>>

WriteThrows ==
    /\ pc = "reading"
    /\ processor \in Writers
    /\ HasBlock
    /\ type \in Types
    /\ rows' \in {rows, [rows EXCEPT ![type] = Append(@, RowOf)]}
    /\ pc' = "thrown"
    /\ UNCHANGED <<input, path, calls, duration, messages_, count_, report, disk>>

(* The path returns what it took to process, and run stores it.            *)
ReaderReturns ==
    /\ pc = "reading"
    /\ ~HasBlock
    /\ duration' = "processing"
    /\ pc' = "returned"
    /\ UNCHANGED <<input, path, calls, state, report, disk>>

(* Leaving the try block destroys on_falure_ either way; an exception is   *)
(* logged by one of the two handlers and goes no further.                  *)
SentryOverwrites(d) == "whole"
SentrySets(d) == IF d = "min" THEN "whole" ELSE d

Unhandled == pc = "returned"
Handled == pc \in {"returned", "thrown"}

LeaveTry ==
    /\ Handled
    /\ duration' = SentrySets(duration)
    /\ pc' = "done"
    /\ UNCHANGED <<input, path, calls, state, report, disk>>

DoneCounting ==
    /\ pc = "done"
    /\ processor = "count"
    /\ report' = IF info THEN ReportOf(messages_, Types) ELSE NoReport
    /\ pc' = "destroy"
    /\ UNCHANGED <<input, path, calls, duration, state, disk>>

(* done of the others: the count, of which parquet_writer says nothing.    *)
DoneElse ==
    /\ pc = "done"
    /\ processor # "count"
    /\ report' = IF info /\ processor # "parquet"
                 THEN [NoReport EXCEPT !.total = count_] ELSE NoReport
    /\ pc' = "destroy"
    /\ UNCHANGED <<input, path, calls, duration, state, disk>>

-----------------------------------------------------------------------------
(* The processor, or what there was of it when its constructor threw, goes *)
(* out of scope: its sinks write what they still hold and close, hdf5's    *)
(* before the file they are in. Nobody hears of it if that fails, unless   *)
(* it ends the program.                                                    *)
CloseSink(t) ==
    /\ pc \in {"destroy", "unwind"}
    /\ disk[t] = "open"
    /\ disk' = [disk EXCEPT ![t] = "closed"]
    /\ UNCHANGED <<input, pc, path, calls, duration, state, report>>

CloseFails(t) ==
    /\ pc \in {"destroy", "unwind"}
    /\ disk[t] = "open"
    /\ disk' = [disk EXCEPT ![t] = "broken"]
    /\ pc' \in {pc, "killed"}
    /\ UNCHANGED <<input, path, calls, duration, state, report>>

Destroyed ==
    /\ pc \in {"destroy", "unwind"}
    /\ ~SomeOpen
    /\ pc' = IF pc = "destroy" THEN "exit" ELSE "refused"
    /\ UNCHANGED <<input, path, calls, duration, state, report, disk>>

(* Ctrl-C, or the system, at any time.                                     *)
Killed ==
    /\ pc \notin {"exit", "refused", "killed"}
    /\ pc' = "killed"
    /\ UNCHANGED <<input, path, calls, duration, state, report, disk>>

Step ==
    \/ Truncate
    \/ TruncateThrows
    \/ \E t \in Types : \/ MakeSink(t)
                         \/ MakeSinkThrows(t)
                         \/ CloseSink(t)
                         \/ CloseFails(t)
    \/ Constructed
    \/ CheckType
    \/ ReaderThrows
    \/ CountBlock
    \/ DumpBlock
    \/ WriteBlock
    \/ DecodeThrows
    \/ WriteThrows
    \/ ReaderReturns
    \/ LeaveTry
    \/ DoneCounting
    \/ DoneElse
    \/ Destroyed

Next == Step \/ Killed

Spec == Init /\ [][Next]_vars

(* One thread runs all of it and nothing in it waits.                      *)
FairSpec == Spec /\ WF_vars(Step)
-----------------------------------------------------------------------------
(* The calls with a message of type t that have returned.                  *)
CallsWith(t) == {i \in 1 .. calls : file.blocks[i].type = t}

Ended == pc \in {"thrown", "done", "destroy", "exit", "killed"}

TypeOK ==
    /\ file \in Files
    /\ unpack_first \in BOOLEAN
    /\ processor \in Processors
    /\ info \in BOOLEAN
    /\ debug \in BOOLEAN
    /\ pc \in {"truncate", "construct", "unwind", "check_type", "reading", "returned",
               "thrown", "done", "destroy", "exit", "refused", "killed"}
    /\ path \in {"none", "process_raw", "unpack_then_process", "read_directly"}
    /\ calls \in 0 .. Len(file.blocks)
    /\ duration \in {"min", "processing", "whole"}
    /\ DOMAIN messages_ \subseteq Types
    /\ \A t \in DOMAIN messages_ : messages_[t] \in [n : Nat, first : Nat, last : Nat]
    /\ count_ \in Nat
    /\ rows \in [Types -> Seq(Nat \ {0})]
    /\ report \in [reported : SUBSET Types, missing : SUBSET Types, total : Nat]
    /\ disk \in [Types -> {"absent", "earlier", "open", "closed", "broken"}]

(* message_counter's statistics are those of the delivered messages: how   *)
(* many of each type, and the sequence numbers of the first and the last,  *)
(* which undecodable blocks in between use up as well.                     *)
CounterAgrees ==
    processor = "count" /\ pc # "killed" =>
        messages_ = [t \in {t \in Types : CallsWith(t) # {}} |->
                        [n     |-> Cardinality(CallsWith(t)),
                         first |-> Min(CallsWith(t)),
                         last  |-> Max(CallsWith(t))]]

(* The rows of all writers, merged by sequence number, are the delivered   *)
(* messages: each is in the writer of its type, in order, once, and none   *)
(* is missing, also of the blocks that are longer than their message. Only *)
(* the row that was being written when its sink threw, or whose block the  *)
(* assertion of a debug build did not like, may be there although its call *)
(* did not return.                                                         *)
RowsAreTheMessages ==
    processor \in Writers =>
        LET written == UNION {Range(rows[t]) : t \in Types}
        IN  /\ \/ written = 1 .. calls
               \/ Ended /\ written = 1 .. calls + 1
            /\ \A t \in Types :
                   /\ \A k \in DOMAIN rows[t] : file.blocks[rows[t][k]].type = t
                   /\ \A j, k \in DOMAIN rows[t] : j < k => rows[t][j] < rows[t][k]

(* What done() logs is what happened, also after an exception: every type  *)
(* is reported or missing, and the total is that of the messages processed.*)
ReportIsTrue ==
    pc \in {"destroy", "exit"} /\ info =>
        CASE processor = "count" ->
                /\ report.reported = {t \in Types : CallsWith(t) # {}}
                /\ report.missing = Types \ report.reported
                /\ report.total = Cardinality({i \in 1 .. calls : file.blocks[i].type \in Types})
          [] processor \in {"dump", "hdf5"} -> report.total = calls
          [] OTHER -> TRUE

(* done() is told how long processing took, or after an exception how long *)
(* the attempt took: never the minimum that duration starts as.            *)
DurationMeasured ==
    [][/\ pc = "returned" /\ pc' = "done" => duration' = "processing"
       /\ pc = "thrown" /\ pc' = "done" => duration' = "whole"]_vars

(* Nothing of an earlier run is in the outputs once the input is looked at *)
(* (hdf5_writer.cpp 53, parquet_writer.cpp 28); hdf5 gives it up at once or *)
(* not at all, while a parquet writer that cannot open one of its files    *)
(* leaves some of each run. No way to end but being killed leaves a sink   *)
(* unclosed, not even an exception in the middle of the constructor.       *)
OutputsOfOneRun ==
    processor \in Writers =>
        /\ path # "none" => \A t \in Types : disk[t] \notin {"absent", "earlier"}
        /\ processor = "hdf5" =>
               \A t, u \in Types : disk[t] = "earlier" => disk[u] = "earlier"
        /\ pc \in {"exit", "refused"} => ~SomeOpen

(* Exceptions do not keep done() from being called once there is a         *)
(* processor, whichever path reads and whatever throws, nor the outputs    *)
(* from being closed.                                                      *)
AlwaysDone ==
    /\ pc = "check_type" ~> pc \in {"done", "killed"}
    /\ <>(pc \in {"exit", "refused", "killed"})
=============================================================================
