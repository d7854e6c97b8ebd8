-------------------------- MODULE UnpackThenProcess -------------------------
(***************************************************************************)
(* unpack_then_process: the archive is unpacked into a temporary file that *)
(* is mapped into memory, and fake_sequence walks the mapping afterwards.  *)
(* Two objects of the scope clean up: the mapping and, declared before it  *)
(* and so destroyed after it, the sentry that removes the file, or logs    *)
(* that it could not.                                                      *)
(***************************************************************************)
EXTENDS FakeSequence

CONSTANTS
    Streams,          \* the byte sequences a file may decompress to
    CompressedSizes   \* sizes of the archive on disk

ASSUME StreamsAssumption == Streams \subseteq Seq(Byte)
(* check_type has seen the two bytes of the gzip magic.                    *)
ASSUME SizesAssumption   == CompressedSizes \subseteq Nat \ {0, 1}

VARIABLES
    stream,       \* the decompressed content of the file
    buffer_size,  \* three times the size of the archive
    total,        \* bytes unpacked so far
    mapped,       \* the temporary file is mapped
    tempFile,     \* the temporary file exists
    sentry,       \* the sentry has not been destroyed yet
    complained,   \* "unable to remove temporary file" has been logged
    warned,       \* "bytes, was left unprocessed" has been logged
    alive         \* no signal has ended the process

scopeVars == <<mapped, tempFile, sentry, complained>>
sourceVars == <<stream, buffer_size>>
vars == <<mem, begin, end, seqn, delivered, pc, stream, buffer_size, total,
          mapped, tempFile, sentry, complained, warned, alive>>

Init ==
    /\ SequenceInit
    /\ stream \in Streams
    /\ \E size \in CompressedSizes : buffer_size = 3 * size
    /\ mem = << >>
    /\ total = 0
    /\ mapped = FALSE
    /\ tempFile = FALSE
    /\ sentry = TRUE
    /\ complained = FALSE
    /\ warned = FALSE
    /\ alive = TRUE
    /\ pc = "open"

(* A new file of buffer_size bytes, which read as zero, is mapped.         *)
Open ==
    /\ pc = "open"
    /\ mem' = [i \in 1 .. buffer_size |-> 0]
    /\ mapped' = TRUE
    /\ tempFile' = TRUE
    /\ pc' = "unpack"
    /\ UNCHANGED <<begin, end, seqn, delivered, total, sentry, complained, warned,
                   sourceVars>>

(* No name, no room or no mapping: the file may have been created before.  *)
OpenThrows ==
    /\ pc = "open"
    /\ tempFile' \in BOOLEAN
    /\ pc' = "failed"
    /\ UNCHANGED <<mem, begin, end, seqn, delivered, total, mapped, sentry,
                   complained, warned, sourceVars>>

(* boost::iostreams::read: buffer_size bytes unless the stream ends first. *)
ReadCount ==
    LET left == Len(stream) - total
    IN  IF buffer_size <= left THEN buffer_size ELSE left

StoreFits == total + ReadCount <= Len(mem)

Stored == [i \in 1 .. Len(mem) |->
              IF i \in total + 1 .. total + ReadCount THEN stream[i] ELSE mem[i]]

(* mmap.resize(size): a larger file shows zeros where it has grown.        *)
ResizedAnew(m, size) == [i \in 1 .. size |-> 0]
Resized(m, size) == [i \in 1 .. size |-> IF i <= Len(m) THEN m[i] ELSE 0]

ShortOrFull(n) == n <= buffer_size
Short(n) == n < buffer_size

(* A full read may not be the last: there has to be room for more.         *)
ReadFull ==
    /\ pc = "unpack"
    /\ total < Len(stream)
    /\ StoreFits
    /\ ~Short(ReadCount)
    /\ total' = total + ReadCount
    /\ mem' = Resized(Stored, total + ReadCount + buffer_size \div 4)
    /\ UNCHANGED <<begin, end, seqn, delivered, pc, warned, scopeVars, sourceVars>>

ReadShort ==
    /\ pc = "unpack"
    /\ total < Len(stream)
    /\ StoreFits
    /\ Short(ReadCount)
    /\ total' = total + ReadCount
    /\ mem' = Stored
    /\ end' = total + ReadCount
    /\ pc' = "sequence"
    /\ UNCHANGED <<begin, seqn, delivered, warned, scopeVars, sourceVars>>

EndOfStream ==
    /\ pc = "unpack"
    /\ total = Len(stream)
    /\ end' = total
    /\ pc' = "sequence"
    /\ UNCHANGED <<mem, begin, seqn, delivered, total, warned, scopeVars, sourceVars>>

(* Bytes are stored behind the end of the mapping. What the process does   *)
(* from here on is undefined, and nothing is said about it.                *)
ReadOutside ==
    /\ pc = "unpack"
    /\ ~StoreFits
    /\ pc' = "undefined"
    /\ UNCHANGED <<mem, begin, end, seqn, delivered, total, warned, scopeVars,
                   sourceVars>>

(* A damaged archive, or a disk without room for the larger file.          *)
UnpackThrows ==
    /\ pc = "unpack"
    /\ pc' = "failed"
    /\ UNCHANGED <<mem, begin, end, seqn, delivered, total, warned, scopeVars,
                   sourceVars>>

RunSequence == Sequence /\ UNCHANGED <<total, warned, scopeVars, sourceVars>>

LeftoverIgnored == FALSE
IsLeftover == end - begin # 0

Finish ==
    /\ pc = "returned"
    /\ warned' = IsLeftover
    /\ pc' = "finished"
    /\ UNCHANGED <<mem, begin, end, seqn, delivered, total, scopeVars, sourceVars>>

(* The scope is left by return or by an exception.                         *)
LeavingByReturn == pc = "finished"
Leaving == pc \in {"finished", "failed"}

Unmap ==
    /\ Leaving
    /\ mapped
    /\ mapped' = FALSE
    /\ UNCHANGED <<mem, begin, end, seqn, delivered, pc, total, warned, tempFile,
                   sentry, complained, sourceVars>>

DestroyedFirst == sentry
DestroyedLast  == sentry /\ ~mapped

(* remove is false both if it fails, and the file stays, and if there is   *)
(* no file; either way an error is logged and nothing is thrown.           *)
DestroySentry ==
    /\ Leaving
    /\ DestroyedLast
    /\ tempFile' \in {FALSE, tempFile}
    /\ complained' = (tempFile' = tempFile)
    /\ sentry' = FALSE
    /\ UNCHANGED <<mem, begin, end, seqn, delivered, pc, total, warned, mapped,
                   sourceVars>>

Step ==
    \/ Open
    \/ OpenThrows
    \/ ReadFull
    \/ ReadShort
    \/ EndOfStream
    \/ ReadOutside
    \/ UnpackThrows
    \/ RunSequence
    \/ Finish
    \/ Unmap
    \/ DestroySentry

Run == alive /\ Step /\ UNCHANGED alive

(* A signal ends the process: no destructor runs.                          *)
Killed ==
    /\ alive
    /\ sentry
    /\ pc # "undefined"
    /\ alive' = FALSE
    /\ UNCHANGED <<mem, begin, end, seqn, delivered, pc, total, warned, scopeVars,
                   sourceVars>>

Next == Run \/ Killed

Spec == Init /\ [][Next]_vars

(* One thread runs the function and nothing in it waits.                   *)
FairSpec == Spec /\ WF_vars(Run)
-----------------------------------------------------------------------------
(* The mapping is unpacked before anything is delivered, so the first byte *)
(* no processor has seen is the one begin points to.                       *)
Position == begin

TypeOK ==
    /\ stream \in Streams
    /\ buffer_size \in Nat \ {0}
    /\ mem \in Seq(Byte)
    /\ begin \in Nat
    /\ end \in Nat
    /\ total \in 0 .. Len(stream)
    /\ seqn \in Nat \ {0}
    /\ delivered \in Seq([seqn : Nat \ {0}, bytes : Seq(Byte)])
    /\ pc \in {"open", "unpack", "sequence", "returned", "finished", "failed",
               "undefined"}
    /\ mapped \in BOOLEAN
    /\ tempFile \in BOOLEAN
    /\ sentry \in BOOLEAN
    /\ complained \in BOOLEAN
    /\ warned \in BOOLEAN
    /\ alive \in BOOLEAN

(* Growing the file in steps (reader.cpp 64-73) keeps what is unpacked,    *)
(* and the walk starts only when the whole stream is there.                *)
MappingMirrorsStream ==
    /\ pc = "unpack" =>
        /\ total <= Len(mem)
        /\ BytesAt(mem, 0, total) = BytesAt(stream, 0, total)
    /\ pc \in {"sequence", "returned"} =>
        /\ end = Len(stream)
        /\ WindowMirrors(stream, Position)

(* The mapping is as large as a read may ask for only the first time:      *)
(* later ones ask for buffer_size bytes (reader.cpp 66) where a quarter of *)
(* that is mapped (reader.cpp 72). That is harmless exactly for a stream   *)
(* that is no longer than both together.                                   *)
OutsideOnlyForLongStream ==
    IF pc = "undefined"
    THEN Len(stream) > buffer_size + buffer_size \div 4
    ELSE pc \in {"sequence", "returned", "finished"} =>
             Len(stream) <= buffer_size + buffer_size \div 4

(* Every store of the unpacking loop stays inside the mapping.             *)
StoresInsideMapping == pc # "undefined"

(* A block cut by the end of the file is reported, and only that.          *)
TruncationReported == pc = "finished" => (warned <=> Position # Len(stream))

(* However the scope is left (reader.cpp 47-59): the file is unmapped when *)
(* its removal is tried, for not every system removes a mapped one; if it  *)
(* is left the log says so; and if the log says so it is left, unless open *)
(* threw, when there may have been no file. That a process that is killed  *)
(* leaves its file behind without a word is not excluded: the sentry is    *)
(* not destroyed then.                                                     *)
TempFileAccounted ==
    ~sentry =>
        /\ ~mapped
        /\ tempFile => complained
        /\ complained => tempFile \/ pc = "failed"

(* Unpacking first delivers what Framing promises, too. A process that is  *)
(* killed, or whose behaviour is undefined, has failed.                    *)
Phase ==
    IF pc = "finished" THEN "stopped"
    ELSE IF pc \in {"failed", "undefined"} \/ ~alive THEN "failed" ELSE "reading"

Abstract == INSTANCE Framing WITH pos <- Position, phase <- Phase

RefinesFraming == Abstract!Spec

(* The function returns or throws and both destructors have run, unless it *)
(* is killed or leaves defined behaviour.                                  *)
Termination == <>(~sentry \/ ~alive \/ pc = "undefined")
=============================================================================
