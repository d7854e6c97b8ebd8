----------------------- MODULE UnpackThenProcessProofs ----------------------
(***************************************************************************)
(* UnpackThenProcess, for every base, set of streams and archive size: the *)
(* mapping mirrors the stream, a store leaves the mapping exactly for a    *)
(* stream that is too long for it, and Framing is refined.                 *)
(***************************************************************************)
EXTENDS UnpackThenProcess, FakeSequenceProofs

(* How much is mapped when a read is about to start: the second read is    *)
(* the last one there can be.                                              *)
MappedRoom ==
    pc = "unpack" =>
        \/ total = 0 /\ Len(mem) = buffer_size
        \/ /\ total = buffer_size
           /\ Len(mem) = buffer_size + buffer_size \div 4

NotStarted == pc \in {"open", "unpack"} => begin = 0
NotOpened  == pc = "open" => total = 0

NothingPending ==
    pc = "returned" => ~CompleteBlock(stream, begin, Len(stream))

ScopeLeft == ~sentry => Leaving

(* From the time it has been opened the sentry has a file to remove.       *)
FileIsThere == sentry /\ pc \notin {"open", "failed"} => tempFile

IInv ==
    /\ TypeOK
    /\ MappingMirrorsStream
    /\ MappedRoom
    /\ NotStarted
    /\ NotOpened
    /\ NothingPending
    /\ ScopeLeft
    /\ FileIsThere
    /\ OutsideOnlyForLongStream
    /\ TruncationReported
    /\ TempFileAccounted
    /\ seqn = Len(delivered) + 1

-----------------------------------------------------------------------------
LEMMA StreamType == ASSUME TypeOK PROVE stream \in Seq(Byte) /\ Len(stream) \in Nat
BY StreamsAssumption, LenProperties DEF TypeOK

LEMMA ZeroesType ==
    ASSUME NEW n \in Nat
    PROVE  /\ [i \in 1 .. n |-> 0] \in Seq(Byte)
           /\ Len([i \in 1 .. n |-> 0]) = n
<1>1. 0 \in Byte
  BY BaseAssumption DEF Byte
<1>2. [i \in 1 .. n |-> 0] \in [1 .. n -> Byte]
  BY <1>1
<1> QED BY <1>2, FunctionIsSeq

(* A read that fits stores the next bytes of the stream behind those       *)
(* already there, and changes no other byte of the mapping.                *)
LEMMA StoredMirrors ==
    ASSUME IInv, pc = "unpack", StoreFits
    PROVE  /\ Stored \in Seq(Byte) /\ Len(Stored) = Len(mem)
           /\ ReadCount \in Nat /\ ReadCount <= buffer_size
           /\ total + ReadCount <= Len(stream)
           /\ \A i \in 1 .. total + ReadCount : Stored[i] = stream[i]
<1>1. /\ mem \in Seq(Byte) /\ Len(mem) \in Nat /\ total \in Nat /\ buffer_size \in Nat
      /\ stream \in Seq(Byte) /\ Len(stream) \in Nat /\ total <= Len(stream)
  BY StreamType, LenProperties DEF IInv, TypeOK
<1>2. /\ ReadCount \in Nat /\ ReadCount <= buffer_size
      /\ total + ReadCount <= Len(stream)
  BY <1>1 DEF ReadCount
<1>3. \A i \in 1 .. Len(mem) :
         Stored[i] = IF i \in total + 1 .. total + ReadCount THEN stream[i] ELSE mem[i]
  BY DEF Stored
<1>4. \A i \in 1 .. Len(mem) : Stored[i] \in Byte
  <2> SUFFICES ASSUME NEW i \in 1 .. Len(mem) PROVE Stored[i] \in Byte
    OBVIOUS
  <2>1. CASE i \in total + 1 .. total + ReadCount
    <3>1. i \in 1 .. Len(stream)
      BY <1>1, <1>2, <2>1
    <3>2. stream[i] \in Byte
      BY <1>1, <3>1, ElementOfSeq
    <3> QED BY <1>3, <2>1, <3>2
  <2>2. CASE i \notin total + 1 .. total + ReadCount
    <3>1. mem[i] \in Byte
      BY <1>1, ElementOfSeq
    <3> QED BY <1>3, <2>2, <3>1
  <2> QED BY <2>1, <2>2
<1>5. Stored \in Seq(Byte) /\ Len(Stored) = Len(mem)
  <2>1. Stored \in [1 .. Len(mem) -> Byte]
    BY <1>4 DEF Stored
  <2> QED BY <1>1, <2>1, FunctionIsSeq
<1>6. \A i \in 1 .. total : mem[i] = stream[i]
  <2>1. BytesAt(mem, 0, total) = BytesAt(stream, 0, total)
    BY DEF IInv, MappingMirrorsStream
  <2> QED BY <1>1, <2>1, BytesAtFront
<1>7. ASSUME NEW i \in 1 .. total + ReadCount PROVE Stored[i] = stream[i]
  <2>1. i \in 1 .. Len(mem)
    BY <1>1, <1>2 DEF StoreFits
  <2>2. CASE i <= total
    BY <1>1, <1>3, <1>6, <2>1, <2>2
  <2>3. CASE i > total
    BY <1>1, <1>2, <1>3, <2>1, <2>3
  <2> QED BY <1>1, <2>2, <2>3
<1> QED BY <1>2, <1>5, <1>7

LEMMA ResizedType ==
    ASSUME NEW m \in Seq(Byte), NEW size \in Nat
    PROVE  /\ Resized(m, size) \in Seq(Byte) /\ Len(Resized(m, size)) = size
           /\ \A i \in 1 .. size : i <= Len(m) => Resized(m, size)[i] = m[i]
<1>1. Len(m) \in Nat /\ 0 \in Byte
  BY LenProperties, BaseAssumption DEF Byte
<1>2. \A i \in 1 .. size :
         Resized(m, size)[i] = IF i <= Len(m) THEN m[i] ELSE 0
  BY DEF Resized
<1>3. \A i \in 1 .. size : Resized(m, size)[i] \in Byte
  <2> SUFFICES ASSUME NEW i \in 1 .. size PROVE Resized(m, size)[i] \in Byte
    OBVIOUS
  <2>1. CASE i <= Len(m)
    <3>1. m[i] \in Byte
      BY <1>1, <2>1, ElementOfSeq
    <3> QED BY <1>2, <2>1, <3>1
  <2>2. CASE ~(i <= Len(m))
    BY <1>1, <1>2, <2>2
  <2> QED BY <2>1, <2>2
<1>4. Resized(m, size) \in [1 .. size -> Byte]
  BY <1>3 DEF Resized
<1> QED BY <1>2, <1>4, FunctionIsSeq

-----------------------------------------------------------------------------
(* The inductive invariant                                                 *)

LEMMA InitIInv == Init => IInv
<1> SUFFICES ASSUME Init PROVE IInv
  OBVIOUS
<1>1. buffer_size \in Nat \ {0}
  BY SizesAssumption DEF Init
<1>2. stream \in Streams /\ Len(stream) \in Nat
  BY StreamsAssumption, LenProperties DEF Init
<1>3. TypeOK
  <2>1. << >> \in Seq(Byte) /\ << >> \in Seq([seqn : Nat \ {0}, bytes : Seq(Byte)])
    BY EmptySeq
  <2>2. /\ mapped \in BOOLEAN /\ tempFile \in BOOLEAN /\ sentry \in BOOLEAN
        /\ complained \in BOOLEAN /\ warned \in BOOLEAN /\ alive \in BOOLEAN
    BY Zenon DEF Init
  <2>3. total \in 0 .. Len(stream) /\ begin \in Nat /\ end \in Nat /\ seqn \in Nat \ {0}
    BY <1>2 DEF Init, SequenceInit
  <2> QED BY <1>1, <1>2, <2>1, <2>2, <2>3 DEF Init, SequenceInit, TypeOK
<1>4. seqn = Len(delivered) + 1
  BY EmptySeq DEF Init, SequenceInit
<1> QED
  BY <1>3, <1>4
  DEF Init, SequenceInit, IInv, MappingMirrorsStream, MappedRoom, NotStarted, NotOpened,
      NothingPending, ScopeLeft, FileIsThere, OutsideOnlyForLongStream, TruncationReported,
      TempFileAccounted

LEMMA OpenKeepsIInv == ASSUME IInv, Open, alive' = alive PROVE IInv'
<1>1. /\ pc = "open" /\ pc' = "unpack" /\ mapped' = TRUE /\ tempFile' = TRUE
      /\ mem' = [i \in 1 .. buffer_size |-> 0]
      /\ UNCHANGED <<begin, end, seqn, delivered, total, sentry, complained, warned, stream,
                     buffer_size>>
  BY DEF Open, sourceVars
<1>2. buffer_size \in Nat /\ total = 0 /\ begin = 0 /\ sentry
  BY <1>1 DEF IInv, TypeOK, NotOpened, NotStarted, ScopeLeft, FileIsThere, Leaving
<1>3. mem' \in Seq(Byte) /\ Len(mem') = buffer_size
  BY <1>1, <1>2, ZeroesType
<1>4. TypeOK'
  BY <1>1, <1>3 DEF IInv, TypeOK
<1>5. BytesAt(mem', 0, 0) = BytesAt(stream, 0, 0)
  BY DEF BytesAt
<1>6. MappingMirrorsStream'
  BY <1>1, <1>2, <1>3, <1>5 DEF MappingMirrorsStream
<1> QED
  BY <1>1, <1>2, <1>3, <1>4, <1>6
  DEF IInv, MappedRoom, NotStarted, NotOpened, NothingPending, ScopeLeft, FileIsThere,
      OutsideOnlyForLongStream, TruncationReported, TempFileAccounted

(* Steps that only leave: an exception, a signal, undefined behaviour.     *)
LEMMA ThrowKeepsIInv ==
    ASSUME IInv, pc \in {"open", "unpack", "sequence"}, pc' = "failed",
           tempFile' \in BOOLEAN,
           UNCHANGED <<mem, begin, end, seqn, delivered, total, mapped, sentry,
                       complained, warned, stream, buffer_size, alive>>
    PROVE  IInv'
<1>1. TypeOK'
  BY DEF IInv, TypeOK
<1>2. sentry
  BY DEF IInv, ScopeLeft, FileIsThere, Leaving
<1> QED
  BY <1>1, <1>2
  DEF IInv, MappingMirrorsStream, MappedRoom, NotStarted, NotOpened, NothingPending,
      ScopeLeft, FileIsThere, OutsideOnlyForLongStream, TruncationReported,
      TempFileAccounted

LEMMA ReadFullKeepsIInv == ASSUME IInv, ReadFull, alive' = alive PROVE IInv'
<1> DEFINE size == total + ReadCount + buffer_size \div 4
<1>1. /\ pc = "unpack" /\ StoreFits /\ ~Short(ReadCount)
      /\ total' = total + ReadCount /\ mem' = Resized(Stored, size)
      /\ UNCHANGED <<begin, end, seqn, delivered, pc, warned, mapped, tempFile, sentry,
                     complained, stream, buffer_size>>
  BY DEF ReadFull, scopeVars, sourceVars
<1>2. /\ Stored \in Seq(Byte) /\ Len(Stored) = Len(mem)
      /\ ReadCount \in Nat /\ ReadCount <= buffer_size
      /\ total + ReadCount <= Len(stream)
      /\ \A i \in 1 .. total + ReadCount : Stored[i] = stream[i]
  BY <1>1, StoredMirrors
<1>3. /\ total \in Nat /\ buffer_size \in Nat \ {0} /\ Len(stream) \in Nat
      /\ Len(mem) \in Nat
  BY StreamType, LenProperties DEF IInv, TypeOK
<1>4. ReadCount = buffer_size /\ total = 0 /\ total' = buffer_size
      /\ buffer_size \div 4 \in Nat
  BY <1>1, <1>2, <1>3 DEF Short, StoreFits, IInv, MappedRoom
<1>5. size \in Nat /\ size = buffer_size + buffer_size \div 4
  BY <1>3, <1>4
<1> HIDE DEF size
<1>6. /\ mem' \in Seq(Byte) /\ Len(mem') = size
      /\ \A i \in 1 .. size : i <= Len(Stored) => mem'[i] = Stored[i]
  BY <1>1, <1>2, <1>5, ResizedType
<1>7. TypeOK'
  BY <1>1, <1>2, <1>3, <1>4, <1>6 DEF IInv, TypeOK
<1>8. MappingMirrorsStream'
  <2>1. \A i \in 1 .. buffer_size : mem'[i] = stream[i]
    <3> SUFFICES ASSUME NEW i \in 1 .. buffer_size PROVE mem'[i] = stream[i]
      OBVIOUS
    <3>1. total + ReadCount = buffer_size /\ buffer_size <= Len(mem) /\ buffer_size <= size
      BY <1>1, <1>3, <1>4, <1>5 DEF StoreFits
    <3>2. Stored[i] = stream[i]
      BY <1>2, <3>1
    <3>3. mem'[i] = Stored[i]
      BY <1>2, <1>3, <1>5, <1>6, <3>1
    <3> QED BY <3>2, <3>3
  <2>2. BytesAt(mem', 0, buffer_size) = BytesAt(stream, 0, buffer_size)
    BY <1>3, <2>1, BytesAtFront
  <2> QED BY <1>1, <1>3, <1>4, <1>5, <1>6, <2>2 DEF MappingMirrorsStream
<1> QED
  BY <1>1, <1>4, <1>5, <1>6, <1>7, <1>8
  DEF IInv, MappedRoom, NotStarted, NotOpened, NothingPending, ScopeLeft, FileIsThere,
      Leaving,
      OutsideOnlyForLongStream, TruncationReported, TempFileAccounted

(* Once the stream has ended the window is the whole of it.                *)
LEMMA UnpackedKeepsIInv ==
    ASSUME IInv, pc = "unpack", pc' = "sequence", end' = Len(stream),
           total' = Len(stream), Len(stream) <= Len(mem),
           mem' \in Seq(Byte), Len(mem') = Len(mem),
           \A i \in 1 .. Len(stream) : mem'[i] = stream[i],
           UNCHANGED <<begin, seqn, delivered, warned, mapped, tempFile, sentry, complained,
                       stream, buffer_size, alive>>
    PROVE  IInv'
<1>1. /\ Len(stream) \in Nat /\ begin = 0 /\ buffer_size \in Nat
      /\ buffer_size \div 4 \in Nat /\ Len(mem) \in Nat
  BY StreamType, LenProperties DEF IInv, NotStarted, TypeOK
<1>2. TypeOK'
  BY <1>1 DEF IInv, TypeOK
<1>3. BytesAt(mem', 0, Len(stream)) = BytesAt(stream, 0, Len(stream))
  BY <1>1, BytesAtFront
<1>4. MappingMirrorsStream'
  BY <1>1, <1>3 DEF MappingMirrorsStream, WindowMirrors, Position
<1>5. OutsideOnlyForLongStream'
  BY <1>1 DEF IInv, MappedRoom, OutsideOnlyForLongStream
<1> QED
  BY <1>2, <1>4, <1>5
  DEF IInv, MappedRoom, NotStarted, NotOpened, NothingPending, ScopeLeft, FileIsThere,
      Leaving,
      TruncationReported, TempFileAccounted

LEMMA ReadShortKeepsIInv == ASSUME IInv, ReadShort, alive' = alive PROVE IInv'
<1>1. /\ pc = "unpack" /\ StoreFits /\ Short(ReadCount)
  BY DEF ReadShort
<1>2. /\ Stored \in Seq(Byte) /\ Len(Stored) = Len(mem)
      /\ \A i \in 1 .. total + ReadCount : Stored[i] = stream[i]
  BY <1>1, StoredMirrors
<1>3. total + ReadCount = Len(stream)
  BY <1>1, StreamType DEF Short, ReadCount, IInv, TypeOK
<1> QED
  BY <1>1, <1>2, <1>3, UnpackedKeepsIInv
  DEF ReadShort, StoreFits, scopeVars, sourceVars

LEMMA EndOfStreamKeepsIInv == ASSUME IInv, EndOfStream, alive' = alive PROVE IInv'
<1>1. /\ pc = "unpack" /\ pc' = "sequence" /\ total = Len(stream) /\ end' = total
      /\ UNCHANGED <<mem, begin, seqn, delivered, total, warned, mapped, tempFile, sentry,
                     complained, stream, buffer_size>>
  BY DEF EndOfStream, scopeVars, sourceVars
<1>2. /\ mem \in Seq(Byte) /\ total <= Len(mem) /\ total \in Nat
      /\ BytesAt(mem, 0, total) = BytesAt(stream, 0, total)
  BY <1>1, StreamType DEF IInv, TypeOK, MappingMirrorsStream
<1>3. \A i \in 1 .. total : mem[i] = stream[i]
  BY <1>2, BytesAtFront
<1> QED BY <1>1, <1>2, <1>3, UnpackedKeepsIInv

(* Only the second read can leave the mapping.                             *)
LEMMA ReadOutsideKeepsIInv == ASSUME IInv, ReadOutside, alive' = alive PROVE IInv'
<1>1. /\ pc = "unpack" /\ pc' = "undefined" /\ ~StoreFits
      /\ UNCHANGED <<mem, begin, end, seqn, delivered, total, warned, mapped, tempFile,
                     sentry, complained, stream, buffer_size>>
  BY DEF ReadOutside, scopeVars, sourceVars
<1>2. /\ total \in Nat /\ buffer_size \in Nat \ {0} /\ Len(stream) \in Nat
      /\ total <= Len(stream) /\ Len(mem) \in Nat
  BY StreamType, LenProperties DEF IInv, TypeOK
<1>3. Len(stream) > buffer_size + buffer_size \div 4
  BY <1>1, <1>2 DEF IInv, MappedRoom, StoreFits, ReadCount
<1>4. TypeOK'
  BY <1>1 DEF IInv, TypeOK
<1> QED
  BY <1>1, <1>3, <1>4
  DEF IInv, MappingMirrorsStream, MappedRoom, NotStarted, NotOpened, NothingPending,
      ScopeLeft, FileIsThere, Leaving, OutsideOnlyForLongStream, TruncationReported,
      TempFileAccounted

LEMMA SequenceWindow ==
    ASSUME IInv, pc \in {"sequence", "returned"}
    PROVE  /\ WindowOK /\ WindowMirrors(stream, begin)
           /\ begin \in Nat /\ end = Len(stream) /\ begin + (end - begin) = Len(stream)
           /\ Len(stream) \in Nat
<1>1. WindowOK /\ Len(stream) \in Nat
  BY StreamType DEF IInv, TypeOK, WindowOK
<1>2. WindowMirrors(stream, begin) /\ end = Len(stream)
  BY DEF IInv, MappingMirrorsStream, Position
<1> QED BY <1>1, <1>2 DEF WindowOK

LEMMA ProcessKeepsIInv ==
    ASSUME IInv, Process,
           UNCHANGED <<total, warned, mapped, tempFile, sentry, complained, stream,
                       buffer_size, alive>>
    PROVE  IInv'
<1> DEFINE message == BytesAt(mem, AfterHeader, MessageSize(mem, begin))
           block   == BlockSize(stream, begin)
<1>1. /\ pc = "sequence" /\ seqn' = seqn + 1
      /\ delivered' = Append(delivered, [seqn |-> seqn, bytes |-> message])
      /\ UNCHANGED <<mem, end, pc>>
  BY DEF Process
<1>2. /\ WindowOK /\ WindowMirrors(stream, begin) /\ begin \in Nat /\ end = Len(stream)
  BY <1>1, SequenceWindow
<1>3. /\ block \in Nat \ {0} /\ begin' = begin + block /\ begin' <= end
      /\ message \in Seq(Byte)
      /\ BytesAt(mem, begin', end - begin') = BytesAt(stream, begin + block, end - begin')
  BY <1>2, ProcessAdvances
<1> HIDE DEF message, block
<1>4. begin' \in Nat
  BY <1>2, <1>3
<1>5. /\ delivered' \in Seq([seqn : Nat \ {0}, bytes : Seq(Byte)])
      /\ Len(delivered') = Len(delivered) + 1
  BY <1>1, <1>3 DEF IInv, TypeOK
<1>6. TypeOK'
  BY <1>1, <1>4, <1>5 DEF IInv, TypeOK
<1>7. BytesAt(mem, begin', end - begin') = BytesAt(stream, begin', end - begin')
  BY <1>3
<1>8. MappingMirrorsStream'
  BY <1>1, <1>2, <1>3, <1>7 DEF MappingMirrorsStream, WindowMirrors, Position
<1> QED
  BY <1>1, <1>5, <1>6, <1>8
  DEF IInv, TypeOK, MappedRoom, NotStarted, NotOpened, NothingPending, ScopeLeft,
      FileIsThere, Leaving,
      OutsideOnlyForLongStream, TruncationReported, TempFileAccounted

LEMMA CutKeepsIInv ==
    ASSUME IInv, HeaderCut \/ MessageCut,
           UNCHANGED <<total, warned, mapped, tempFile, sentry, complained, stream,
                       buffer_size, alive>>
    PROVE  IInv'
<1>1. /\ pc = "sequence" /\ pc' = "returned" /\ UNCHANGED <<mem, end, seqn, delivered>>
  BY DEF HeaderCut, MessageCut
<1>2. begin' = begin /\ ~CompleteBlock(stream, begin, Len(stream))
  BY <1>1, SequenceWindow, CutStays
<1>3. TypeOK'
  BY <1>1, <1>2 DEF IInv, TypeOK
<1>4. MappingMirrorsStream'
  BY <1>1, <1>2 DEF IInv, MappingMirrorsStream, WindowMirrors, Position
<1> QED
  BY <1>1, <1>2, <1>3, <1>4
  DEF IInv, MappedRoom, NotStarted, NotOpened, NothingPending, ScopeLeft, FileIsThere,
      Leaving,
      OutsideOnlyForLongStream, TruncationReported, TempFileAccounted, CompleteBlock

(* What is left over is what follows the last complete block.              *)
LEMMA FinishKeepsIInv == ASSUME IInv, Finish, alive' = alive PROVE IInv'
<1>1. /\ pc = "returned" /\ pc' = "finished" /\ warned' = (end - begin # 0)
      /\ UNCHANGED <<mem, begin, end, seqn, delivered, total, mapped, tempFile, sentry,
                     complained, stream, buffer_size>>
  BY DEF Finish, IsLeftover, scopeVars, sourceVars
<1>2. begin \in Nat /\ end = Len(stream) /\ Len(stream) \in Nat
  BY <1>1, SequenceWindow
<1>3. end - begin # 0 <=> begin # Len(stream)
  BY <1>2
<1>4. warned' \in BOOLEAN
  BY <1>1, Zenon
<1>5. TypeOK'
  BY <1>1, <1>4 DEF IInv, TypeOK
<1>6. TruncationReported'
  BY <1>1, <1>3 DEF TruncationReported, Position
<1> QED
  BY <1>1, <1>5, <1>6
  DEF IInv, MappingMirrorsStream, MappedRoom, NotStarted, NotOpened, NothingPending,
      ScopeLeft, FileIsThere, Leaving, OutsideOnlyForLongStream, TempFileAccounted

(* The mapping goes first, then the file: the sentry has one to remove if  *)
(* the scope is left by return, and says so if it is still there.          *)
LEMMA LeaveKeepsIInv ==
    ASSUME IInv, Unmap \/ DestroySentry, alive' = alive PROVE IInv'
<1>1. /\ Leaving
      /\ UNCHANGED <<mem, begin, end, seqn, delivered, pc, total, warned, stream,
                     buffer_size>>
  BY DEF Unmap, DestroySentry, sourceVars
<1>2. TempFileAccounted' /\ FileIsThere'
  <2>1. CASE Unmap
    <3>1. mapped' = FALSE /\ UNCHANGED <<tempFile, sentry, complained, pc>>
      BY <1>1, <2>1 DEF Unmap
    <3>2. TempFileAccounted /\ FileIsThere
      BY DEF IInv
    <3> QED BY <3>1, <3>2 DEF TempFileAccounted, FileIsThere
  <2>2. CASE DestroySentry
    <3>1. /\ sentry /\ ~mapped /\ mapped' = mapped /\ sentry' = FALSE /\ pc' = pc
          /\ tempFile' \in {FALSE, tempFile} /\ complained' = (tempFile' = tempFile)
      BY <1>1, <2>2 DEF DestroySentry, DestroyedLast
    <3>2. tempFile \in BOOLEAN /\ (tempFile \/ pc = "failed")
      BY <1>1, <3>1 DEF IInv, TypeOK, FileIsThere, Leaving
    <3>3. tempFile' => complained'
      BY <3>1, <3>2, Zenon
    <3>4. complained' => tempFile' \/ pc = "failed"
      <4>1. CASE pc = "failed"
        BY <4>1
      <4>2. CASE tempFile
        <5>1. complained' => tempFile' = tempFile
          BY <3>1
        <5> QED BY <4>2, <5>1, Zenon
      <4> QED BY <3>2, <4>1, <4>2
    <3> QED BY <3>1, <3>3, <3>4, Zenon DEF TempFileAccounted, FileIsThere
  <2> QED BY <2>1, <2>2
<1>3. /\ mapped' \in BOOLEAN /\ tempFile' \in BOOLEAN /\ sentry' \in BOOLEAN
      /\ complained' \in BOOLEAN
  BY Zenon DEF Unmap, DestroySentry, IInv, TypeOK
<1>4. TypeOK'
  BY <1>1, <1>3 DEF IInv, TypeOK
<1> QED
  BY <1>1, <1>2, <1>4
  DEF IInv, MappingMirrorsStream, WindowMirrors, Position, MappedRoom, NotStarted,
      NotOpened,
      NothingPending, ScopeLeft, Leaving, OutsideOnlyForLongStream, TruncationReported,
      CompleteBlock

LEMMA SameKeepsIInv ==
    ASSUME IInv, alive' \in BOOLEAN,
           UNCHANGED <<mem, begin, end, seqn, delivered, pc, stream, buffer_size, total,
                       mapped, tempFile, sentry, complained, warned>>
    PROVE  IInv'
<1>1. TypeOK'
  BY DEF IInv, TypeOK
<1> QED
  BY <1>1
  DEF IInv, MappingMirrorsStream, WindowMirrors, Position, MappedRoom, NotStarted,
      NotOpened, NothingPending, ScopeLeft, FileIsThere, Leaving, OutsideOnlyForLongStream,
      TruncationReported,
      TempFileAccounted, CompleteBlock

LEMMA NextKeepsIInv == IInv /\ [Next]_vars => IInv'
<1> SUFFICES ASSUME IInv, [Next]_vars PROVE IInv'
  OBVIOUS
<1>1. CASE Run
  <2> USE <1>1 DEF Run
  <2>1. CASE Open
    BY <2>1, OpenKeepsIInv
  <2>2. CASE OpenThrows
    BY <2>2, ThrowKeepsIInv DEF OpenThrows, sourceVars
  <2>3. CASE ReadFull
    BY <2>3, ReadFullKeepsIInv
  <2>4. CASE ReadShort
    BY <2>4, ReadShortKeepsIInv
  <2>5. CASE EndOfStream
    BY <2>5, EndOfStreamKeepsIInv
  <2>6. CASE ReadOutside
    BY <2>6, ReadOutsideKeepsIInv
  <2>7. CASE UnpackThrows
    BY <2>7, ThrowKeepsIInv DEF UnpackThrows, scopeVars, sourceVars, IInv, TypeOK
  <2>8. CASE RunSequence
    <3> USE <2>8 DEF RunSequence, scopeVars, sourceVars
    <3>1. CASE Process
      BY <3>1, ProcessKeepsIInv
    <3>2. CASE ProcessThrows
      BY <3>2, ThrowKeepsIInv DEF ProcessThrows, IInv, TypeOK
    <3>3. CASE HeaderCut \/ MessageCut
      BY <3>3, CutKeepsIInv
    <3> QED BY <3>1, <3>2, <3>3 DEF Sequence
  <2>9. CASE Finish
    BY <2>9, FinishKeepsIInv
  <2>10. CASE Unmap \/ DestroySentry
    BY <2>10, LeaveKeepsIInv
  <2> QED
    BY <2>1, <2>2, <2>3, <2>4, <2>5, <2>6, <2>7, <2>8, <2>9, <2>10 DEF Step
<1>2. CASE Killed
  BY <1>2, SameKeepsIInv DEF Killed, scopeVars, sourceVars
<1>3. CASE UNCHANGED vars
  BY <1>3, SameKeepsIInv DEF vars, IInv, TypeOK
<1> QED BY <1>1, <1>2, <1>3 DEF Next

-----------------------------------------------------------------------------
(* Every reachable state satisfies the inductive invariant.                *)
THEOREM Invariance == Spec => []IInv
<1> QED BY InitIInv, NextKeepsIInv, PTL DEF Spec

(* Variables keep their types.                                             *)
THEOREM TypeCorrect == Spec => []TypeOK
<1>1. IInv => TypeOK
  BY DEF IInv
<1> QED BY <1>1, Invariance, PTL

(* What is unpacked is the stream, and all of it before it is walked.      *)
THEOREM MirrorCorrect == Spec => []MappingMirrorsStream
<1>1. IInv => MappingMirrorsStream
  BY DEF IInv
<1> QED BY <1>1, Invariance, PTL

(* Stores leave the mapping for no stream but one that is longer than the  *)
(* buffer and a quarter of it, and no such stream is ever walked.          *)
THEOREM OutsideCorrect == Spec => []OutsideOnlyForLongStream
<1>1. IInv => OutsideOnlyForLongStream
  BY DEF IInv
<1> QED BY <1>1, Invariance, PTL

(* A cut block at the end of the file is reported, and nothing else is.    *)
THEOREM TruncationCorrect == Spec => []TruncationReported
<1>1. IInv => TruncationReported
  BY DEF IInv
<1> QED BY <1>1, Invariance, PTL

(* The temporary file is unmapped and removed however the scope is left,   *)
(* or the log has the error that says it is still there.                   *)
THEOREM LeavingCorrect == Spec => []TempFileAccounted
<1>1. IInv => TempFileAccounted
  BY DEF IInv
<1> QED BY <1>1, Invariance, PTL

(* Where every stream fits, every store of the loop is in the mapping.     *)
THEOREM InsideWhenShort ==
    ASSUME \A s \in Streams, size \in CompressedSizes :
               Len(s) <= 3 * size + (3 * size) \div 4
    PROVE  Spec => []StoresInsideMapping
<1> DEFINE Sized == \E size \in CompressedSizes : buffer_size = 3 * size
<1>1. Init => Sized
  BY DEF Init
<1>2. Sized /\ [Next]_vars => Sized'
  <2> SUFFICES ASSUME [Next]_vars PROVE buffer_size' = buffer_size
    OBVIOUS
  <2> QED
    BY DEF Next, Run, Step, Killed, vars, sourceVars, Open, OpenThrows, ReadFull, ReadShort,
       EndOfStream, ReadOutside, UnpackThrows, RunSequence, Finish, Unmap, DestroySentry
<1>3. IInv /\ Sized => StoresInsideMapping
  <2> SUFFICES ASSUME IInv, Sized, pc = "undefined" PROVE FALSE
    BY DEF StoresInsideMapping
  <2>1. PICK size \in CompressedSizes : buffer_size = 3 * size
    OBVIOUS
  <2>2. stream \in Streams /\ Len(stream) > buffer_size + buffer_size \div 4
    BY DEF IInv, TypeOK, OutsideOnlyForLongStream
  <2>3. Len(stream) <= buffer_size + buffer_size \div 4
    BY <2>1, <2>2
  <2>4. Len(stream) \in Nat /\ buffer_size \in Nat
    BY StreamType DEF IInv, TypeOK
  <2> QED BY <2>2, <2>3, <2>4
<1> HIDE DEF Sized
<1> QED BY <1>1, <1>2, <1>3, Invariance, PTL DEF Spec

-----------------------------------------------------------------------------
(* The refinement                                                          *)

(* Framing and the reading paths share one definition of a block.          *)
LEMMA SameBlocks ==
    /\ Abstract!HeaderSize = HeaderSize
    /\ \A m, at : Abstract!MessageSize(m, at) = MessageSize(m, at)
    /\ \A m, at : Abstract!BlockSize(m, at) = BlockSize(m, at)
    /\ \A m, at, n : Abstract!BytesAt(m, at, n) = BytesAt(m, at, n)
    /\ \A m, at, n : Abstract!CompleteBlock(m, at, n) <=> CompleteBlock(m, at, n)
BY DEF HeaderSize, MessageSize, BlockSize, BytesAt, CompleteBlock, Abstract!HeaderSize,
   Abstract!MessageSize, Abstract!BlockSize, Abstract!BytesAt, Abstract!CompleteBlock

(* Steps that neither deliver nor end are stutters.                        *)
LEMMA StutterRefines ==
    ASSUME UNCHANGED <<stream, delivered, begin>>, Phase' = Phase
    PROVE  [Abstract!Next]_(Abstract!framingVars)
BY DEF Abstract!framingVars, Position

LEMMA FailRefines ==
    ASSUME UNCHANGED <<stream, delivered, begin>>, Phase = "reading", Phase' = "failed"
    PROVE  [Abstract!Next]_(Abstract!framingVars)
BY DEF Abstract!Next, Abstract!Fail, Position

LEMMA ProcessRefines ==
    ASSUME IInv, alive, Process, UNCHANGED <<stream, alive>>
    PROVE  Abstract!Deliver
<1> DEFINE message == BytesAt(mem, AfterHeader, MessageSize(mem, begin))
           block   == BlockSize(stream, begin)
<1>1. /\ pc = "sequence" /\ pc' = pc
      /\ delivered' = Append(delivered, [seqn |-> seqn, bytes |-> message])
  BY DEF Process
<1>2. /\ CompleteBlock(stream, begin, Len(stream)) /\ begin' = begin + block
      /\ message = BytesAt(stream, begin + HeaderSize, MessageSize(stream, begin))
  BY <1>1, SequenceWindow, ProcessAdvances
<1>3. seqn = Len(delivered) + 1
  BY DEF IInv
<1>4. Phase = "reading" /\ Phase' = Phase
  BY <1>1 DEF Phase
<1> HIDE DEF message
<1> QED
  BY <1>1, <1>2, <1>3, <1>4, SameBlocks DEF Abstract!Deliver, Position

LEMMA FinishRefines ==
    ASSUME IInv, alive, Finish, UNCHANGED alive
    PROVE  Abstract!Stop
<1>1. /\ pc = "returned" /\ pc' = "finished" /\ UNCHANGED <<begin, delivered, stream>>
  BY DEF Finish, sourceVars
<1>2. ~CompleteBlock(stream, begin, Len(stream))
  BY <1>1 DEF IInv, NothingPending
<1>3. Phase = "reading" /\ Phase' = "stopped"
  BY <1>1 DEF Phase
<1> QED BY <1>1, <1>2, <1>3, SameBlocks DEF Abstract!Stop, Position

LEMMA NextRefines ==
    ASSUME IInv, [Next]_vars PROVE [Abstract!Next]_(Abstract!framingVars)
<1>1. CASE Run
  <2> USE <1>1 DEF Run
  <2>1. CASE Open \/ ReadFull \/ ReadShort \/ EndOfStream \/ Unmap \/ DestroySentry
    <3>1. UNCHANGED <<stream, delivered, begin, alive>> /\ Phase' = Phase
      BY <2>1 DEF Open, ReadFull, ReadShort, EndOfStream, Unmap, DestroySentry, Leaving,
         sourceVars, Phase
    <3> QED BY <3>1, StutterRefines
  <2>2. CASE OpenThrows \/ ReadOutside \/ UnpackThrows
    <3>1. UNCHANGED <<stream, delivered, begin>> /\ Phase = "reading" /\ Phase' = "failed"
      BY <2>2 DEF OpenThrows, ReadOutside, UnpackThrows, sourceVars, Phase
    <3> QED BY <3>1, FailRefines
  <2>3. CASE RunSequence
    <3> USE <2>3 DEF RunSequence, sourceVars
    <3>1. CASE Process
      BY <3>1, ProcessRefines DEF Abstract!Next
    <3>2. CASE ProcessThrows
      <4>1. Phase = "reading" /\ Phase' = "failed"
        BY <3>2 DEF ProcessThrows, Phase
      <4> QED BY <3>2, <4>1, FailRefines DEF ProcessThrows
    <3>3. CASE HeaderCut \/ MessageCut
      <4>1. pc = "sequence" /\ pc' = "returned" /\ delivered' = delivered
        BY <3>3 DEF HeaderCut, MessageCut
      <4>2. begin' = begin
        BY <3>3, <4>1, SequenceWindow, CutStays
      <4>3. Phase' = Phase
        BY <4>1 DEF Phase
      <4> QED BY <4>1, <4>2, <4>3, StutterRefines
    <3> QED BY <3>1, <3>2, <3>3 DEF Sequence
  <2>4. CASE Finish
    BY <2>4, FinishRefines DEF Abstract!Next
  <2> QED BY <2>1, <2>2, <2>3, <2>4 DEF Step
<1>2. CASE Killed
  <2>1. UNCHANGED <<stream, delivered, begin, pc>> /\ alive /\ alive' = FALSE
        /\ pc # "undefined"
    BY <1>2 DEF Killed, sourceVars
  <2>2. CASE pc \in {"finished", "failed"}
    <3>1. Phase' = Phase
      BY <2>1, <2>2 DEF Phase
    <3> QED BY <2>1, <3>1, StutterRefines
  <2>3. CASE pc \notin {"finished", "failed"}
    <3>1. Phase = "reading" /\ Phase' = "failed"
      BY <2>1, <2>3 DEF Phase
    <3> QED BY <2>1, <3>1, FailRefines
  <2> QED BY <2>2, <2>3
<1>3. CASE UNCHANGED vars
  <2>1. UNCHANGED <<stream, delivered, begin>> /\ Phase' = Phase
    BY <1>3 DEF vars, Phase
  <2> QED BY <2>1, StutterRefines
<1> QED BY <1>1, <1>2, <1>3 DEF Next

(* Unpacking first delivers what Framing promises, however often the       *)
(* archive makes the mapping grow, and wherever the process is killed.     *)
THEOREM Refinement == Spec => RefinesFraming
<1>1. Init => Abstract!Init
  BY DEF Init, SequenceInit, Abstract!Init, Position, Phase
<1>2. IInv /\ [Next]_vars => [Abstract!Next]_(Abstract!framingVars)
  BY NextRefines
<1> QED BY <1>1, <1>2, Invariance, PTL DEF Spec, RefinesFraming, Abstract!Spec
=============================================================================
