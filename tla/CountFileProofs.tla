-------------------------- MODULE CountFileProofs ---------------------------
(***************************************************************************)
(* read_directly and the tool around it, for every base, set of streams,   *)
(* size of the buffer and set of messages. The first part is about         *)
(* ReadDirectly: the type invariant, the buffer mirrors the stream,        *)
(* "buffer has to be increased" is only raised for a block that does not   *)
(* fit, and Framing is refined. The second is about CountFile: what it     *)
(* does with the bytes is what RunProcessor does with the blocks. The step *)
(* that needs an argument is a call of the counter; it takes the first of  *)
(* the blocks that are left, and these are the ones that start at the      *)
(* first unseen byte. The third takes what RunProcessorProofs has of the   *)
(* blocks to the bytes.                                                    *)
(***************************************************************************)
EXTENDS CountFile, FakeSequenceProofs, WellFoundedInduction

(* At the points where a chunk has been walked, what has been taken from   *)
(* the stream ends in an incomplete block.                                 *)
NothingPending ==
    pc \in {"read", "returned"} => ~CompleteBlock(stream, Position, taken)

BufferHoldsHeader == HeaderSize <= buffer_size

AllRead == pc = "eof" => /\ begin <= end
                         /\ taken = Len(stream)
                         /\ ~CompleteBlock(stream, Position, taken)

IInv ==
    /\ TypeOK
    /\ BufferMirrorsStream
    /\ BufferHoldsHeader
    /\ NothingPending
    /\ AllRead
    /\ TooSmallOnlyForOversizedBlock
    /\ seqn = Len(delivered) + 1

-----------------------------------------------------------------------------
(* Every stream is a sequence of bytes.                                    *)
LEMMA StreamType == ASSUME TypeOK PROVE stream \in Seq(Byte) /\ Len(stream) \in Nat
BY StreamsAssumption, LenProperties DEF TypeOK

(* While the loop of fake_sequence runs its window stands for what has     *)
(* been taken from Position on.                                            *)
LEMMA SequenceWindow ==
    ASSUME IInv, pc \in {"sequence", "returned"}
    PROVE  /\ WindowOK
           /\ WindowMirrors(stream, Position)
           /\ Position \in Nat /\ taken \in Nat /\ taken <= Len(stream)
           /\ Position + (end - begin) = taken
<1>1. WindowOK /\ taken \in Nat
  BY DEF IInv, TypeOK, WindowOK
<1>2. WindowMirrors(stream, Position) /\ 0 <= Position /\ taken <= Len(stream)
  BY DEF IInv, BufferMirrorsStream
<1> QED BY <1>1, <1>2 DEF Position, WindowOK

-----------------------------------------------------------------------------
(* The inductive invariant                                                 *)

LEMMA InitIInv == Init => IInv
<1> SUFFICES ASSUME Init PROVE IInv
  OBVIOUS
<1>1. PICK option \in BufferOptions : mem = [i \in 1 .. BufferSize(option) |-> 0]
  BY DEF Init
<1>2. BufferSize(option) \in Nat /\ HeaderSize <= BufferSize(option)
  BY MinBufferAssumption, OptionsAssumption DEF BufferSize, HeaderSize
<1>3. 0 \in Byte
  BY BaseAssumption DEF Byte
<1>4. mem \in [1 .. BufferSize(option) -> Byte]
  BY <1>1, <1>3
<1>5. mem \in Seq(Byte) /\ Len(mem) = BufferSize(option)
  BY <1>2, <1>4, FunctionIsSeq
<1>6. stream \in Seq(Byte) /\ Len(stream) \in Nat
  BY StreamsAssumption, LenProperties DEF Init
<1>7. TypeOK
  BY <1>5 DEF Init, SequenceInit, TypeOK
<1>8. Position = 0 /\ pc = "read" /\ begin = 0 /\ end = 0 /\ taken = 0 /\ leftover = 0
  BY DEF Init, SequenceInit, Position
<1>9. BufferMirrorsStream
  <2>1. BytesAt(mem, 0, 0) = BytesAt(stream, 0, 0)
    BY BytesAtEqual
  <2>2. 0 < buffer_size
    BY <1>2, <1>5 DEF buffer_size, HeaderSize
  <2> QED
    BY <1>6, <1>8, <2>1, <2>2 DEF BufferMirrorsStream
<1>10. seqn = Len(delivered) + 1
  BY EmptySeq DEF Init, SequenceInit
<1>11. NothingPending
  BY <1>8 DEF NothingPending, CompleteBlock, HeaderSize
<1> QED
  BY <1>2, <1>5, <1>7, <1>8, <1>9, <1>10, <1>11
  DEF IInv, BufferHoldsHeader, AllRead, TooSmallOnlyForOversizedBlock, buffer_size

(* A read appends to the left-over bytes the next ones of the stream.      *)
LEMMA ReadKeepsIInv == ASSUME IInv, Read PROVE IInv'
<1>1. /\ pc = "read" /\ pc' = "sequence"
      /\ begin' = 0 /\ end' = leftover + ReadCount
      /\ taken' = taken + ReadCount
      /\ UNCHANGED <<seqn, delivered, stream, leftover>>
      /\ taken < Len(stream)
  BY DEF Read
<1>2. /\ mem \in Seq(Byte) /\ leftover \in Nat /\ taken \in Nat
      /\ begin \in Nat /\ end \in Nat
      /\ end - begin = leftover /\ leftover < Len(mem)
      /\ Position \in Nat /\ Position = taken - leftover
  BY <1>1 DEF IInv, TypeOK, BufferMirrorsStream, Position, buffer_size
<1>3. /\ stream \in Seq(Byte) /\ Len(stream) \in Nat /\ Len(mem) \in Nat
  BY <1>2, StreamType, LenProperties DEF IInv
<1>4. /\ ReadCount \in Nat /\ taken + ReadCount <= Len(stream)
      /\ leftover + ReadCount <= Len(mem)
  BY <1>1, <1>2, <1>3 DEF ReadCount, ReadCountBut, buffer_size
<1>5. mem' = [i \in 1 .. Len(mem) |->
                 IF i \in leftover + 1 .. leftover + ReadCount
                 THEN stream[taken + (i - leftover)] ELSE mem[i]]
  BY DEF Read, buffer_size
<1>6. \A i \in 1 .. Len(mem) : mem'[i] \in Byte
  <2> SUFFICES ASSUME NEW i \in 1 .. Len(mem) PROVE mem'[i] \in Byte
    OBVIOUS
  <2>1. CASE i \in leftover + 1 .. leftover + ReadCount
    <3>1. taken + (i - leftover) \in 1 .. Len(stream)
      BY <1>2, <1>3, <1>4, <2>1
    <3>2. stream[taken + (i - leftover)] \in Byte
      BY <1>3, <3>1, ElementOfSeq
    <3> QED BY <1>5, <2>1, <3>2
  <2>2. CASE i \notin leftover + 1 .. leftover + ReadCount
    <3>1. mem[i] \in Byte
      BY <1>2, ElementOfSeq
    <3> QED BY <1>5, <2>2, <3>1
  <2> QED BY <2>1, <2>2
<1>7. mem' \in Seq(Byte) /\ Len(mem') = Len(mem)
  <2>1. mem' \in [1 .. Len(mem) -> Byte]
    BY <1>5, <1>6
  <2> QED BY <1>3, <2>1, FunctionIsSeq
<1>8. Position' = Position
  BY <1>1, <1>2, <1>4 DEF Position
<1>9. \A i \in 1 .. leftover : mem[i] = stream[Position + i]
  <2>1. BytesAt(mem, 0, leftover) = BytesAt(stream, Position, leftover)
    BY <1>1 DEF IInv, BufferMirrorsStream
  <2>2. \A i \in 1 .. leftover : mem[0 + i] = stream[Position + i]
    BY <1>2, <2>1, BytesAtEqual
  <2>3. \A i \in 1 .. leftover : 0 + i = i
    BY <1>2
  <2> QED BY <2>2, <2>3
<1>10. \A i \in 1 .. leftover + ReadCount : mem'[0 + i] = stream'[Position' + i]
  <2> SUFFICES ASSUME NEW i \in 1 .. leftover + ReadCount
               PROVE  mem'[i] = stream[Position + i]
    BY <1>1, <1>8, <1>2, <1>4
  <2>1. i \in 1 .. Len(mem)
    BY <1>2, <1>3, <1>4
  <2>2. CASE i <= leftover
    BY <1>2, <1>5, <1>9, <2>1, <2>2
  <2>3. CASE i > leftover
    <3>1. mem'[i] = stream[taken + (i - leftover)]
      BY <1>2, <1>4, <1>5, <2>1, <2>3
    <3>2. taken + (i - leftover) = Position + i
      BY <1>2
    <3> QED BY <3>1, <3>2
  <2> QED BY <1>2, <2>2, <2>3
<1>11. TypeOK'
  BY <1>1, <1>2, <1>4, <1>7 DEF IInv, TypeOK
<1>12. BufferMirrorsStream'
  <2>1. BytesAt(mem', begin', end' - begin') = BytesAt(stream', Position', end' - begin')
    <3>1. /\ end' - begin' = leftover + ReadCount /\ begin' = 0
          /\ Position' \in Int /\ leftover + ReadCount \in Int
      BY <1>1, <1>2, <1>4, <1>8
    <3> QED BY <1>10, <3>1, BytesAtEqual
  <2> QED
    BY <1>1, <1>2, <1>4, <1>7, <1>8, <2>1 DEF BufferMirrorsStream, WindowMirrors, buffer_size
<1> QED
  BY <1>1, <1>7, <1>11, <1>12
  DEF IInv, BufferHoldsHeader, NothingPending, AllRead,
      TooSmallOnlyForOversizedBlock, buffer_size

(* The stream is at its end: nothing was pending before, and nothing is.   *)
LEMMA EndOfStreamKeepsIInv == ASSUME IInv, EndOfStream PROVE IInv'
<1>1. /\ pc = "read" /\ pc' = "eof" /\ taken = Len(stream)
      /\ UNCHANGED <<mem, begin, end, seqn, delivered, stream, taken, leftover>>
  BY DEF EndOfStream
<1>2. TypeOK'
  BY <1>1 DEF IInv, TypeOK, Ended
<1>3. BufferMirrorsStream'
  BY <1>1 DEF IInv, BufferMirrorsStream, Position
<1>4. AllRead'
  <2>1. begin <= end
    BY <1>1 DEF IInv, TypeOK, BufferMirrorsStream
  <2> QED BY <1>1, <2>1 DEF IInv, AllRead, NothingPending, CompleteBlock, Position
<1> QED
  BY <1>1, <1>2, <1>3, <1>4
  DEF IInv, BufferHoldsHeader, NothingPending, TooSmallOnlyForOversizedBlock, buffer_size

(* An exception leaves everything behind as it is.                         *)
LEMMA ThrowKeepsIInv ==
    ASSUME IInv, pc' = "failed",
           UNCHANGED <<mem, begin, end, seqn, delivered, stream, taken, leftover>>
    PROVE  IInv'
<1>1. TypeOK'
  BY DEF IInv, TypeOK, Ended
<1>2. BufferMirrorsStream'
  BY DEF IInv, BufferMirrorsStream, Position
<1> QED
  BY <1>1, <1>2
  DEF IInv, BufferHoldsHeader, NothingPending, AllRead, TooSmallOnlyForOversizedBlock,
      buffer_size

(* A delivered block moves begin, and with it Position, past the block.    *)
LEMMA ProcessKeepsIInv ==
    ASSUME IInv, Process, UNCHANGED <<stream, taken, leftover>>
    PROVE  IInv'
<1> DEFINE size == MessageSize(mem, begin)
           message == BytesAt(mem, AfterHeader, size)
           block == BlockSize(stream, Position)
<1>1. /\ pc = "sequence" /\ seqn' = seqn + 1
      /\ delivered' = Append(delivered, [seqn |-> seqn, bytes |-> message])
      /\ UNCHANGED <<mem, end, pc, stream, taken, leftover>>
  BY DEF Process
<1>2. /\ WindowOK /\ WindowMirrors(stream, Position)
      /\ Position \in Nat /\ taken \in Nat /\ taken <= Len(stream)
  BY <1>1, SequenceWindow
<1>3. /\ block \in Nat \ {0} /\ begin' = begin + block /\ begin' <= end
      /\ message \in Seq(Byte)
      /\ BytesAt(mem, begin', end - begin')
            = BytesAt(stream, Position + block, end - begin')
  BY <1>2, ProcessAdvances
<1> HIDE DEF size, message, block
<1>4. Position' = Position + block /\ Position' \in Nat /\ begin' \in Nat
  BY <1>1, <1>2, <1>3 DEF Position, WindowOK
<1>5. /\ delivered' \in Seq([seqn : Nat \ {0}, bytes : Seq(Byte)])
      /\ Len(delivered') = Len(delivered) + 1
  BY <1>1, <1>3 DEF IInv, TypeOK
<1>6. TypeOK'
  BY <1>1, <1>4, <1>5 DEF IInv, TypeOK
<1>7. WindowMirrors(stream, Position)'
  BY <1>1, <1>2, <1>3, <1>4 DEF WindowMirrors
<1>8. BufferMirrorsStream'
  BY <1>1, <1>2, <1>4, <1>7 DEF BufferMirrorsStream
<1> QED
  BY <1>1, <1>5, <1>6, <1>8
  DEF IInv, TypeOK, BufferHoldsHeader, NothingPending, AllRead,
      TooSmallOnlyForOversizedBlock, buffer_size

(* The loop breaks: what is left is less than a block, and begin is where  *)
(* that block starts.                                                      *)
LEMMA CutKeepsIInv ==
    ASSUME IInv, HeaderCut \/ MessageCut, UNCHANGED <<stream, taken, leftover>>
    PROVE  IInv'
<1>1. /\ pc = "sequence" /\ pc' = "returned"
      /\ UNCHANGED <<mem, end, seqn, delivered, stream, taken, leftover>>
  BY DEF HeaderCut, MessageCut
<1>2. begin' = begin /\ ~CompleteBlock(stream, Position, taken)
  BY <1>1, SequenceWindow, CutStays
<1>3. TypeOK'
  BY <1>1, <1>2 DEF IInv, TypeOK
<1>4. Position' = Position
  BY <1>1, <1>2 DEF Position
<1>5. BufferMirrorsStream'
  BY <1>1, <1>2, <1>4 DEF IInv, BufferMirrorsStream, WindowMirrors
<1> QED
  BY <1>1, <1>2, <1>3, <1>4, <1>5
  DEF IInv, BufferHoldsHeader, NothingPending, AllRead, TooSmallOnlyForOversizedBlock,
      buffer_size, CompleteBlock

(* The left-over bytes are the same after they are moved to the front.     *)
LEMMA CompactKeepsIInv == ASSUME IInv, Compact PROVE IInv'
<1>1. /\ pc = "returned" /\ pc' = "read"
      /\ end - begin # buffer_size
      /\ leftover' = end - begin
      /\ mem' = Moved
      /\ UNCHANGED <<begin, end, seqn, delivered, stream, taken>>
  BY DEF Compact
<1>2. /\ begin \in Nat /\ end \in Nat /\ taken \in Nat /\ Position \in Nat
      /\ begin <= end /\ end <= Len(mem) /\ mem \in Seq(Byte) /\ Len(mem) \in Nat
      /\ end - begin < Len(mem)
  <2>1. /\ begin \in Nat /\ end \in Nat /\ taken \in Nat /\ mem \in Seq(Byte)
    BY DEF IInv, TypeOK
  <2>2. Len(mem) \in Nat
    BY <2>1, LenProperties
  <2>3. begin <= end /\ end <= Len(mem) /\ 0 <= Position
    BY <1>1 DEF IInv, BufferMirrorsStream, WindowMirrors, buffer_size
  <2> QED
    BY <1>1, <2>1, <2>2, <2>3 DEF Position, buffer_size
<1>3. \A i \in 1 .. Len(mem) :
         Moved[i] = IF i <= end - begin THEN mem[begin + i] ELSE mem[i]
  BY DEF Moved, buffer_size
<1>4. Moved \in Seq(Byte) /\ Len(Moved) = Len(mem)
  <2>1. \A i \in 1 .. Len(mem) : Moved[i] \in Byte
    <3> SUFFICES ASSUME NEW i \in 1 .. Len(mem) PROVE Moved[i] \in Byte
      OBVIOUS
    <3>1. mem[i] \in Byte
      BY <1>2, ElementOfSeq
    <3>2. CASE i <= end - begin
      <4>1. begin + i \in 1 .. Len(mem)
        BY <1>2, <3>2
      <4>2. mem[begin + i] \in Byte
        BY <1>2, <4>1, ElementOfSeq
      <4> QED BY <1>3, <3>2, <4>2
    <3> QED BY <1>3, <3>1, <3>2
  <2>2. Moved \in [1 .. Len(mem) -> Byte]
    BY <2>1 DEF Moved, buffer_size
  <2> QED BY <1>2, <2>2, FunctionIsSeq
<1>5. TypeOK'
  BY <1>1, <1>2, <1>4 DEF IInv, TypeOK
<1>6. BytesAt(mem', 0, leftover') = BytesAt(stream, Position, leftover')
  <2>1. \A i \in 1 .. end - begin : mem[begin + i] = stream[Position + i]
    BY <1>1, <1>2, BytesAtEqual DEF IInv, BufferMirrorsStream, WindowMirrors
  <2>2. \A i \in 1 .. leftover' : mem'[0 + i] = stream[Position + i]
    BY <1>1, <1>2, <1>3, <2>1
  <2> QED BY <1>1, <1>2, <2>2, BytesAtEqual
<1>7. BufferMirrorsStream'
  BY <1>1, <1>2, <1>4, <1>6 DEF IInv, BufferMirrorsStream, Position, buffer_size
<1> QED
  BY <1>1, <1>4, <1>5, <1>7
  DEF IInv, BufferHoldsHeader, NothingPending, AllRead, TooSmallOnlyForOversizedBlock,
      buffer_size, CompleteBlock, Position

(* The error is raised with a full buffer that starts with a header, and   *)
(* the block of that header does not fit.                                  *)
LEMMA TooSmallKeepsIInv == ASSUME IInv, BufferTooSmall PROVE IInv'
<1>1. /\ pc = "returned" /\ pc' = "too_small"
      /\ end - begin = buffer_size
      /\ leftover' = end - begin
      /\ UNCHANGED <<mem, begin, end, seqn, delivered, stream, taken>>
  BY DEF BufferTooSmall
<1>2. /\ begin \in Nat /\ end \in Nat /\ taken \in Nat /\ Position \in Nat
      /\ begin <= end /\ taken <= Len(stream) /\ Len(stream) \in Nat
  BY <1>1, StreamType DEF IInv, TypeOK, BufferMirrorsStream, WindowMirrors, Position
<1>3. HeaderFits
  BY <1>1 DEF IInv, BufferHoldsHeader, HeaderFits
<1>4. ~MessageFits /\ MessageSize(mem, begin) = MessageSize(stream, Position)
      /\ MessageSize(mem, begin) \in Nat
  BY <1>1, <1>3, SequenceWindow, HeaderMirrors DEF IInv, NothingPending
<1>5. BlockSize(stream, Position) > end - begin /\ Position + HeaderSize <= taken
  BY <1>2, <1>3, <1>4
  DEF BlockSize, MessageFits, HeaderFits, AfterHeader, HeaderSize, Position
<1>6. TooSmallOnlyForOversizedBlock'
  BY <1>1, <1>2, <1>4, <1>5
  DEF TooSmallOnlyForOversizedBlock, BlockSize, MessageSize, Position, buffer_size, HeaderSize
<1>7. TypeOK'
  BY <1>1, <1>2 DEF IInv, TypeOK, Ended
<1>8. BufferMirrorsStream'
  BY <1>1 DEF IInv, BufferMirrorsStream, Position
<1> QED
  BY <1>1, <1>6, <1>7, <1>8
  DEF IInv, BufferHoldsHeader, NothingPending, AllRead, buffer_size

LEMMA NextKeepsIInv == IInv /\ [Next]_vars => IInv'
<1> SUFFICES ASSUME IInv, [Next]_vars PROVE IInv'
  OBVIOUS
<1>1. CASE Read
  BY <1>1, ReadKeepsIInv
<1>2. CASE EndOfStream
  BY <1>2, EndOfStreamKeepsIInv
<1>3. CASE ReadThrows
  BY <1>3, ThrowKeepsIInv DEF ReadThrows
<1>4. CASE RunSequence
  <2>1. CASE Process
    BY <1>4, <2>1, ProcessKeepsIInv DEF RunSequence
  <2>2. CASE ProcessThrows
    BY <1>4, <2>2, ThrowKeepsIInv DEF RunSequence, ProcessThrows
  <2>3. CASE HeaderCut \/ MessageCut
    BY <1>4, <2>3, CutKeepsIInv DEF RunSequence
  <2> QED BY <1>4, <2>1, <2>2, <2>3 DEF RunSequence, Sequence
<1>5. CASE Compact
  BY <1>5, CompactKeepsIInv
<1>6. CASE BufferTooSmall
  BY <1>6, TooSmallKeepsIInv
<1>7. CASE UNCHANGED vars
  BY <1>7 DEF vars, IInv, TypeOK, BufferMirrorsStream, WindowMirrors, BufferHoldsHeader, NothingPending,
     AllRead, TooSmallOnlyForOversizedBlock, Position, buffer_size, CompleteBlock
<1> QED BY <1>1, <1>2, <1>3, <1>4, <1>5, <1>6, <1>7 DEF Next

-----------------------------------------------------------------------------
(* Every reachable state satisfies the inductive invariant.                *)
THEOREM Invariance == Spec => []IInv
<1> QED BY InitIInv, NextKeepsIInv, PTL DEF Spec

(* Variables keep their types: offsets never go negative and the memory    *)
(* and everything delivered consist of bytes.                              *)
THEOREM TypeCorrect == Spec => []TypeOK
<1>1. IInv => TypeOK
  BY DEF IInv
<1> QED BY <1>1, Invariance, PTL

(* Whatever the sizes of chunks and blocks, the bytes in the buffer are    *)
(* those of the stream that no processor has seen yet.                     *)
THEOREM MirrorCorrect == Spec => []BufferMirrorsStream
<1>1. IInv => BufferMirrorsStream
  BY DEF IInv
<1> QED BY <1>1, Invariance, PTL

(* For every buffer size "buffer has to be increased" is only raised for a *)
(* block that is larger than the buffer.                                   *)
THEOREM TooSmallCorrect == Spec => []TooSmallOnlyForOversizedBlock
<1>1. IInv => TooSmallOnlyForOversizedBlock
  BY DEF IInv
<1> QED BY <1>1, Invariance, PTL

-----------------------------------------------------------------------------
(* The refinement                                                          *)

(* Framing and the reading paths share one definition of a block.          *)
LEMMA SameBlocks ==
    /\ Abstract!HeaderSize = HeaderSize
    /\ \A m, at : Abstract!MessageSize(m, at) = MessageSize(m, at)
    /\ \A m, at : Abstract!BlockSize(m, at) = BlockSize(m, at)
    /\ \A m, at, n : Abstract!BytesAt(m, at, n) = BytesAt(m, at, n)
    /\ \A m, at, n : Abstract!CompleteBlock(m, at, n) <=> CompleteBlock(m, at, n)
BY DEF HeaderSize, MessageSize, BlockSize, BytesAt, CompleteBlock, Abstract!HeaderSize,
   Abstract!MessageSize, Abstract!BlockSize, Abstract!BytesAt, Abstract!CompleteBlock

(* A file that has not been read maps to one that has not been read.       *)
LEMMA InitRefines == Init => Abstract!Init
BY DEF Init, SequenceInit, Abstract!Init, Position, Phase

(* A step in which nothing changes but chunks and buffer is a stutter.     *)
LEMMA StutterRefines ==
    ASSUME UNCHANGED <<stream, delivered>>, Position' = Position, Phase' = Phase
    PROVE  [Abstract!Next]_(Abstract!framingVars)
BY DEF Abstract!framingVars

(* A call of the processor is a delivery of the next block of the stream.  *)
LEMMA ProcessRefines ==
    ASSUME IInv, Process, UNCHANGED <<stream, taken, leftover>>
    PROVE  Abstract!Deliver
<1> DEFINE message == BytesAt(mem, AfterHeader, MessageSize(mem, begin))
           block   == BlockSize(stream, Position)
<1>1. /\ pc = "sequence" /\ pc' = pc
      /\ delivered' = Append(delivered, [seqn |-> seqn, bytes |-> message])
      /\ UNCHANGED <<mem, end, stream, taken>>
  BY DEF Process
<1>2. /\ WindowOK /\ WindowMirrors(stream, Position)
      /\ Position \in Nat /\ taken \in Nat /\ taken <= Len(stream)
      /\ Position + (end - begin) = taken
  BY <1>1, SequenceWindow
<1>3. /\ CompleteBlock(stream, Position, taken)
      /\ block \in Nat \ {0} /\ begin' = begin + block
      /\ message = BytesAt(stream, Position + HeaderSize, MessageSize(stream, Position))
  BY <1>2, ProcessAdvances
<1>4. CompleteBlock(stream, Position, Len(stream))
  <2>1. MessageSize(stream, Position) \in Nat
    BY <1>2, HeaderMirrors DEF Process
  <2> QED BY <1>2, <1>3, <2>1, StreamType DEF IInv, CompleteBlock, HeaderSize
<1> HIDE DEF message, block
<1>5. Position' = Position + block
  BY <1>1, <1>2, <1>3 DEF Position, WindowOK
<1>6. Phase = "reading" /\ Phase' = Phase
  BY <1>1 DEF Phase
<1>7. seqn = Len(delivered) + 1
  BY DEF IInv
<1> QED
  BY <1>1, <1>3, <1>4, <1>5, <1>6, <1>7, SameBlocks DEF Abstract!Deliver, block

(* Reading ends without an error only where no block is complete.          *)
LEMMA EndOfStreamRefines == ASSUME IInv, EndOfStream PROVE Abstract!Stop
<1>1. /\ pc = "read" /\ pc' = "eof" /\ taken = Len(stream)
      /\ UNCHANGED <<begin, end, delivered, stream, taken>>
  BY DEF EndOfStream
<1>2. ~CompleteBlock(stream, Position, Len(stream))
  BY <1>1 DEF IInv, NothingPending
<1>3. Position' = Position /\ Phase = "reading" /\ Phase' = "stopped"
  BY <1>1 DEF Position, Phase
<1> QED BY <1>1, <1>2, <1>3, SameBlocks DEF Abstract!Stop

(* Both exceptions, and the one of a full buffer, are failures.            *)
LEMMA FailRefines ==
    ASSUME pc \in {"read", "sequence", "returned"}, pc' \in {"failed", "too_small"},
           UNCHANGED <<begin, end, delivered, stream, taken>>
    PROVE  Abstract!Fail
<1>1. Position' = Position
  BY DEF Position
<1>2. Phase = "reading" /\ Phase' = "failed"
  BY DEF Phase
<1> QED BY <1>1, <1>2 DEF Abstract!Fail

LEMMA NextRefines ==
    ASSUME IInv, [Next]_vars PROVE [Abstract!Next]_(Abstract!framingVars)
<1>1. CASE Read
  <2>1. taken \in Nat /\ leftover \in Nat /\ ReadCount \in Int /\ end - begin = leftover
    BY <1>1, StreamType, LenProperties
    DEF Read, IInv, TypeOK, BufferMirrorsStream, ReadCount, ReadCountBut, buffer_size
  <2>2. Position' = Position
    BY <1>1, <2>1 DEF Read, Position
  <2>3. Phase' = Phase
    BY <1>1 DEF Read, Phase
  <2> QED BY <1>1, <2>2, <2>3, StutterRefines DEF Read
<1>2. CASE EndOfStream
  BY <1>2, EndOfStreamRefines DEF Abstract!Next
<1>3. CASE ReadThrows
  BY <1>3, FailRefines DEF ReadThrows, Abstract!Next
<1>4. CASE RunSequence
  <2>1. CASE Process
    BY <1>4, <2>1, ProcessRefines DEF RunSequence, Abstract!Next
  <2>2. CASE ProcessThrows
    BY <1>4, <2>2, FailRefines DEF RunSequence, ProcessThrows, Abstract!Next
  <2>3. CASE HeaderCut \/ MessageCut
    <3>1. /\ pc = "sequence" /\ pc' = "returned" /\ UNCHANGED <<end, delivered, stream, taken>>
      BY <1>4, <2>3 DEF RunSequence, HeaderCut, MessageCut
    <3>2. begin' = begin
      BY <2>3, <3>1, SequenceWindow, CutStays
    <3>3. Position' = Position /\ Phase' = Phase
      BY <3>1, <3>2 DEF Position, Phase
    <3> QED BY <3>1, <3>3, StutterRefines
  <2> QED BY <1>4, <2>1, <2>2, <2>3 DEF RunSequence, Sequence
<1>5. CASE Compact
  <2>1. Position' = Position /\ Phase' = Phase
    BY <1>5 DEF Compact, Position, Phase
  <2> QED BY <1>5, <2>1, StutterRefines DEF Compact
<1>6. CASE BufferTooSmall
  BY <1>6, FailRefines DEF BufferTooSmall, Abstract!Next
<1>7. CASE UNCHANGED vars
  <2>1. Position' = Position /\ Phase' = Phase
    BY <1>7 DEF vars, Position, Phase
  <2> QED BY <1>7, <2>1, StutterRefines DEF vars
<1> QED BY <1>1, <1>2, <1>3, <1>4, <1>5, <1>6, <1>7 DEF Next

(* Reading through a buffer of any size, with chunks cutting blocks at any *)
(* byte, delivers what Framing promises: every block once, in order, under *)
(* its number, and no ending but the promised ones.                        *)
THEOREM Refinement == Spec => RefinesFraming
<1>1. Init => Abstract!Init
  BY InitRefines
<1>2. IInv /\ [Next]_vars => [Abstract!Next]_(Abstract!framingVars)
  BY NextRefines
<1> QED BY <1>1, <1>2, Invariance, PTL DEF Spec, RefinesFraming, Abstract!Spec

-----------------------------------------------------------------------------
(* The tool                                                                *)

Entry == [type : Types \union {Undecodable}, longer : BOOLEAN]

(* The blocks of the file that have not been delivered, and where they are *)
(* in the list of all.                                                     *)
BlocksLeft == BlocksFrom(stream)[Position]

BlocksAreNext ==
    /\ Len(BlocksOf(stream)) = Len(delivered) + Len(BlocksLeft)
    /\ \A i \in 1 .. Len(BlocksLeft) :
           BlocksOf(stream)[Len(delivered) + i] = BlocksLeft[i]

(* Nothing is read before the file is known to be an archive.              *)
ReadingLater == stage = "check_type" => pc = "read"

FileIInv ==
    /\ IInv
    /\ ReadingLater
    /\ BlocksAreNext

-----------------------------------------------------------------------------
(* The list of blocks                                                      *)

(* A set with 0 and with the successor of each of its numbers has them all.*)
LEMMA NatSetInduction ==
    ASSUME NEW S, 0 \in S, \A n \in Nat : n \in S => n + 1 \in S
    PROVE  Nat \subseteq S
<1> DEFINE R == OpToRel(<, Nat)
           T == Nat \ S
<1>1. IsWellFoundedOn(R, Nat)
  BY NatLessThanWellFounded
<1>2. \A n \in Nat \ {0} : <<n - 1, n>> \in R
  BY DEF OpToRel
<1> HIDE DEF R
<1> SUFFICES ASSUME T # {} PROVE FALSE
  OBVIOUS
<1>3. PICK m \in T : \A n \in T : ~ (<<n, m>> \in R)
  BY <1>1, WFMin
<1>4. m \in Nat \ {0} /\ m - 1 \in Nat
  OBVIOUS
<1>5. m - 1 \in S
  BY <1>2, <1>3, <1>4
<1> QED BY <1>4, <1>5

(* A complete block ends in the stream, and the next may start there.      *)
LEMMA CompleteBlockEnds ==
    ASSUME NEW s \in Seq(Byte), NEW at \in 0 .. Len(s), CompleteBlock(s, at, Len(s))
    PROVE  at + BlockSize(s, at) \in at + 1 .. Len(s)
<1>1. Len(s) \in Nat /\ at \in Nat
  BY LenProperties
<1>2. MessageSize(s, at) \in Nat
  BY <1>1, MessageSizeType DEF CompleteBlock
<1> QED BY <1>1, <1>2 DEF CompleteBlock, BlockSize, HeaderSize

(* A block is of a type or of none.                                        *)
LEMMA EntryType == \A bytes : EntryOf(bytes) \in Entry
<1> TAKE bytes
<1>1. TypeOf(bytes) \in Types \union {Undecodable}
  BY DEF TypeOf
<1> QED BY <1>1 DEF EntryOf, Entry

(* What the recursive function in BlocksFrom is at one place.              *)
Listed(s, at, blocks) ==
    IF ~CompleteBlock(s, at, Len(s)) THEN << >>
    ELSE <<EntryOf(BytesAt(s, at + HeaderSize, MessageSize(s, at)))>>
         \o blocks[at + BlockSize(s, at)]

(* There is such a function: it is made from the end of the stream on.     *)
LEMMA BlocksExist ==
    ASSUME NEW s \in Seq(Byte)
    PROVE  \E f : f = [at \in 0 .. Len(s) |-> Listed(s, at, f)]
<1> DEFINE L == Len(s)
           Good(n, f) == f = [at \in L - n .. L |-> Listed(s, at, f)]
           S == {n \in Nat : n <= L => \E f : Good(n, f)}
<1>1. L \in Nat
  BY LenProperties
<1>2. 0 \in S
  <2>1. ~CompleteBlock(s, L, L)
    BY <1>1, CompleteBlockEnds
  <2>2. Good(0, [at \in {L} |-> << >>])
    BY <1>1, <2>1 DEF Listed
  <2> QED BY <2>2
<1>3. ASSUME NEW n \in Nat, n \in S PROVE n + 1 \in S
  <2> SUFFICES ASSUME n + 1 <= L PROVE \E f : Good(n + 1, f)
    OBVIOUS
  <2>1. PICK f : Good(n, f)
    BY <1>1, <1>3
  <2> DEFINE first == L - (n + 1)
             g == [at \in first .. L |-> IF at = first THEN Listed(s, first, f) ELSE f[at]]
  <2>2. first \in 0 .. L /\ L - n = first + 1
    BY <1>1
  <2> HIDE DEF first
  <2>3. ASSUME NEW at \in first .. L PROVE Listed(s, at, f) = Listed(s, at, g)
    <3>1. CASE CompleteBlock(s, at, L)
      <4>1. at \in 0 .. L
        BY <1>1, <2>2
      <4>2. at + BlockSize(s, at) \in at + 1 .. L
        BY <3>1, <4>1, CompleteBlockEnds
      <4>3. g[at + BlockSize(s, at)] = f[at + BlockSize(s, at)]
        <5> DEFINE next == at + BlockSize(s, at)
        <5>1. next \in first .. L /\ next # first
          BY <1>1, <2>2, <4>1, <4>2
        <5> HIDE DEF next
        <5>2. g[next] = f[next]
          BY <5>1
        <5> QED BY <5>2 DEF next
      <4> QED BY <4>3 DEF Listed
    <3>2. CASE ~CompleteBlock(s, at, L)
      BY <3>2 DEF Listed
    <3> QED BY <3>1, <3>2
  <2>4. ASSUME NEW at \in first .. L PROVE g[at] = Listed(s, at, f)
    <3>1. CASE at = first
      BY <3>1
    <3>2. CASE at # first
      <4>1. at \in L - n .. L
        BY <1>1, <2>2, <3>2
      <4>2. f[at] = Listed(s, at, f)
        BY <2>1, <4>1
      <4> QED BY <3>2, <4>2
    <3> QED BY <3>1, <3>2
  <2>5. g = [at \in first .. L |-> Listed(s, at, g)]
    <3>1. \A at \in first .. L : g[at] = Listed(s, at, g)
      BY <2>3, <2>4
    <3> DEFINE h == [at \in first .. L |-> Listed(s, at, g)]
    <3>2. \A at \in first .. L : g[at] = h[at]
      BY <3>1
    <3>3. g = [at \in first .. L |-> g[at]]
      OBVIOUS
    <3> HIDE DEF g
    <3> QED BY <3>1, <3>3
  <2> HIDE DEF g
  <2> QED BY <2>5 DEF first
<1> HIDE DEF S
<1>4. L \in S
  BY <1>1, <1>2, <1>3, NatSetInduction
<1>5. PICK f : Good(L, f)
  BY <1>4 DEF S
<1>6. L - L = 0
  BY <1>1
<1> QED BY <1>5, <1>6

(* BlocksFrom is one.                                                      *)
LEMMA BlocksFromIs ==
    ASSUME NEW s \in Seq(Byte)
    PROVE  BlocksFrom(s) = [at \in 0 .. Len(s) |-> Listed(s, at, BlocksFrom(s))]
<1>1. BlocksFrom(s) = CHOOSE f : f = [at \in 0 .. Len(s) |-> Listed(s, at, f)]
  BY Zenon DEF BlocksFrom, Listed
<1>2. \E f : f = [at \in 0 .. Len(s) |-> Listed(s, at, f)]
  BY BlocksExist
<1> QED BY <1>1, <1>2, Zenon

(* It holds lists of blocks.                                               *)
LEMMA BlocksFromType ==
    ASSUME NEW s \in Seq(Byte), NEW at \in 0 .. Len(s)
    PROVE  BlocksFrom(s)[at] \in Seq(Entry)
<1> DEFINE L == Len(s)
           B == BlocksFrom(s)
           S == {n \in Nat : \A k \in 0 .. L : L - k <= n => B[k] \in Seq(Entry)}
<1>1. L \in Nat
  BY LenProperties
<1>2. \A k \in 0 .. L : B[k] = Listed(s, k, B)
  BY BlocksFromIs
<1>3. ASSUME NEW k \in 0 .. L,
             \A j \in k + 1 .. L : B[j] \in Seq(Entry)
      PROVE  B[k] \in Seq(Entry)
  <2>1. CASE CompleteBlock(s, k, L)
    <3> DEFINE entry == EntryOf(BytesAt(s, k + HeaderSize, MessageSize(s, k)))
               rest  == B[k + BlockSize(s, k)]
    <3>1. k + BlockSize(s, k) \in k + 1 .. L
      BY <2>1, CompleteBlockEnds
    <3>2. rest \in Seq(Entry) /\ entry \in Entry
      BY <1>3, <3>1, EntryType
    <3>3. B[k] = <<entry>> \o rest
      BY <1>2, <2>1 DEF Listed
    <3> HIDE DEF entry, rest
    <3> QED BY <3>2, <3>3
  <2>2. CASE ~CompleteBlock(s, k, L)
    <3>1. B[k] = << >>
      BY <1>2, <2>2, Zenon DEF Listed
    <3> HIDE DEF B
    <3> QED BY <3>1
  <2> QED BY <2>1, <2>2
<1> HIDE DEF B
<1>4. 0 \in S
  BY <1>1, <1>3
<1>5. ASSUME NEW n \in Nat, n \in S PROVE n + 1 \in S
  <2> SUFFICES ASSUME NEW k \in 0 .. L, L - k <= n + 1 PROVE B[k] \in Seq(Entry)
    OBVIOUS
  <2>1. \A j \in k + 1 .. L : j \in 0 .. L /\ L - j <= n
    BY <1>1
  <2> QED BY <1>3, <1>5, <2>1
<1> HIDE DEF S
<1>6. L - at \in S
  <2>1. L - at \in Nat
    BY <1>1
  <2> QED BY <1>4, <1>5, <2>1, NatSetInduction
<1> QED BY <1>1, <1>6 DEF S, B

(* No block is left where none is complete; where one is it is the first   *)
(* of those left, and the others start behind it.                          *)
LEMMA NoBlockLeft ==
    ASSUME NEW s \in Seq(Byte), NEW at \in 0 .. Len(s), ~CompleteBlock(s, at, Len(s))
    PROVE  BlocksFrom(s)[at] = << >>
BY BlocksFromIs DEF Listed

LEMMA BlockLeft ==
    ASSUME NEW s \in Seq(Byte), NEW at \in 0 .. Len(s), CompleteBlock(s, at, Len(s)),
           NEW next, next = at + BlockSize(s, at)
    PROVE  /\ next \in 0 .. Len(s)
           /\ Len(BlocksFrom(s)[next]) \in Nat
           /\ Len(BlocksFrom(s)[at]) = Len(BlocksFrom(s)[next]) + 1
           /\ BlocksFrom(s)[at][1] = EntryOf(BytesAt(s, at + HeaderSize, MessageSize(s, at)))
           /\ \A i \in 1 .. Len(BlocksFrom(s)[next]) :
                  BlocksFrom(s)[at][i + 1] = BlocksFrom(s)[next][i]
<1> DEFINE entry == EntryOf(BytesAt(s, at + HeaderSize, MessageSize(s, at)))
           rest  == BlocksFrom(s)[next]
<1>1. next \in 0 .. Len(s)
  <2>1. Len(s) \in Nat
    BY LenProperties
  <2> QED BY <2>1, CompleteBlockEnds
<1>2. BlocksFrom(s)[at] = <<entry>> \o rest
  BY BlocksFromIs DEF Listed
<1>3. rest \in Seq(Entry) /\ entry \in Entry
  BY <1>1, BlocksFromType, EntryType
<1> HIDE DEF entry
<1>4. /\ Len(rest) \in Nat
      /\ Len(<<entry>> \o rest) = Len(rest) + 1
      /\ (<<entry>> \o rest)[1] = entry
      /\ \A i \in 1 .. Len(rest) : (<<entry>> \o rest)[i + 1] = rest[i]
  <2> DEFINE one == <<entry>>
  <2>1. one \in Seq(Entry) /\ Len(one) = 1 /\ one[1] = entry
    BY <1>3
  <2> HIDE DEF rest, one
  <2>2. Len(rest) \in Nat
    BY <1>3, LenProperties
  <2>3. /\ Len(one \o rest) = Len(one) + Len(rest)
        /\ \A k \in 1 .. Len(one) + Len(rest) :
               (one \o rest)[k] = IF k <= Len(one) THEN one[k] ELSE rest[k - Len(one)]
    BY <1>3, <2>1, ConcatProperties
  <2>4. \A i \in 1 .. Len(rest) : (one \o rest)[i + 1] = rest[i]
    <3> TAKE i \in 1 .. Len(rest)
    <3>1. /\ i + 1 \in 1 .. Len(one) + Len(rest)
          /\ ~ (i + 1 <= Len(one)) /\ (i + 1) - Len(one) = i
      BY <2>1, <2>2
    <3> QED BY <2>3, <3>1
  <2>5. (one \o rest)[1] = entry
    BY <2>1, <2>2, <2>3
  <2> QED BY <2>1, <2>2, <2>3, <2>4, <2>5 DEF one
<1> QED BY <1>1, <1>2, <1>4 DEF entry

-----------------------------------------------------------------------------
(* The invariant                                                           *)

(* Whatever the tool does, read_directly makes a step of its own or none.  *)
LEMMA ReadsDirectly == [FileNext]_fileVars => [Next]_vars
<1> SUFFICES ASSUME [FileNext]_fileVars PROVE [Next]_vars
  OBVIOUS
<1>1. CASE CountBlock
  BY <1>1 DEF CountBlock, Next, RunSequence, Sequence
<1>2. CASE CountThrows
  BY <1>2 DEF CountThrows, Next, RunSequence, Sequence
<1>3. CASE ReadOn
  BY <1>3 DEF ReadOn, Next, RunSequence, Sequence
<1>4. CASE ReadAll
  BY <1>4 DEF ReadAll, Next
<1>5. CASE IsGzip \/ LeaveTry \/ Done \/ Destroy \/ UNCHANGED fileVars
  BY <1>5 DEF IsGzip, LeaveTry, Done, Destroy, fileVars
<1> QED BY <1>1, <1>2, <1>3, <1>4, <1>5 DEF FileNext

(* No block is left where none is complete.                                *)
LEMMA NoBlocksLeft ==
    ASSUME IInv, Position \in 0 .. Len(stream),
           ~CompleteBlock(stream, Position, Len(stream)), BlocksAreNext
    PROVE  Len(BlocksOf(stream)) = Len(delivered)
<1>1. stream \in Seq(Byte)
  BY StreamType DEF IInv
<1>2. Len(BlocksLeft) = 0
  BY <1>1, NoBlockLeft DEF BlocksLeft
<1>3. Len(delivered) \in Nat
  BY LenProperties DEF IInv, TypeOK
<1> QED BY <1>2, <1>3 DEF BlocksAreNext

(* The block at begin, in the buffer, is the first of those left.          *)
LEMMA BlockIsNext ==
    ASSUME IInv, BlocksAreNext, pc = "sequence", HeaderFits, MessageFits,
           NEW next, next = Position + BlockSize(stream, Position)
    PROVE  /\ Len(delivered) \in Nat
           /\ Len(BlocksOf(stream)) = Len(delivered) + 1 + Len(BlocksFrom(stream)[next])
           /\ Len(BlocksFrom(stream)[next]) \in Nat
           /\ BlocksOf(stream)[Len(delivered) + 1] = EntryOf(Block)
           /\ \A i \in 1 .. Len(BlocksFrom(stream)[next]) :
                  BlocksOf(stream)[Len(delivered) + 1 + i] = BlocksFrom(stream)[next][i]
<1> DEFINE rest == BlocksFrom(stream)[next]
           left == BlocksFrom(stream)[Position]
           all  == BlocksOf(stream)
           n    == Len(delivered)
<1>1. stream \in Seq(Byte) /\ Len(stream) \in Nat
  BY StreamType DEF IInv
<1>2. /\ WindowOK /\ WindowMirrors(stream, Position)
      /\ Position \in Nat /\ taken \in Nat /\ taken <= Len(stream)
      /\ Position + (end - begin) = taken
  BY SequenceWindow
<1>3. /\ CompleteBlock(stream, Position, taken)
      /\ Block = BytesAt(stream, Position + HeaderSize, MessageSize(stream, Position))
      /\ MessageSize(stream, Position) \in Nat
  BY <1>2, BlockMirrors, HeaderMirrors DEF Block
<1>4. CompleteBlock(stream, Position, Len(stream)) /\ Position \in 0 .. Len(stream)
  BY <1>1, <1>2, <1>3 DEF CompleteBlock, HeaderSize
<1>5. /\ Len(rest) \in Nat
      /\ Len(left) = Len(rest) + 1
      /\ left[1] = EntryOf(Block)
      /\ \A i \in 1 .. Len(rest) : left[i + 1] = rest[i]
  BY <1>1, <1>3, <1>4, BlockLeft
<1>6. n \in Nat
  BY LenProperties DEF IInv, TypeOK
<1>7. Len(all) = n + Len(left) /\ \A i \in 1 .. Len(left) : all[n + i] = left[i]
  BY DEF BlocksAreNext, BlocksLeft
<1> HIDE DEF rest, left, all, n
<1>8. Len(all) = n + 1 + Len(rest)
  BY <1>5, <1>6, <1>7
<1>9. all[n + 1] = EntryOf(Block)
  BY <1>5, <1>7
<1>10. ASSUME NEW i \in 1 .. Len(rest) PROVE all[n + 1 + i] = rest[i]
  <2>1. i + 1 \in 1 .. Len(left) /\ n + (i + 1) = n + 1 + i
    BY <1>5, <1>6
  <2>2. all[n + (i + 1)] = left[i + 1]
    BY <1>7, <2>1
  <2> QED BY <1>5, <2>1, <2>2
<1> QED BY <1>5, <1>6, <1>8, <1>9, <1>10 DEF rest, all, n

(* The counter is called with it, and RunProcessor says so.                *)
LEMMA NextBlock ==
    ASSUME IInv, BlocksAreNext, pc = "sequence", HeaderFits, MessageFits
    PROVE  /\ Len(delivered) \in Nat
           /\ Len(delivered) < Len(BlocksOf(stream))
           /\ BlocksOf(stream)[Len(delivered) + 1].type = TypeOf(Block)
<1> DEFINE next == Position + BlockSize(stream, Position)
           rest == BlocksFrom(stream)[next]
           all  == BlocksOf(stream)
<1> HIDE DEF next
<1>1. /\ Len(delivered) \in Nat /\ Len(rest) \in Nat
      /\ Len(all) = Len(delivered) + 1 + Len(rest)
      /\ all[Len(delivered) + 1] = EntryOf(Block)
  BY BlockIsNext DEF next
<1> HIDE DEF rest, all
<1>2. Len(delivered) < Len(all) /\ all[Len(delivered) + 1].type = TypeOf(Block)
  BY <1>1 DEF EntryOf
<1> QED BY <1>1, <1>2 DEF all

LEMMA InitFileIInv == FileInit => FileIInv
<1> SUFFICES ASSUME FileInit PROVE FileIInv
  OBVIOUS
<1>1. IInv /\ pc = "read"
  BY InitIInv DEF FileInit, Init
<1>2. Position = 0 /\ Len(delivered) = 0
  BY DEF FileInit, Init, SequenceInit, Position
<1>3. BlocksLeft = BlocksOf(stream) /\ BlocksOf(stream) \in Seq(Entry)
  <2>1. stream \in Seq(Byte) /\ 0 \in 0 .. Len(stream)
    BY <1>1, StreamType DEF IInv
  <2> QED BY <1>2, <2>1, BlocksFromType DEF BlocksLeft, BlocksOf
<1>4. BlocksAreNext
  <2> DEFINE all == BlocksOf(stream)
  <2>1. Len(all) \in Nat
    BY <1>3, LenProperties
  <2>2. Len(all) = 0 + Len(all) /\ \A i \in 1 .. Len(all) : all[0 + i] = all[i]
    <3> HIDE DEF all
    <3> QED BY <2>1
  <2> HIDE DEF all
  <2>3. BlocksLeft = all
    BY <1>3 DEF all
  <2> QED BY <1>2, <2>2, <2>3 DEF BlocksAreNext, all
<1> QED BY <1>1, <1>4 DEF FileIInv, ReadingLater

(* The list of blocks left depends on the first unseen byte only.          *)
LEMMA SamePosition ==
    ASSUME BlocksAreNext, UNCHANGED <<stream, delivered>>, Position' = Position
    PROVE  BlocksAreNext'
BY DEF BlocksAreNext, BlocksLeft

(* A call that returns takes one block off it.                             *)
LEMMA ProcessTakesBlock ==
    ASSUME IInv, BlocksAreNext, Process, UNCHANGED <<stream, taken, leftover>>
    PROVE  BlocksAreNext' /\ Len(delivered') = Len(delivered) + 1
<1> DEFINE next == Position + BlockSize(stream, Position)
<1>1. /\ pc = "sequence" /\ HeaderFits /\ MessageFits
      /\ UNCHANGED <<end, stream, taken>>
  BY DEF Process
<1>2. /\ begin' = begin + BlockSize(stream, Position)
      /\ BlockSize(stream, Position) \in Nat
      /\ begin \in Nat /\ end \in Nat /\ taken \in Nat
  BY <1>1, SequenceWindow, ProcessAdvances DEF WindowOK
<1>3. Position' = next
  BY <1>1, <1>2 DEF Position
<1>4. Len(delivered') = Len(delivered) + 1
  BY DEF Process, IInv, TypeOK
<1> HIDE DEF next
<1>5. /\ Len(delivered) \in Nat
      /\ Len(BlocksOf(stream)) = Len(delivered) + 1 + Len(BlocksFrom(stream)[next])
      /\ \A i \in 1 .. Len(BlocksFrom(stream)[next]) :
             BlocksOf(stream)[Len(delivered) + 1 + i] = BlocksFrom(stream)[next][i]
  BY <1>1, BlockIsNext DEF next
<1> QED BY <1>1, <1>3, <1>4, <1>5 DEF BlocksAreNext, BlocksLeft

(* Steps of read_directly that deliver nothing do not move the first       *)
(* unseen byte.                                                            *)
LEMMA ReadOnStays ==
    ASSUME IInv, ReadOn \/ CountThrows \/ ReadAll
    PROVE  UNCHANGED <<stream, delivered>> /\ Position' = Position
<1>1. CASE Read
  <2>1. taken \in Nat /\ leftover \in Nat /\ ReadCount \in Int /\ end - begin = leftover
    BY <1>1, StreamType, LenProperties
    DEF Read, IInv, TypeOK, BufferMirrorsStream, ReadCount, ReadCountBut, buffer_size
  <2> QED BY <1>1, <2>1 DEF Read, Position
<1>2. CASE (HeaderCut \/ MessageCut) /\ UNCHANGED <<stream, taken, leftover>>
  <2>1. pc = "sequence" /\ UNCHANGED <<end, delivered, stream, taken>>
    BY <1>2 DEF HeaderCut, MessageCut
  <2>2. begin' = begin
    BY <1>2, <2>1, SequenceWindow, CutStays
  <2> QED BY <2>1, <2>2 DEF Position
<1>3. CASE ReadThrows \/ Compact \/ BufferTooSmall \/ EndOfStream
  BY <1>3 DEF ReadThrows, Compact, BufferTooSmall, EndOfStream, Position
<1>4. CASE CountThrows
  BY <1>4 DEF CountThrows, ProcessThrows, Position
<1> QED BY <1>1, <1>2, <1>3, <1>4 DEF ReadOn, ReadAll

LEMMA NextFileIInv == FileIInv /\ [FileNext]_fileVars => FileIInv'
<1> SUFFICES ASSUME FileIInv, [FileNext]_fileVars PROVE FileIInv'
  OBVIOUS
<1>1. IInv'
  BY ReadsDirectly, NextKeepsIInv DEF FileIInv
<1>2. ReadingLater'
  BY DEF FileIInv, ReadingLater, FileNext, IsGzip, CountBlock, CountThrows, ReadOn, ReadAll,
     LeaveTry, Done, Destroy, fileVars, runVars, vars
<1>3. BlocksAreNext'
  <2>1. CASE CountBlock
    BY <2>1, ProcessTakesBlock DEF CountBlock, FileIInv
  <2>2. CASE ReadOn \/ CountThrows \/ ReadAll
    BY <2>2, ReadOnStays, SamePosition DEF FileIInv
  <2>3. CASE IsGzip \/ LeaveTry \/ Done \/ Destroy \/ UNCHANGED fileVars
    <3>1. UNCHANGED <<stream, delivered>> /\ Position' = Position
      BY <2>3 DEF IsGzip, LeaveTry, Done, Destroy, fileVars, vars, Position
    <3> QED BY <3>1, SamePosition DEF FileIInv
  <2> QED BY <2>1, <2>2, <2>3 DEF FileNext
<1> QED BY <1>1, <1>2, <1>3 DEF FileIInv

-----------------------------------------------------------------------------
(* The refinement                                                          *)

(* Both add up the counts in the same way, and have the same counter.      *)
LEMMA SameTotal == \A m, ids : Run!TotalOf(m, ids) = TotalOf(m, ids)
BY Zenon
DEF TotalOf, MapThenSumSet, MapThenFoldSet,
    Run!TotalOf, Run!MapThenSumSet, Run!MapThenFoldSet

LEMMA SameCounter ==
    /\ Run!NoMessages = NoMessages
    /\ Run!NoReport = NoReport
    /\ \A m, t, i : Run!Counted(m, t, i) = Counted(m, t, i)
    /\ \A m, t : Run!ReportOf(m, t) = ReportOf(m, t)
BY SameTotal, Zenon
DEF NoMessages, NoReport, Counted, ReportOf, Missing,
    Run!NoMessages, Run!NoReport, Run!Counted, Run!ReportOf, Run!Missing

(* A file that has not been read is one of RunProcessor's that has not.    *)
LEMMA InitRunRefines == FileInit => Run!Init
<1> SUFFICES ASSUME FileInit PROVE Run!Init
  OBVIOUS
<1>1. [kind |-> "gzip", blocks |-> BlocksOf(stream)] \in AllFiles
  <2>1. stream \in Seq(Byte) /\ 0 \in 0 .. Len(stream)
    BY InitIInv, StreamType DEF FileInit, IInv
  <2>2. BlocksOf(stream) \in Seq(Entry)
    BY <2>1, BlocksFromType DEF BlocksOf
  <2> QED BY <2>2 DEF AllFiles, Entry
<1>2. RunPhase = "check_type" /\ stage = "check_type" /\ Len(delivered) = 0
  BY DEF FileInit, Init, SequenceInit, RunPhase
<1>3. [t \in Types |-> "absent"] \in Run!Left
  BY DEF Run!Left
<1> QED
  BY <1>1, <1>2, <1>3, SameCounter DEF FileInit, Run!Init

(* Where nothing that RunProcessor knows of changes.                       *)
LEMMA StutterRunRefines ==
    ASSUME UNCHANGED <<stream, delivered, runVars>>, RunPhase' = RunPhase
    PROVE  UNCHANGED Run!vars
BY DEF runVars, Run!vars

(* A block that is counted is the next one of the file.                    *)
LEMMA CountBlockRefines ==
    ASSUME FileIInv, CountBlock PROVE Run!CountBlock
<1>1. /\ pc = "sequence" /\ stage = "try" /\ HeaderFits /\ MessageFits /\ Process
      /\ UNCHANGED <<pc, stream, taken, leftover, info, stage, duration, report>>
  BY DEF CountBlock, Process
<1>2. /\ Len(delivered) \in Nat
      /\ Len(delivered) < Len(BlocksOf(stream))
      /\ BlocksOf(stream)[Len(delivered) + 1].type = TypeOf(Block)
  BY <1>1, NextBlock DEF FileIInv
<1>3. Len(delivered') = Len(delivered) + 1
  BY <1>1, ProcessTakesBlock DEF FileIInv
<1>4. messages_' = IF TypeOf(Block) \in Types
                   THEN Counted(messages_, TypeOf(Block), Len(delivered) + 1)
                   ELSE messages_
  BY DEF CountBlock, FileIInv, IInv, NumberPassed
<1>5. RunPhase = "reading" /\ RunPhase' = RunPhase
  BY <1>1 DEF RunPhase, Ended
<1>6. Run!HasBlock /\ Run!type = TypeOf(Block) /\ Run!seqn = Len(delivered) + 1
  BY <1>2 DEF Run!HasBlock, Run!type, Run!seqn
<1>7. Run!Returned
  BY <1>1, <1>3, <1>5 DEF Run!Returned, Run!input
<1> QED
  BY <1>4, <1>5, <1>6, <1>7, SameCounter DEF Run!CountBlock

(* A block that the counter throws on is one that holds no message.        *)
LEMMA CountThrowsRefines ==
    ASSUME FileIInv, CountThrows PROVE Run!DecodeThrows
<1>1. /\ pc = "sequence" /\ pc' = "failed" /\ stage = "try" /\ HeaderFits /\ MessageFits
      /\ TypeOf(Block) = Undecodable
      /\ UNCHANGED <<delivered, stream, runVars>>
  BY DEF CountThrows, ProcessThrows
<1>2. /\ Len(delivered) \in Nat
      /\ Len(delivered) < Len(BlocksOf(stream))
      /\ BlocksOf(stream)[Len(delivered) + 1].type = TypeOf(Block)
  BY <1>1, NextBlock DEF FileIInv
<1>3. RunPhase = "reading" /\ RunPhase' = "thrown"
  BY <1>1 DEF RunPhase, Ended, runVars
<1>4. Run!HasBlock /\ Run!type = Undecodable
  BY <1>1, <1>2 DEF Run!HasBlock, Run!type, Run!seqn
<1> QED
  BY <1>1, <1>3, <1>4 DEF Run!DecodeThrows, Run!input, Run!state, runVars

(* What is between two calls, in which reading may fail.                   *)
LEMMA ReadOnRefines ==
    ASSUME FileIInv, ReadOn PROVE Run!ReaderThrows \/ UNCHANGED Run!vars
<1>1. /\ stage = "try" /\ UNCHANGED <<stream, delivered, runVars>>
  BY ReadOnStays DEF ReadOn, FileIInv
<1>2. CASE pc' \in {"read", "sequence", "returned"}
  <2>1. RunPhase' = RunPhase
    BY <1>1, <1>2 DEF ReadOn, RunPhase, Ended, runVars, Read, ReadThrows, HeaderCut, MessageCut,
       Compact, BufferTooSmall
  <2> QED BY <1>1, <2>1, StutterRunRefines
<1>3. CASE pc' \in {"failed", "too_small"}
  <2>1. RunPhase = "reading" /\ RunPhase' = "thrown"
    BY <1>1, <1>3 DEF ReadOn, RunPhase, Ended, runVars, Read, ReadThrows, HeaderCut, MessageCut,
       Compact, BufferTooSmall
  <2> QED BY <1>1, <2>1 DEF Run!ReaderThrows, Run!input, Run!state, runVars
<1> QED
  BY <1>2, <1>3
  DEF ReadOn, Read, ReadThrows, HeaderCut, MessageCut, Compact, BufferTooSmall

(* Reading returns when no block is left.                                  *)
LEMMA ReadAllRefines ==
    ASSUME FileIInv, ReadAll PROVE Run!ReaderReturns
<1>1. /\ stage = "try" /\ pc = "read" /\ pc' = "eof" /\ taken = Len(stream)
      /\ UNCHANGED <<stream, delivered, info, stage, messages_, report>>
      /\ duration' = "processing"
  BY DEF ReadAll, EndOfStream
<1>2. ~CompleteBlock(stream, Position, Len(stream)) /\ Position \in 0 .. Len(stream)
  BY <1>1, StreamType
  DEF FileIInv, IInv, TypeOK, NothingPending, BufferMirrorsStream, Position
<1>3. Len(BlocksOf(stream)) = Len(delivered) /\ Len(delivered) \in Nat
  BY <1>2, NoBlocksLeft, LenProperties DEF FileIInv, IInv, TypeOK
<1>4. ~Run!HasBlock
  BY <1>3 DEF Run!HasBlock
<1>5. RunPhase = "reading" /\ RunPhase' = "returned"
  BY <1>1 DEF RunPhase, Ended
<1> QED
  BY <1>1, <1>4, <1>5 DEF Run!ReaderReturns, Run!input, Run!state

LEMMA NextRunRefines ==
    ASSUME FileIInv, [FileNext]_fileVars PROVE [Run!Next]_(Run!vars)
<1>1. CASE IsGzip
  <2>1. /\ stage = "check_type" /\ stage' = "try" /\ pc = "read"
        /\ UNCHANGED <<vars, info, duration, messages_, report>>
    BY <1>1 DEF IsGzip, FileIInv, ReadingLater
  <2>2. RunPhase = "check_type" /\ RunPhase' = "reading"
    BY <2>1 DEF RunPhase, Ended, vars
  <2>3. Run!CheckType
    BY <2>1, <2>2 DEF Run!CheckType, Run!input, Run!state, vars
  <2> QED BY <2>3 DEF Run!Next, Run!Step
<1>2. CASE CountBlock
  BY <1>2, CountBlockRefines DEF Run!Next, Run!Step
<1>3. CASE CountThrows
  BY <1>3, CountThrowsRefines DEF Run!Next, Run!Step
<1>4. CASE ReadOn
  BY <1>4, ReadOnRefines DEF Run!Next, Run!Step
<1>5. CASE ReadAll
  BY <1>5, ReadAllRefines DEF Run!Next, Run!Step
<1>6. CASE LeaveTry
  <2>1. /\ stage = "try" /\ stage' = "done" /\ pc \in Ended
        /\ duration' = IF duration = "min" THEN "whole" ELSE duration
        /\ UNCHANGED <<vars, info, messages_, report>>
    BY <1>6 DEF LeaveTry, Left
  <2>2. RunPhase \in {"returned", "thrown"} /\ RunPhase' = "done"
    BY <2>1 DEF RunPhase
  <2>3. Run!LeaveTry
    BY <2>1, <2>2 DEF Run!LeaveTry, Run!Handled, Run!SentrySets, Run!input, Run!state, vars
  <2> QED BY <2>3 DEF Run!Next, Run!Step
<1>7. CASE Done
  <2>1. /\ stage = "done" /\ stage' = "destroy"
        /\ report' = IF info THEN ReportOf(messages_, Types) ELSE NoReport
        /\ UNCHANGED <<vars, info, duration, messages_>>
    BY <1>7 DEF Done
  <2>2. RunPhase = "done" /\ RunPhase' = "destroy"
    BY <2>1 DEF RunPhase
  <2>3. Run!DoneCounting
    BY <2>1, <2>2, SameCounter DEF Run!DoneCounting, Run!input, Run!state, vars
  <2> QED BY <2>3 DEF Run!Next, Run!Step
<1>8. CASE Destroy
  <2>1. /\ stage = "destroy" /\ stage' = "exit"
        /\ UNCHANGED <<vars, info, duration, messages_, report>>
    BY <1>8 DEF Destroy
  <2>2. RunPhase = "destroy" /\ RunPhase' = "exit"
    BY <2>1 DEF RunPhase
  <2>3. Run!Destroyed
    BY <2>1, <2>2 DEF Run!Destroyed, Run!SomeOpen, Run!input, Run!state, vars
  <2> QED BY <2>3 DEF Run!Next, Run!Step
<1>9. CASE UNCHANGED fileVars
  <2>1. UNCHANGED <<stream, delivered, runVars>> /\ RunPhase' = RunPhase
    BY <1>9 DEF fileVars, vars, runVars, RunPhase
  <2> QED BY <2>1, StutterRunRefines
<1> QED BY <1>1, <1>2, <1>3, <1>4, <1>5, <1>6, <1>7, <1>8, <1>9 DEF FileNext

-----------------------------------------------------------------------------
(* In every reachable state, the blocks that are left are those that start *)
(* at the first unseen byte.                                               *)
THEOREM FileInvariance == FileSpec => []FileIInv
<1> QED BY InitFileIInv, NextFileIInv, PTL DEF FileSpec

(* The whole tool: for every file, every buffer and every table of message *)
(* types, each complete block is counted once, under its number and as the *)
(* type its bytes are of, reading returns only when none is left, and      *)
(* done() reports what was counted.                                        *)
THEOREM RunRefinement == FileSpec => RefinesRunProcessor
<1>1. FileInit => Run!Init
  BY InitRunRefines
<1>2. FileIInv /\ [FileNext]_fileVars => [Run!Next]_(Run!vars)
  BY NextRunRefines
<1> QED BY <1>1, <1>2, FileInvariance, PTL DEF FileSpec, RefinesRunProcessor, Run!Spec
-----------------------------------------------------------------------------
(* What becomes of the bytes                                               *)

(* RunProcessor once more, with its theorems.                              *)
RunProofs == INSTANCE RunProcessorProofs WITH
                 Files        <- AllFiles,
                 Processors   <- {"count"},
                 file         <- [kind |-> "gzip", blocks |-> BlocksOf(stream)],
                 unpack_first <- FALSE,
                 processor    <- "count",
                 debug        <- FALSE,
                 pc           <- RunPhase,
                 path         <- IF stage = "check_type" THEN "none" ELSE "read_directly",
                 calls        <- Len(delivered),
                 count_       <- 0,
                 rows         <- [t \in Types |-> << >>],
                 disk         <- [t \in Types |-> "absent"]

(* What they assume holds of the files and the processor here.             *)
LEMMA RunAssumptions ==
    /\ Undecodable \notin Types
    /\ {"count"} \subseteq RunProofs!AllProcessors
    /\ AllFiles \subseteq [kind   : {"gzip", "raw", "unreadable"},
                           blocks : Seq([type   : Types \union {Undecodable},
                                         longer : BOOLEAN])]
BY TypesAssumption DEF RunProofs!AllProcessors, AllFiles

(* Both instances have the same behaviours.                                *)
LEMMA SameRunTotal == \A m, ids : Run!TotalOf(m, ids) = RunProofs!TotalOf(m, ids)
BY Zenon
DEF Run!TotalOf, Run!MapThenSumSet, Run!MapThenFoldSet,
    RunProofs!TotalOf, RunProofs!MapThenSumSet, RunProofs!MapThenFoldSet

LEMMA SameRunCounter ==
    /\ Run!NoReport = RunProofs!NoReport
    /\ \A m, t, i : Run!Counted(m, t, i) = RunProofs!Counted(m, t, i)
    /\ \A m, t : Run!ReportOf(m, t) = RunProofs!ReportOf(m, t)
BY SameRunTotal, Zenon
DEF Run!NoReport, Run!Counted, Run!ReportOf, Run!Missing,
    RunProofs!NoReport, RunProofs!Counted, RunProofs!ReportOf, RunProofs!Missing

LEMMA SameRunInit == Run!Init => RunProofs!Init
BY DEF Run!Init, Run!Left, Run!NoMessages, Run!NoReport,
    RunProofs!Init, RunProofs!Left, RunProofs!NoMessages, RunProofs!NoReport

LEMMA SameRunNext == [Run!Next]_(Run!vars) => [RunProofs!Next]_(RunProofs!vars)
BY SameRunCounter
DEF Run!Truncate, Run!TruncateThrows, Run!MakeSink, Run!MakeSinkThrows,
    Run!Constructed, Run!CheckType, Run!ReaderThrows, Run!CountBlock,
    Run!DumpBlock, Run!WriteBlock, Run!DecodeThrows, Run!WriteThrows,
    Run!ReaderReturns, Run!LeaveTry, Run!DoneCounting, Run!DoneElse,
    Run!CloseSink, Run!CloseFails, Run!Destroyed, Run!Killed, Run!Step,
    Run!Next, Run!vars, Run!input, Run!state, Run!NoContent, Run!AllOpen,
    Run!SomeOpen, Run!HasBlock, Run!seqn, Run!type, Run!longer, Run!Returned,
    Run!RowOf, Run!SentrySets, Run!Handled, Run!Writers,
    RunProofs!Truncate, RunProofs!TruncateThrows, RunProofs!MakeSink,
    RunProofs!MakeSinkThrows, RunProofs!Constructed, RunProofs!CheckType,
    RunProofs!ReaderThrows, RunProofs!CountBlock, RunProofs!DumpBlock,
    RunProofs!WriteBlock, RunProofs!DecodeThrows, RunProofs!WriteThrows,
    RunProofs!ReaderReturns, RunProofs!LeaveTry, RunProofs!DoneCounting,
    RunProofs!DoneElse, RunProofs!CloseSink, RunProofs!CloseFails,
    RunProofs!Destroyed, RunProofs!Killed, RunProofs!Step, RunProofs!Next,
    RunProofs!vars, RunProofs!input, RunProofs!state, RunProofs!NoContent,
    RunProofs!AllOpen, RunProofs!SomeOpen, RunProofs!HasBlock, RunProofs!seqn,
    RunProofs!type, RunProofs!longer, RunProofs!Returned, RunProofs!RowOf,
    RunProofs!SentrySets, RunProofs!Handled, RunProofs!Writers

(* So the theorems about processors are about the tool.                    *)
LEMMA RunTheorems == FileSpec => [](RunProofs!CounterAgrees /\ RunProofs!ReportIsTrue)
<1>1. FileSpec => RunProofs!Spec
  BY RunRefinement, SameRunInit, SameRunNext, PTL
  DEF RefinesRunProcessor, Run!Spec, RunProofs!Spec
<1>2. RunProofs!Spec => []RunProofs!CounterAgrees
  BY RunAssumptions, RunProofs!CounterCorrect
<1>3. RunProofs!Spec => []RunProofs!ReportIsTrue
  BY RunAssumptions, RunProofs!ReportCorrect
<1> QED BY <1>1, <1>2, <1>3, PTL

(* At the end of the file all of its blocks have been delivered.           *)
LEMMA AllDelivered ==
    ASSUME FileIInv, pc = "eof" PROVE Len(delivered) = Len(BlocksOf(stream))
<1>1. Position \in 0 .. Len(stream) /\ ~CompleteBlock(stream, Position, Len(stream))
  BY StreamType DEF FileIInv, IInv, AllRead, TypeOK, BufferMirrorsStream, Position
<1> QED BY <1>1, NoBlocksLeft DEF FileIInv

(* However the bytes fall into the buffer: what done() reports is what the *)
(* blocks of the file hold, all of them if reading has come to an end.     *)
THEOREM FileReportCorrect == FileSpec => []ReportOfFile
<1>1. FileIInv /\ RunProofs!CounterAgrees /\ RunProofs!ReportIsTrue => ReportOfFile
  <2> SUFFICES ASSUME FileIInv, RunProofs!CounterAgrees, RunProofs!ReportIsTrue,
                      stage \in {"destroy", "exit"}
               PROVE  /\ pc = "eof" => Len(delivered) = Len(BlocksOf(stream))
                      /\ messages_ = [t \in {t \in Types : SeenAt(t) # {}} |->
                                         [n     |-> Cardinality(SeenAt(t)),
                                          first |-> Min(SeenAt(t)),
                                          last  |-> Max(SeenAt(t))]]
                      /\ info =>
                             /\ report.reported = DOMAIN messages_
                             /\ report.missing = Types \ report.reported
                             /\ report.total = Cardinality(UNION {SeenAt(t) : t \in Types})
    BY DEF ReportOfFile
  <2>1. RunPhase = stage
    BY DEF RunPhase
  <2>2. \A t : RunProofs!CallsWith(t) = SeenAt(t)
    BY DEF RunProofs!CallsWith, SeenAt
  <2>3. \A S : RunProofs!Min(S) = Min(S) /\ RunProofs!Max(S) = Max(S)
    BY DEF RunProofs!Min, RunProofs!Max, Min, Max
  <2>4. \A S : RunProofs!Cardinality(S) = Cardinality(S)
    BY DEF RunProofs!Cardinality, Cardinality
  <2>5. messages_ = [t \in {t \in Types : SeenAt(t) # {}} |->
                       [n     |-> Cardinality(SeenAt(t)),
                        first |-> Min(SeenAt(t)),
                        last  |-> Max(SeenAt(t))]]
    BY <2>1, <2>2, <2>3, <2>4 DEF RunProofs!CounterAgrees
  <2>6. UNION {SeenAt(t) : t \in Types} =
            {i \in 1 .. Len(delivered) : BlocksOf(stream)[i].type \in Types}
    BY DEF SeenAt
  <2>7. info => /\ report.reported = {t \in Types : SeenAt(t) # {}}
                /\ report.missing = Types \ report.reported
                /\ report.total = Cardinality(UNION {SeenAt(t) : t \in Types})
    BY <2>1, <2>2, <2>4, <2>6 DEF RunProofs!ReportIsTrue
  <2>8. DOMAIN messages_ = {t \in Types : SeenAt(t) # {}}
    BY <2>5
  <2> QED BY AllDelivered, <2>5, <2>7, <2>8
<1> QED BY FileInvariance, RunTheorems, <1>1, PTL
=============================================================================
