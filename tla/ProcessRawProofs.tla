-------------------------- MODULE ProcessRawProofs --------------------------
(***************************************************************************)
(* ProcessRaw, for every base and set of files: the walk stays on the      *)
(* file's own bytes, and Framing is refined.                               *)
(***************************************************************************)
EXTENDS ProcessRaw, FakeSequenceProofs

NothingPending ==
    pc = "returned" => ~CompleteBlock(stream, begin, Len(stream))

IInv ==
    /\ TypeOK
    /\ MappingMirrorsStream
    /\ NothingPending
    /\ TruncationReported
    /\ pc = "open" => begin = 0
    /\ seqn = Len(delivered) + 1

LEMMA StreamType ==
    ASSUME TypeOK
    PROVE  /\ stream \in Seq(Byte) /\ Len(stream) \in Nat
           /\ mem \in Seq(Byte)
<1>1. stream \in Seq(Byte)
  BY StreamsAssumption DEF TypeOK
<1>2. << >> \in Seq(Byte)
  BY EmptySeq
<1> QED BY <1>1, <1>2, LenProperties DEF TypeOK

-----------------------------------------------------------------------------
LEMMA InitIInv == Init => IInv
<1> SUFFICES ASSUME Init PROVE IInv
  OBVIOUS
<1>1. << >> \in Seq([seqn : Nat \ {0}, bytes : Seq(Byte)]) /\ Len(<< >>) = 0
  BY EmptySeq
<1>2. warned \in BOOLEAN
  BY Zenon DEF Init
<1>3. TypeOK
  BY <1>1, <1>2 DEF Init, SequenceInit, TypeOK
<1> QED
  BY <1>1, <1>3
  DEF Init, SequenceInit, IInv, MappingMirrorsStream, NothingPending, TruncationReported

LEMMA SequenceWindow ==
    ASSUME IInv, pc \in {"sequence", "returned"}
    PROVE  /\ WindowOK /\ WindowMirrors(stream, begin)
           /\ begin \in Nat /\ end = Len(stream) /\ begin + (end - begin) = Len(stream)
           /\ Len(stream) \in Nat
<1>1. WindowOK /\ Len(stream) \in Nat
  BY StreamType DEF IInv, TypeOK, WindowOK
<1>2. WindowMirrors(stream, begin) /\ end = Len(stream)
  BY DEF IInv, MappingMirrorsStream
<1> QED BY <1>1, <1>2 DEF WindowOK

LEMMA ProcessKeepsIInv ==
    ASSUME IInv, Process, UNCHANGED <<stream, warned>> PROVE IInv'
<1> DEFINE message == BytesAt(mem, AfterHeader, MessageSize(mem, begin))
           block   == BlockSize(stream, begin)
<1>1. /\ pc = "sequence" /\ seqn' = seqn + 1
      /\ delivered' = Append(delivered, [seqn |-> seqn, bytes |-> message])
      /\ UNCHANGED <<mem, end, pc>>
  BY DEF Process
<1>2. /\ WindowOK /\ WindowMirrors(stream, begin) /\ begin \in Nat /\ end = Len(stream)
  BY <1>1, SequenceWindow
<1>3. /\ block \in Nat \ {0} /\ begin' = begin + block /\ begin' <= end
      /\ message \in Seq(Byte)
      /\ BytesAt(mem, begin', end - begin') = BytesAt(stream, begin + block, end - begin')
  BY <1>2, ProcessAdvances
<1> HIDE DEF message, block
<1>4. begin' \in Nat
  BY <1>2, <1>3
<1>5. /\ delivered' \in Seq([seqn : Nat \ {0}, bytes : Seq(Byte)])
      /\ Len(delivered') = Len(delivered) + 1
  BY <1>1, <1>3 DEF IInv, TypeOK
<1>6. TypeOK'
  BY <1>1, <1>4, <1>5 DEF IInv, TypeOK
<1>7. BytesAt(mem, begin', end - begin') = BytesAt(stream, begin', end - begin')
  BY <1>3
<1>8. MappingMirrorsStream'
  BY <1>1, <1>2, <1>3, <1>7 DEF MappingMirrorsStream, WindowMirrors
<1> QED
  BY <1>1, <1>5, <1>6, <1>8 DEF IInv, TypeOK, NothingPending, TruncationReported

LEMMA NextKeepsIInv == IInv /\ [Next]_vars => IInv'
<1> SUFFICES ASSUME IInv, [Next]_vars PROVE IInv'
  OBVIOUS
<1>1. CASE Open
  <2>1. /\ pc = "open" /\ pc' = "sequence" /\ mem' = stream /\ end' = Len(stream)
        /\ begin = 0 /\ UNCHANGED <<begin, seqn, delivered, stream, warned>>
    BY <1>1 DEF Open, IInv
  <2>2. Len(stream) \in Nat
    BY StreamType DEF IInv
  <2>3. TypeOK'
    BY <2>1, <2>2 DEF IInv, TypeOK
  <2>4. MappingMirrorsStream'
    BY <2>1, <2>2 DEF MappingMirrorsStream, WindowMirrors
  <2> QED BY <2>1, <2>3, <2>4 DEF IInv, NothingPending, TruncationReported
<1>2. CASE OpenThrows
  <2>1. TypeOK'
    BY <1>2 DEF OpenThrows, IInv, TypeOK
  <2> QED
    BY <1>2, <2>1
    DEF OpenThrows, IInv, MappingMirrorsStream, NothingPending, TruncationReported
<1>3. CASE RunSequence
  <2> USE <1>3 DEF RunSequence
  <2>1. CASE Process
    BY <2>1, ProcessKeepsIInv
  <2>2. CASE ProcessThrows
    <3>1. TypeOK'
      BY <2>2 DEF ProcessThrows, IInv, TypeOK
    <3> QED
      BY <2>2, <3>1
      DEF ProcessThrows, IInv, MappingMirrorsStream, NothingPending, TruncationReported
  <2>3. CASE HeaderCut \/ MessageCut
    <3>1. /\ pc = "sequence" /\ pc' = "returned" /\ UNCHANGED <<mem, end, seqn, delivered>>
      BY <2>3 DEF HeaderCut, MessageCut
    <3>2. begin' = begin /\ ~CompleteBlock(stream, begin, Len(stream))
      BY <2>3, <3>1, SequenceWindow, CutStays
    <3>3. TypeOK'
      BY <3>1, <3>2 DEF IInv, TypeOK
    <3>4. MappingMirrorsStream'
      BY <3>1, <3>2 DEF IInv, MappingMirrorsStream, WindowMirrors
    <3> QED
      BY <3>1, <3>2, <3>3, <3>4 DEF IInv, NothingPending, TruncationReported, CompleteBlock
  <2> QED BY <2>1, <2>2, <2>3 DEF Sequence
<1>4. CASE Finish
  <2>1. /\ pc = "returned" /\ pc' = "finished" /\ warned' = (end - begin # 0)
        /\ UNCHANGED <<mem, begin, end, seqn, delivered, stream>>
    BY <1>4 DEF Finish, IsLeftover
  <2>2. begin \in Nat /\ end = Len(stream) /\ Len(stream) \in Nat
    BY <2>1, SequenceWindow
  <2>3. end - begin # 0 <=> begin # Len(stream)
    BY <2>2
  <2>4. warned' \in BOOLEAN
    BY <2>1, Zenon
  <2>5. TypeOK'
    BY <2>1, <2>4 DEF IInv, TypeOK
  <2>6. TruncationReported'
    BY <2>1, <2>3 DEF TruncationReported
  <2> QED BY <2>1, <2>5, <2>6 DEF IInv, MappingMirrorsStream, NothingPending
<1>5. CASE UNCHANGED vars
  BY <1>5 DEF vars, IInv, TypeOK, MappingMirrorsStream, WindowMirrors, NothingPending,
     TruncationReported, CompleteBlock
<1> QED BY <1>1, <1>2, <1>3, <1>4, <1>5 DEF Next

-----------------------------------------------------------------------------
(* Every reachable state satisfies the inductive invariant.                *)
THEOREM Invariance == Spec => []IInv
<1> QED BY InitIInv, NextKeepsIInv, PTL DEF Spec

(* Variables keep their types, begin and end among them.                   *)
THEOREM TypeCorrect == Spec => []TypeOK
<1>1. IInv => TypeOK
  BY DEF IInv
<1> QED BY <1>1, Invariance, PTL

(* The walk never leaves the mapping, and a cut block at the end of the    *)
(* file is reported.                                                       *)
THEOREM WalkCorrect == Spec => [](MappingMirrorsStream /\ TruncationReported)
<1>1. IInv => MappingMirrorsStream /\ TruncationReported
  BY DEF IInv
<1> QED BY <1>1, Invariance, PTL

-----------------------------------------------------------------------------
(* The refinement                                                          *)

(* Framing and the reading paths share one definition of a block.          *)
LEMMA SameBlocks ==
    /\ Abstract!HeaderSize = HeaderSize
    /\ \A m, at : Abstract!MessageSize(m, at) = MessageSize(m, at)
    /\ \A m, at : Abstract!BlockSize(m, at) = BlockSize(m, at)
    /\ \A m, at, n : Abstract!BytesAt(m, at, n) = BytesAt(m, at, n)
    /\ \A m, at, n : Abstract!CompleteBlock(m, at, n) <=> CompleteBlock(m, at, n)
BY DEF HeaderSize, MessageSize, BlockSize, BytesAt, CompleteBlock, Abstract!HeaderSize,
   Abstract!MessageSize, Abstract!BlockSize, Abstract!BytesAt, Abstract!CompleteBlock

LEMMA NextRefines ==
    ASSUME IInv, [Next]_vars PROVE [Abstract!Next]_(Abstract!framingVars)
<1>1. CASE Open
  <2>1. UNCHANGED <<stream, delivered, begin>> /\ Phase' = Phase
    BY <1>1 DEF Open, Phase
  <2> QED BY <2>1 DEF Abstract!framingVars
<1>2. CASE OpenThrows \/ (RunSequence /\ ProcessThrows)
  <2>1. UNCHANGED <<stream, delivered, begin>> /\ Phase = "reading" /\ Phase' = "failed"
    BY <1>2 DEF OpenThrows, RunSequence, ProcessThrows, Phase
  <2> QED BY <2>1 DEF Abstract!Next, Abstract!Fail
<1>3. CASE RunSequence /\ Process
  <2> DEFINE message == BytesAt(mem, AfterHeader, MessageSize(mem, begin))
  <2>1. /\ pc = "sequence" /\ pc' = pc /\ stream' = stream
        /\ delivered' = Append(delivered, [seqn |-> seqn, bytes |-> message])
    BY <1>3 DEF RunSequence, Process
  <2>2. /\ CompleteBlock(stream, begin, Len(stream))
        /\ begin' = begin + BlockSize(stream, begin)
        /\ message = BytesAt(stream, begin + HeaderSize, MessageSize(stream, begin))
    BY <1>3, <2>1, SequenceWindow, ProcessAdvances
  <2>3. seqn = Len(delivered) + 1 /\ Phase = "reading" /\ Phase' = Phase
    BY <2>1 DEF IInv, Phase
  <2> HIDE DEF message
  <2> QED BY <2>1, <2>2, <2>3, SameBlocks DEF Abstract!Next, Abstract!Deliver
<1>4. CASE RunSequence /\ (HeaderCut \/ MessageCut)
  <2>1. /\ pc = "sequence" /\ pc' = "returned" /\ UNCHANGED <<stream, delivered>>
    BY <1>4 DEF RunSequence, HeaderCut, MessageCut
  <2>2. begin' = begin
    BY <1>4, <2>1, SequenceWindow, CutStays
  <2>3. Phase' = Phase
    BY <2>1 DEF Phase
  <2> QED BY <2>1, <2>2, <2>3 DEF Abstract!framingVars
<1>5. CASE Finish
  <2>1. /\ pc = "returned" /\ UNCHANGED <<begin, delivered, stream>>
        /\ Phase = "reading" /\ Phase' = "stopped"
    BY <1>5 DEF Finish, Phase
  <2>2. ~CompleteBlock(stream, begin, Len(stream))
    BY <2>1 DEF IInv, NothingPending
  <2> QED BY <2>1, <2>2, SameBlocks DEF Abstract!Next, Abstract!Stop
<1>6. CASE RunSequence
  <2>1. Process \/ ProcessThrows \/ HeaderCut \/ MessageCut
    BY <1>6 DEF RunSequence, Sequence
  <2> QED BY <1>2, <1>3, <1>4, <1>6, <2>1
<1>7. CASE UNCHANGED vars
  <2>1. UNCHANGED <<stream, delivered, begin>> /\ Phase' = Phase
    BY <1>7 DEF vars, Phase
  <2> QED BY <2>1 DEF Abstract!framingVars
<1> QED BY <1>1, <1>2, <1>5, <1>6, <1>7 DEF Next

(* Walking the mapped file delivers what Framing promises.                 *)
THEOREM Refinement == Spec => RefinesFraming
<1>1. Init => Abstract!Init
  BY DEF Init, SequenceInit, Abstract!Init, Phase
<1>2. IInv /\ [Next]_vars => [Abstract!Next]_(Abstract!framingVars)
  BY NextRefines
<1> QED BY <1>1, <1>2, Invariance, PTL DEF Spec, RefinesFraming, Abstract!Spec
=============================================================================
