------------------------- MODULE FakeSequenceProofs -------------------------
(***************************************************************************)
(* What one step of fake_sequence does when its window holds the bytes of  *)
(* a stream s from offset `at` on. The reading paths' proofs rest on these *)
(* lemmas; each path supplies its own s and `at`.                          *)
(***************************************************************************)
EXTENDS FakeSequence, SequenceTheorems, TLAPS

(* A function on 1 .. n is a sequence of length n.                         *)
LEMMA FunctionIsSeq ==
    ASSUME NEW S, NEW n \in Nat, NEW f \in [1 .. n -> S]
    PROVE  f \in Seq(S) /\ Len(f) = n
BY SeqDef, SMT

(* The bytes BytesAt cuts out are a sequence of bytes.                     *)
LEMMA BytesAtType ==
    ASSUME NEW m \in Seq(Byte), NEW at \in Nat, NEW n \in Nat,
           at + n <= Len(m)
    PROVE  BytesAt(m, at, n) \in Seq(Byte)
<1>1. \A i \in 1 .. n : m[at + i] \in Byte
  BY ElementOfSeq
<1>2. BytesAt(m, at, n) \in [1 .. n -> Byte]
  BY <1>1 DEF BytesAt
<1> QED BY <1>2, FunctionIsSeq

(* Two memories have the same bytes exactly when they agree one by one.    *)
LEMMA BytesAtEqual ==
    ASSUME NEW m1, NEW m2, NEW a1 \in Int, NEW a2 \in Int, NEW n \in Int
    PROVE  BytesAt(m1, a1, n) = BytesAt(m2, a2, n)
              <=> \A i \in 1 .. n : m1[a1 + i] = m2[a2 + i]
BY DEF BytesAt

LEMMA BytesAtFront ==
    ASSUME NEW m1, NEW m2, NEW n \in Int
    PROVE  BytesAt(m1, 0, n) = BytesAt(m2, 0, n) <=> \A i \in 1 .. n : m1[i] = m2[i]
<1>1. \A i \in 1 .. n : 0 + i = i
  OBVIOUS
<1>2. (\A i \in 1 .. n : m1[0 + i] = m2[0 + i]) <=> \A i \in 1 .. n : m1[i] = m2[i]
  BY <1>1, Zenon
<1>3. BytesAt(m1, 0, n) = BytesAt(m2, 0, n)
         <=> \A i \in 1 .. n : m1[0 + i] = m2[0 + i]
  BY BytesAtEqual
<1> QED BY <1>2, <1>3

(* Memories that agree on a range agree on every part of it.               *)
LEMMA BytesAtPart ==
    ASSUME NEW m1, NEW m2, NEW a1 \in Int, NEW a2 \in Int, NEW n \in Int,
           NEW d \in Nat, NEW k \in Int, d + k <= n,
           BytesAt(m1, a1, n) = BytesAt(m2, a2, n)
    PROVE  BytesAt(m1, a1 + d, k) = BytesAt(m2, a2 + d, k)
<1>1. \A i \in 1 .. n : m1[a1 + i] = m2[a2 + i]
  BY BytesAtEqual
<1>2. ASSUME NEW i \in 1 .. k PROVE m1[a1 + d + i] = m2[a2 + d + i]
  <2> DEFINE j == d + i
  <2>1. j \in 1 .. n /\ a1 + d + i = a1 + j /\ a2 + d + i = a2 + j
    OBVIOUS
  <2> HIDE DEF j
  <2> QED BY <1>1, <2>1
<1> QED BY <1>2 DEF BytesAt

(* The size field of a header that lies in the memory is a number.         *)
LEMMA MessageSizeType ==
    ASSUME NEW m \in Seq(Byte), NEW at \in Nat, at + HeaderSize <= Len(m)
    PROVE  MessageSize(m, at) \in Nat
<1>1. m[at + 1] \in Byte /\ m[at + 2] \in Byte
  BY ElementOfSeq DEF HeaderSize
<1>2. /\ m[at + 1] \in Nat /\ m[at + 2] \in Nat /\ Base \in Nat
  BY <1>1, BaseAssumption DEF Byte
<1>3. m[at + 1] * Base \in Nat
  BY <1>2
<1> QED BY <1>2, <1>3 DEF MessageSize

WindowOK ==
    /\ mem \in Seq(Byte)
    /\ begin \in Nat
    /\ end \in Nat

(* The header at begin and the one at `at` of the stream are the same, and *)
(* the block fits in the window when it is complete in what it stands for. *)
LEMMA HeaderMirrors ==
    ASSUME NEW s, NEW at \in Nat, WindowOK, WindowMirrors(s, at), HeaderFits
    PROVE  /\ MessageSize(mem, begin) = MessageSize(s, at)
           /\ MessageSize(s, at) \in Nat
           /\ MessageFits <=> CompleteBlock(s, at, at + (end - begin))
<1>1. /\ begin \in Nat /\ end \in Nat /\ begin + HeaderSize <= end /\ end <= Len(mem)
      /\ mem \in Seq(Byte) /\ Len(mem) \in Nat
  BY LenProperties DEF WindowOK, WindowMirrors, HeaderFits, HeaderSize
<1>2. \A i \in 1 .. end - begin : mem[begin + i] = s[at + i]
  BY <1>1, BytesAtEqual DEF WindowMirrors
<1>3. mem[begin + 1] = s[at + 1] /\ mem[begin + 2] = s[at + 2]
  BY <1>1, <1>2 DEF HeaderSize
<1>4. MessageSize(mem, begin) = MessageSize(s, at)
  BY <1>3 DEF MessageSize
<1>5. MessageSize(mem, begin) \in Nat
  <2>1. begin + HeaderSize <= Len(mem)
    BY <1>1 DEF HeaderSize
  <2> QED BY <1>1, <2>1, MessageSizeType
<1> QED
  BY <1>1, <1>4, <1>5 DEF MessageFits, AfterHeader, CompleteBlock, HeaderSize

(* A block that fits in the window is complete in the stream, and its      *)
(* message the same bytes.                                                 *)
LEMMA BlockMirrors ==
    ASSUME NEW s, NEW at \in Nat, WindowOK, WindowMirrors(s, at), HeaderFits, MessageFits
    PROVE  /\ CompleteBlock(s, at, at + (end - begin))
           /\ MessageSize(mem, begin) = MessageSize(s, at)
           /\ BlockSize(s, at) \in Nat \ {0}
           /\ begin + BlockSize(s, at) <= end
           /\ BytesAt(mem, AfterHeader, MessageSize(mem, begin)) \in Seq(Byte)
           /\ BytesAt(mem, AfterHeader, MessageSize(mem, begin))
                 = BytesAt(s, at + HeaderSize, MessageSize(s, at))
<1> DEFINE size == MessageSize(s, at)
<1>1. /\ MessageSize(mem, begin) = size /\ size \in Nat
      /\ CompleteBlock(s, at, at + (end - begin))
  BY HeaderMirrors
<1> HIDE DEF size
<1>2. /\ begin \in Nat /\ end \in Nat /\ end <= Len(mem) /\ mem \in Seq(Byte)
      /\ Len(mem) \in Nat
      /\ BytesAt(mem, begin, end - begin) = BytesAt(s, at, end - begin)
  BY LenProperties DEF WindowOK, WindowMirrors
<1>3. begin + HeaderSize + size <= end
  BY <1>1, <1>2 DEF MessageFits, AfterHeader, HeaderSize
<1>4. BlockSize(s, at) = HeaderSize + size /\ BlockSize(s, at) \in Nat \ {0}
  BY <1>1 DEF BlockSize, HeaderSize, size
<1>5. begin + BlockSize(s, at) <= end
  BY <1>1, <1>2, <1>3, <1>4 DEF HeaderSize
<1>6. BytesAt(mem, begin + HeaderSize, size) \in Seq(Byte)
  BY <1>1, <1>2, <1>3, BytesAtType DEF HeaderSize
<1>7. BytesAt(mem, begin + HeaderSize, size) = BytesAt(s, at + HeaderSize, size)
  <2>1. HeaderSize \in Nat /\ HeaderSize + size <= end - begin
    BY <1>1, <1>2, <1>3 DEF HeaderSize
  <2> QED BY <1>1, <1>2, <2>1, BytesAtPart
<1> QED
  BY <1>1, <1>4, <1>5, <1>6, <1>7 DEF AfterHeader, size

(* A call of the processor delivers the block of the stream at `at`, and   *)
(* the rest of the window stands for what follows that block.              *)
LEMMA ProcessAdvances ==
    ASSUME NEW s, NEW at \in Nat, WindowOK, WindowMirrors(s, at), Process
    PROVE  /\ CompleteBlock(s, at, at + (end - begin))
           /\ BlockSize(s, at) \in Nat \ {0}
           /\ begin' = begin + BlockSize(s, at)
           /\ begin' <= end
           /\ BytesAt(mem, AfterHeader, MessageSize(mem, begin)) \in Seq(Byte)
           /\ BytesAt(mem, AfterHeader, MessageSize(mem, begin))
                 = BytesAt(s, at + HeaderSize, MessageSize(s, at))
           /\ BytesAt(mem, begin', end - begin')
                 = BytesAt(s, at + BlockSize(s, at), end - begin')
<1> DEFINE block == BlockSize(s, at)
           n     == end - begin - block
<1>1. /\ CompleteBlock(s, at, at + (end - begin))
      /\ MessageSize(mem, begin) = MessageSize(s, at) /\ MessageSize(s, at) \in Nat
      /\ block \in Nat \ {0} /\ begin + block <= end
      /\ BytesAt(mem, AfterHeader, MessageSize(mem, begin)) \in Seq(Byte)
      /\ BytesAt(mem, AfterHeader, MessageSize(mem, begin))
            = BytesAt(s, at + HeaderSize, MessageSize(s, at))
  BY BlockMirrors, HeaderMirrors DEF Process
<1>2. /\ begin \in Nat /\ end \in Nat
      /\ BytesAt(mem, begin, end - begin) = BytesAt(s, at, end - begin)
  BY DEF WindowOK, WindowMirrors
<1>3. begin' = begin + block
  BY <1>1, <1>2 DEF Process, AfterHeader, BlockSize, HeaderSize
<1> HIDE DEF block
<1>4. n \in Int /\ block + n <= end - begin /\ end - begin' = n
  BY <1>1, <1>2, <1>3
<1> HIDE DEF n
<1>5. BytesAt(mem, begin + block, n) = BytesAt(s, at + block, n)
  BY <1>1, <1>2, <1>4, BytesAtPart
<1> QED
  BY <1>1, <1>3, <1>4, <1>5 DEF block

(* The loop breaks where no block is complete, and leaves begin there.     *)
LEMMA CutStays ==
    ASSUME NEW s, NEW at \in Nat, WindowOK, WindowMirrors(s, at),
           HeaderCut \/ MessageCut
    PROVE  /\ begin' = begin
           /\ ~CompleteBlock(s, at, at + (end - begin))
<1>1. begin' = begin
  BY DEF HeaderCut, MessageCut, WindowOK, AfterHeader, HeaderSize
<1>2. ~CompleteBlock(s, at, at + (end - begin))
  <2>1. CASE ~HeaderFits
    BY <2>1 DEF HeaderFits, CompleteBlock, WindowOK, HeaderSize
  <2>2. CASE HeaderFits /\ ~MessageFits
    BY <2>2, HeaderMirrors
  <2> QED BY <2>1, <2>2 DEF HeaderCut, MessageCut
<1> QED BY <1>1, <1>2
=============================================================================
