------------------------- MODULE WireMessageProofs --------------------------
(***************************************************************************)
(* For every protocol, every message and every cut: the decoder stays      *)
(* inside the message it was given, unless a blockLength on the wire is    *)
(* below the size of an item, and reads exactly what was sent if it knows  *)
(* its sizes, be they of its own version or of another. IInv is about the  *)
(* first, in which what the sum EncodedSize is plays no part, Exact about  *)
(* the second. The last two parts are about WireVersions: what follows of  *)
(* the messages that its tables share, and of Eurex's repeated entries.    *)
(***************************************************************************)
EXTENDS WireVersions, WellFoundedInduction, FiniteSetTheorems, TLAPS

(* While items are being decoded, those still to come fit in what is left. *)
ItemsAreThere ==
    pc = "decode_items" =>
        /\ group \in 1 .. Len(layout.groups)
        /\ covered => cursor + left * ThisGroup.item <= end

EncodesWithin ==
    pc = "encode_items" => group \in 1 .. Len(sent.groups)

(* The inductive invariant: the types, and that no codec is behind end.    *)
Types ==
    /\ \E v \in DOMAIN Layouts : sent \in Layouts[v] /\ reader \in Readers[v]
    /\ counts \in [1 .. Len(sent.groups) -> Counts]
    /\ layout \in {sent} \union Layouts[reader]
    /\ end \in Nat
    /\ cursor \in Nat
    /\ group \in Nat \ {0}
    /\ left \in Nat
    /\ found \in Seq(Nat)

Flags == own \in BOOLEAN /\ covered \in BOOLEAN

Controls == pc \in {"encode_root", "encode_group", "encode_items", "unsent", "overrun",
                    "dispatch", "decode_root", "decode_group", "decode_items", "thrown",
                    "outside", "decoded"}

Inside == cursor <= end

IInv == Types /\ Flags /\ Controls /\ EncodesWithin /\ ItemsAreThere /\ InsideWhenCovered

Groups(l) ==
    /\ Len(l.groups) \in Nat
    /\ \A k \in 1 .. Len(l.groups) : IsGroup(l.groups[k])

(* Any layout that is written or chosen has sizes that are numbers.        *)
LEMMA LayoutNumbers ==
    ASSUME Types
    PROVE  /\ sent.root \in Nat
           /\ Groups(sent)
           /\ layout.root \in Nat
           /\ Groups(layout)
    <1>1. PICK v \in DOMAIN Layouts : sent \in Layouts[v] /\ reader \in Readers[v]
        BY DEF Types
    <1>2. sent.root \in Nat /\ Groups(sent)
        BY <1>1, LayoutsAssumption DEF Groups
    <1>3. reader \in DOMAIN Layouts
        BY <1>1, ReadersAssumption
    <1>4. CASE layout = sent
        BY <1>2, <1>4
    <1>5. CASE layout \in Layouts[reader]
        BY <1>2, <1>3, <1>5, LayoutsAssumption DEF Groups
    <1> QED
        BY <1>4, <1>5 DEF Types

(* Items of at most blockLength bytes need no more room than the check of  *)
(* the header has seen.                                                    *)
LEMMA ItemsNeedNoMore ==
    ASSUME NEW n \in Nat, NEW item \in Nat, NEW blockLength \in Nat, blockLength >= item
    PROVE  n * item <= n * blockLength
    OBVIOUS

LEMMA OneItemLess ==
    ASSUME NEW n \in Nat, NEW item \in Nat, n > 0
    PROVE  n * item = (n - 1) * item + item /\ (n - 1) * item \in Nat
    OBVIOUS

(* Whatever is read as a group header has two numbers.                     *)
LEMMA HeaderNumbers ==
    ASSUME Types, NEW h \in HeadersHere
    PROVE  h.blockLength \in Nat /\ h.numInGroup \in Nat
    <1>1. CASE h \in Garbage
        BY <1>1, GarbageAssumption
    <1>2. CASE \E k \in 1 .. Len(sent.groups) : h = Written(k)
        <2>1. PICK k \in 1 .. Len(sent.groups) : h = Written(k)
            BY <1>2
        <2>2. sent.groups[k].modulus \in Nat \ {0} /\ sent.groups[k].item \in Nat
            BY LayoutNumbers DEF Groups, IsGroup
        <2>3. counts[k] \in Nat
            BY NumbersAssumption DEF Types
        <2>4. counts[k] % sent.groups[k].modulus \in Nat
            BY <2>2, <2>3
        <2> QED
            BY <2>1, <2>2, <2>4 DEF Written, Cast
    <1> QED
        BY <1>1, <1>2 DEF HeadersHere

(* What every step but the choice of the layout has to show for Types.     *)
LEMMA TypesKept ==
    ASSUME Types, UNCHANGED <<message, layout>>,
           end' \in Nat, cursor' \in Nat, group' \in Nat \ {0}, left' \in Nat,
           found' \in Seq(Nat)
    PROVE  Types'
    BY DEF Types, message

LEMMA InitIInv == Init => IInv
    <1> SUFFICES ASSUME Init PROVE IInv
        OBVIOUS
    <1> USE DEF Init
    <1>1. end \in Nat
        BY NumbersAssumption
    <1>2. Types
        BY <1>1 DEF Types
    <1>3. Flags
        BY DEF Flags
    <1>4. Controls
        BY DEF Controls
    <1> QED
        BY <1>1, <1>2, <1>3, <1>4
        DEF IInv, EncodesWithin, ItemsAreThere, InsideWhenCovered

(* Giving up changes nothing but pc.                                       *)
LEMMA GiveUpKeeps ==
    ASSUME IInv, NEW how \in {"unsent", "overrun", "thrown", "outside"}, GiveUp(how),
           how = "outside" => ~covered
    PROVE  IInv'
    <1> USE DEF IInv, GiveUp
    <1>1. Types'
        BY DEF Types, message
    <1>2. Flags'
        BY DEF Flags, message
    <1>3. Controls'
        BY DEF Controls
    <1> QED
        BY <1>1, <1>2, <1>3 DEF EncodesWithin, ItemsAreThere, InsideWhenCovered

LEMMA EncodeKeeps == ASSUME IInv, Encode PROVE IInv'
    <1> USE DEF IInv
    <1>1. CASE EncodeRoot
        <2>1. Types'
            BY <1>1, LayoutNumbers, TypesKept DEF EncodeRoot, Types
        <2> QED
            BY <1>1, <2>1
            DEF EncodeRoot, Flags, Controls, EncodesWithin, ItemsAreThere,
                InsideWhenCovered, message
    <1>2. CASE EncodeHeader
        <2>1. group \in 1 .. Len(sent.groups)
            BY <1>2, LayoutNumbers DEF Groups, EncodeHeader, Types
        <2>2. sent.groups[group].header \in Nat /\ counts[group] \in Nat
            BY <2>1, LayoutNumbers, NumbersAssumption DEF Groups, IsGroup, Types
        <2>3. Types'
            BY <1>2, <2>2, TypesKept DEF EncodeHeader, Types
        <2>4. cursor' <= end'
            BY <1>2, <2>2 DEF EncodeHeader, Types
        <2> QED
            BY <1>2, <2>1, <2>3, <2>4
            DEF EncodeHeader, Flags, Controls, EncodesWithin, ItemsAreThere,
                InsideWhenCovered, message
    <1>3. CASE EncodeItem
        <2>1. sent.groups[group].item \in Nat
            BY <1>3, LayoutNumbers DEF Groups, IsGroup, EncodeItem, EncodesWithin
        <2>2. Types'
            BY <1>3, <2>1, TypesKept DEF EncodeItem, Types
        <2> QED
            BY <1>3, <2>2
            DEF EncodeItem, Flags, Controls, EncodesWithin, ItemsAreThere,
                InsideWhenCovered, message
    <1>4. CASE EncodeNext
        <2>1. Types'
            BY <1>4, TypesKept DEF EncodeNext, Types
        <2> QED
            BY <1>4, <2>1
            DEF EncodeNext, Flags, Controls, EncodesWithin, ItemsAreThere,
                InsideWhenCovered, message
    <1>5. CASE Encoded
        <2>1. PICK cut \in Cuts : cut <= cursor /\ end' = cursor - cut
            BY <1>5 DEF Encoded
        <2>2. end' \in Nat
            BY <2>1, NumbersAssumption DEF Types
        <2>3. Types'
            BY <1>5, <2>2, TypesKept DEF Encoded, Types
        <2> QED
            BY <1>5, <2>2, <2>3
            DEF Encoded, Flags, Controls, EncodesWithin, ItemsAreThere,
                InsideWhenCovered, message
    <1>6. CASE RootDoesNotFit
        BY <1>6, GiveUpKeeps DEF RootDoesNotFit
    <1>7. CASE HeaderDoesNotFit
        BY <1>7, GiveUpKeeps DEF HeaderDoesNotFit
    <1>8. CASE EncodeOutside
        BY <1>8, GiveUpKeeps DEF EncodeOutside
    <1> QED
        BY <1>1, <1>2, <1>3, <1>4, <1>5, <1>6, <1>7, <1>8 DEF Encode

(* The check of the header is made for all its items at once.              *)
LEMMA DecodeHeaderKeeps == ASSUME IInv, DecodeHeader PROVE IInv'
    <1> USE DEF IInv
    <1>1. group \in 1 .. Len(layout.groups)
        BY LayoutNumbers DEF Groups, DecodeHeader, Types
    <1>2. ThisGroup.header \in Nat /\ ThisGroup.item \in Nat
        BY <1>1, LayoutNumbers DEF Groups, IsGroup, ThisGroup
    <1>3. PICK h \in HeadersHere :
              /\ Overflows(h) \/ ItemsFit(h, end - cursor - ThisGroup.header)
              /\ left' = h.numInGroup
              /\ found' = Append(found, h.numInGroup)
              /\ covered' = (covered /\ ~Overflows(h) /\ h.blockLength >= ThisGroup.item)
        BY DEF DecodeHeader
    <1>4. h.blockLength \in Nat /\ h.numInGroup \in Nat
        BY HeaderNumbers
    <1>5. Types'
        BY <1>2, <1>3, <1>4, TypesKept DEF DecodeHeader, Types
    <1>6. Flags'
        BY <1>3 DEF DecodeHeader, Flags, message
    <1>7. Inside'
        BY <1>2 DEF DecodeHeader, HeaderFitsRoom, Inside, Types
    <1>8. covered' => cursor' + left' * ThisGroup.item <= end
        <2>1. SUFFICES ASSUME covered'
                       PROVE  cursor' + left' * ThisGroup.item <= end
            OBVIOUS
        <2>2. ~Overflows(h) /\ h.blockLength >= ThisGroup.item
            BY <1>3, <2>1
        <2>3. end - cursor - ThisGroup.header >= h.blockLength * h.numInGroup
            BY <1>3, <2>2 DEF ItemsFit
        <2>4. h.numInGroup * ThisGroup.item <= h.numInGroup * h.blockLength
            BY <1>2, <1>4, <2>2, ItemsNeedNoMore
        <2>5. h.numInGroup * h.blockLength = h.blockLength * h.numInGroup
            BY <1>4
        <2>6. h.numInGroup * ThisGroup.item \in Nat /\ h.blockLength * h.numInGroup \in Nat
            BY <1>2, <1>4
        <2>7. cursor' = cursor + ThisGroup.header
            BY DEF DecodeHeader
        <2> QED
            BY <1>2, <1>3, <2>3, <2>4, <2>5, <2>6, <2>7 DEF Types
    <1>9. ItemsAreThere'
        BY <1>1, <1>8 DEF DecodeHeader, ItemsAreThere, ThisGroup
    <1> QED
        BY <1>5, <1>6, <1>7, <1>9
        DEF DecodeHeader, Controls, EncodesWithin, InsideWhenCovered, Inside

LEMMA DecodeItemKeeps == ASSUME IInv, DecodeItem PROVE IInv'
    <1> USE DEF IInv
    <1>1. group \in 1 .. Len(layout.groups)
        BY DEF DecodeItem, ItemsAreThere
    <1>2. ThisGroup.item \in Nat
        BY <1>1, LayoutNumbers DEF Groups, IsGroup, ThisGroup
    <1>3. Types'
        BY <1>2, TypesKept DEF DecodeItem, Types
    <1>4. covered => cursor' + left' * ThisGroup.item <= end
        <2>1. left * ThisGroup.item = left' * ThisGroup.item + ThisGroup.item
            BY <1>2, OneItemLess DEF DecodeItem, Types
        <2>2. left' * ThisGroup.item \in Nat
            BY <1>2, OneItemLess DEF DecodeItem, Types
        <2> QED
            BY <1>2, <2>1, <2>2 DEF DecodeItem, ItemsAreThere, Types
    <1>5. ItemsAreThere'
        BY <1>1, <1>4 DEF DecodeItem, ItemsAreThere, ThisGroup
    <1> QED
        BY <1>3, <1>5
        DEF DecodeItem, Flags, Controls, EncodesWithin, InsideWhenCovered, message

(* With every header covered there is no item that is not there.           *)
LEMMA DecodeOutsideUncovered == ASSUME IInv, DecodeOutside PROVE ~covered
    <1> USE DEF IInv
    <1>1. group \in 1 .. Len(layout.groups)
        BY DEF DecodeOutside, ItemsAreThere
    <1>2. ThisGroup.item \in Nat
        BY <1>1, LayoutNumbers DEF Groups, IsGroup, ThisGroup
    <1>3. left * ThisGroup.item = (left - 1) * ThisGroup.item + ThisGroup.item
          /\ (left - 1) * ThisGroup.item \in Nat
        BY <1>2, OneItemLess DEF DecodeOutside, Types
    <1> QED
        BY <1>2, <1>3 DEF DecodeOutside, ItemsAreThere, Types

LEMMA DecodeKeeps == ASSUME IInv, Decode PROVE IInv'
    <1> USE DEF IInv
    <1>1. CASE Dispatch
        <2>1. Types'
            BY <1>1 DEF Dispatch, Types, message
        <2> QED
            BY <1>1, <2>1
            DEF Dispatch, Flags, Controls, EncodesWithin, ItemsAreThere,
                InsideWhenCovered, message
    <1>2. CASE DecodeRoot
        <2>1. Types'
            BY <1>2, LayoutNumbers, TypesKept DEF DecodeRoot, Types
        <2> QED
            BY <1>2, <2>1
            DEF DecodeRoot, Flags, Controls, EncodesWithin, ItemsAreThere,
                InsideWhenCovered, message
    <1>3. CASE DecodeHeader
        BY <1>3, DecodeHeaderKeeps
    <1>4. CASE DecodeItem
        BY <1>4, DecodeItemKeeps
    <1>5. CASE DecodeNext
        <2>1. Types'
            BY <1>5, TypesKept DEF DecodeNext, Types
        <2> QED
            BY <1>5, <2>1
            DEF DecodeNext, Flags, Controls, EncodesWithin, ItemsAreThere,
                InsideWhenCovered, message
    <1>6. CASE Decoded
        <2>1. Types'
            BY <1>6, TypesKept DEF Decoded, Types
        <2> QED
            BY <1>6, <2>1
            DEF Decoded, Flags, Controls, EncodesWithin, ItemsAreThere,
                InsideWhenCovered, message
    <1>7. CASE NoSuchType
        BY <1>7, GiveUpKeeps DEF NoSuchType
    <1>8. CASE RootCut
        BY <1>8, GiveUpKeeps DEF RootCut
    <1>9. CASE HeaderCutOff
        BY <1>9, GiveUpKeeps DEF HeaderCutOff
    <1>10. CASE ItemsCutOff
        BY <1>10, GiveUpKeeps DEF ItemsCutOff
    <1>11. CASE DecodeOutside
        BY <1>11, GiveUpKeeps, DecodeOutsideUncovered DEF DecodeOutside
    <1> QED
        BY <1>1, <1>2, <1>3, <1>4, <1>5, <1>6, <1>7, <1>8, <1>9, <1>10, <1>11 DEF Decode

LEMMA StutterKeeps == ASSUME IInv, UNCHANGED vars PROVE IInv'
    <1> USE DEF IInv, vars
    <1>1. Types'
        BY DEF Types
    <1>2. Flags' /\ Controls'
        BY DEF Flags, Controls
    <1> QED
        BY <1>1, <1>2 DEF EncodesWithin, ItemsAreThere, InsideWhenCovered, ThisGroup

(* The inductive invariant holds in every reachable state.                 *)
THEOREM Invariance == Spec => []IInv
    <1>1. IInv /\ [Next]_vars => IInv'
        BY EncodeKeeps, DecodeKeeps, StutterKeeps DEF Next
    <1> QED
        BY InitIInv, <1>1, PTL DEF Spec

(* Type correctness of the codec.                                          *)
THEOREM TypeCorrect == Spec => []TypeOK
    <1>1. IInv => TypeOK
        BY DEF IInv, Types, Flags, Controls, TypeOK
    <1> QED
        BY Invariance, <1>1, PTL

(* No codec moves behind the end, and the decoder reads behind it only     *)
(* after a blockLength that is too small, in any protocol of this kind.    *)
THEOREM InsideCorrect == Spec => []InsideWhenCovered
    <1>1. IInv => InsideWhenCovered
        BY DEF IInv
    <1> QED
        BY Invariance, <1>1, PTL
-----------------------------------------------------------------------------
(* What is where: the encoder writes every group at the place GroupsAt     *)
(* gives it, and a decoder with the same sizes finds it there.             *)
Sized == end <= EncodedSize /\ end <= MaxSize

Encodes ==
    /\ pc = "encode_root" => cursor = 0
    /\ pc \in {"encode_root", "encode_group", "encode_items", "dispatch", "decode_root"} =>
           found = << >>
    /\ pc \in {"encode_root", "dispatch", "decode_root"} => group = 1
    /\ pc = "encode_group" =>
           group \in 1 .. Len(sent.groups) + 1 /\ cursor = WireAt(group)
    /\ pc = "encode_items" => cursor + left * sent.groups[group].item = WireAt(group + 1)
    /\ pc \in {"unsent", "overrun"} => end < EncodedSize

FoundFirst(n) == Len(found) = n /\ \A k \in 1 .. n : found[k] = counts[k]

(* The decoder has chosen an alternative of the same sizes, or can.        *)
Known == SameSizes(layout, sent)
Offered == \E l \in Layouts[reader] : l.id = sent.id /\ SameSizes(l, sent)

Decodes ==
    Known /\ Countable =>
        /\ pc = "decode_group" =>
               /\ group \in 1 .. Len(sent.groups) + 1
               /\ cursor = WireAt(group)
               /\ FoundFirst(group - 1)
        /\ pc = "decode_items" =>
               /\ cursor + left * sent.groups[group].item = WireAt(group + 1)
               /\ FoundFirst(group)
        /\ pc = "decoded" => cursor = EncodedSize /\ FoundFirst(Len(sent.groups))

(* A whole message of which the reader has the sizes is not given up.      *)
Whole ==
    /\ layout.id = sent.id
    /\ pc \in {"decode_root", "decode_group", "decode_items", "decoded"} =>
           layout \in Layouts[reader]
    /\ Offered /\ Countable /\ end = EncodedSize => pc \notin {"thrown", "outside"}

Exact == Sized /\ Encodes /\ Decodes /\ Whole

(* A set with 0 and with the successor of each of its numbers has them all.*)
LEMMA NatSetInduction ==
    ASSUME NEW S, 0 \in S, \A n \in Nat : n \in S => n + 1 \in S
    PROVE  Nat \subseteq S
    <1> DEFINE R == OpToRel(<, Nat)
               T == Nat \ S
    <1>1. IsWellFoundedOn(R, Nat)
        BY NatLessThanWellFounded
    <1>2. \A n \in Nat \ {0} : <<n - 1, n>> \in R
        BY DEF OpToRel
    <1> HIDE DEF R
    <1> SUFFICES ASSUME T # {} PROVE FALSE
        OBVIOUS
    <1>3. PICK m \in T : \A n \in T : ~ (<<n, m>> \in R)
        BY <1>1, WFMin
    <1>4. m \in Nat \ {0} /\ m - 1 \in Nat
        OBVIOUS
    <1>5. m - 1 \in S
        BY <1>2, <1>3, <1>4
    <1> QED
        BY <1>4, <1>5

(* There is the function of running sums: r, and each size added in turn.  *)
LEMMA RunningSum ==
    ASSUME NEW n \in Nat, NEW r \in Nat, NEW size \in [1 .. n -> Nat]
    PROVE  \E g : g = [k \in 1 .. n + 1 |-> IF k = 1 THEN r ELSE g[k - 1] + size[k - 1]]
    <1> DEFINE Sums(m, g) ==
                   g = [k \in 1 .. m + 1 |-> IF k = 1 THEN r ELSE g[k - 1] + size[k - 1]]
               S == {m \in Nat : m <= n => \E g : Sums(m, g)}
    <1>1. 0 \in S
        <2>1. Sums(0, [k \in {1} |-> r])
            OBVIOUS
        <2> QED
            BY <2>1
    <1>2. ASSUME NEW m \in Nat, m \in S PROVE m + 1 \in S
        <2> SUFFICES ASSUME m + 1 <= n PROVE \E g : Sums(m + 1, g)
            OBVIOUS
        <2>1. PICK g : Sums(m, g)
            BY <1>2
        <2> DEFINE h == [k \in 1 .. m + 2 |->
                            IF k = m + 2 THEN g[m + 1] + size[m + 1] ELSE g[k]]
        <2>2. \A k \in 1 .. m + 2 : h[k] = IF k = 1 THEN r ELSE h[k - 1] + size[k - 1]
            BY <2>1
        <2>3. h = [k \in 1 .. m + 2 |-> IF k = 1 THEN r ELSE h[k - 1] + size[k - 1]]
            BY <2>2
        <2>4. m + 2 = (m + 1) + 1
            OBVIOUS
        <2> HIDE DEF h
        <2> QED
            BY <2>3, <2>4
    <1> HIDE DEF S
    <1>3. n \in S
        BY <1>1, <1>2, NatSetInduction
    <1> QED
        BY <1>3 DEF S

(* Such a function takes natural numbers, and each step adds one size.     *)
LEMMA RunningSumValues ==
    ASSUME NEW n \in Nat, NEW r \in Nat, NEW size \in [1 .. n -> Nat], NEW g,
           g = [k \in 1 .. n + 1 |-> IF k = 1 THEN r ELSE g[k - 1] + size[k - 1]]
    PROVE  /\ g[1] = r
           /\ \A k \in 1 .. n : g[k + 1] = g[k] + size[k]
           /\ \A k \in 1 .. n + 1 : g[k] \in Nat
    <1>1. g[1] = r
        OBVIOUS
    <1>2. ASSUME NEW k \in 1 .. n PROVE g[k + 1] = g[k] + size[k]
        <2>1. k + 1 \in 1 .. n + 1 /\ k + 1 # 1 /\ (k + 1) - 1 = k
            OBVIOUS
        <2> QED
            BY <2>1
    <1> DEFINE S == {m \in Nat : m <= n => g[m + 1] \in Nat}
    <1>3. 0 \in S
        BY <1>1
    <1>4. ASSUME NEW m \in Nat, m \in S PROVE m + 1 \in S
        <2> SUFFICES ASSUME m + 1 <= n PROVE g[(m + 1) + 1] \in Nat
            OBVIOUS
        <2>1. m + 1 \in 1 .. n
            OBVIOUS
        <2>2. g[(m + 1) + 1] = g[m + 1] + size[m + 1]
            BY <1>2, <2>1
        <2>3. size[m + 1] \in Nat
            BY <2>1
        <2> QED
            BY <1>4, <2>2, <2>3
    <1> HIDE DEF S
    <1>5. Nat \subseteq S
        BY <1>3, <1>4, NatSetInduction
    <1>6. ASSUME NEW k \in 1 .. n + 1 PROVE g[k] \in Nat
        <2>1. k - 1 \in S /\ k - 1 <= n /\ (k - 1) + 1 = k
            BY <1>5
        <2> QED
            BY <2>1 DEF S
    <1> QED
        BY <1>1, <1>2, <1>6

(* And it does not decrease.                                               *)
LEMMA RunningSumGrows ==
    ASSUME NEW n \in Nat, NEW g,
           \A k \in 1 .. n + 1 : g[k] \in Nat,
           \A k \in 1 .. n : g[k] <= g[k + 1],
           NEW j \in 1 .. n + 1, NEW k \in j .. n + 1
    PROVE  g[j] <= g[k]
    <1> DEFINE S == {m \in Nat : j + m <= n + 1 => g[j] <= g[j + m]}
    <1>1. 0 \in S
        OBVIOUS
    <1>2. ASSUME NEW m \in Nat, m \in S PROVE m + 1 \in S
        <2> SUFFICES ASSUME j + (m + 1) <= n + 1 PROVE g[j] <= g[j + (m + 1)]
            OBVIOUS
        <2>1. j + m \in 1 .. n /\ (j + m) + 1 = j + (m + 1)
            OBVIOUS
        <2>2. g[j] <= g[j + m] /\ g[j + m] <= g[j + (m + 1)]
            BY <1>2, <2>1
        <2>3. j + m \in 1 .. n + 1 /\ j + (m + 1) \in 1 .. n + 1
            BY <2>1
        <2> HIDE DEF S
        <2>4. g[j] \in Nat /\ g[j + m] \in Nat /\ g[j + (m + 1)] \in Nat
            BY <2>3
        <2> QED
            BY <2>2, <2>4
    <1> HIDE DEF S
    <1>3. k - j \in S
        <2>1. k - j \in Nat
            OBVIOUS
        <2> QED
            BY <1>1, <1>2, <2>1, NatSetInduction
    <1>4. j + (k - j) = k
        OBVIOUS
    <1> QED
        BY <1>3, <1>4 DEF S

(* The groups follow one another, each behind the items of the one before. *)
LEMMA GroupsFollow ==
    ASSUME NEW l, l.root \in Nat, Groups(l), NEW n \in [1 .. Len(l.groups) -> Nat]
    PROVE  /\ GroupsAt(l, n)[1] = l.root
           /\ \A k \in 1 .. Len(l.groups) + 1 : GroupsAt(l, n)[k] \in Nat
           /\ \A k \in 1 .. Len(l.groups) :
                  GroupsAt(l, n)[k + 1] =
                      GroupsAt(l, n)[k] + l.groups[k].header + l.groups[k].item * n[k]
           /\ \A j \in 1 .. Len(l.groups) + 1 : \A k \in j .. Len(l.groups) + 1 :
                  GroupsAt(l, n)[j] <= GroupsAt(l, n)[k]
    <1> DEFINE N == Len(l.groups)
               size == [k \in 1 .. N |-> SizeOfGroup(l.groups[k], n[k])]
               at == GroupsAt(l, n)
    <1>1. \A k \in 1 .. N :
              /\ l.groups[k].header \in Nat /\ l.groups[k].item \in Nat /\ n[k] \in Nat
              /\ l.groups[k].item * n[k] \in Nat
        BY DEF Groups, IsGroup
    <1>2. /\ N \in Nat /\ size \in [1 .. N -> Nat]
          /\ \A k \in 1 .. N : size[k] = l.groups[k].header + l.groups[k].item * n[k]
        BY <1>1 DEF Groups, SizeOfGroup
    <1>3. \A g : [k \in 1 .. N + 1 |-> IF k = 1 THEN l.root ELSE g[k - 1] + size[k - 1]]
               = [k \in 1 .. N + 1 |-> IF k = 1 THEN l.root
                                       ELSE g[k - 1] + SizeOfGroup(l.groups[k - 1], n[k - 1])]
        <2> TAKE g
        <2>1. \A k \in 1 .. N + 1 : k # 1 =>
                  size[k - 1] = SizeOfGroup(l.groups[k - 1], n[k - 1])
            BY <1>2
        <2> QED
            BY <2>1
    <1> HIDE DEF size
    <1>4. at = CHOOSE g : g = [k \in 1 .. N + 1 |-> IF k = 1 THEN l.root
                                                    ELSE g[k - 1] + size[k - 1]]
        BY <1>3, Zenon DEF GroupsAt
    <1>5. at = [k \in 1 .. N + 1 |-> IF k = 1 THEN l.root ELSE at[k - 1] + size[k - 1]]
        <2>1. \E g : g = [k \in 1 .. N + 1 |-> IF k = 1 THEN l.root ELSE g[k - 1] + size[k - 1]]
            BY <1>2, RunningSum
        <2> HIDE DEF at
        <2> QED
            BY <1>4, <2>1, Zenon
    <1> HIDE DEF at, N
    <1>6. /\ at[1] = l.root
          /\ \A k \in 1 .. N : at[k + 1] = at[k] + size[k]
          /\ \A k \in 1 .. N + 1 : at[k] \in Nat
        BY <1>2, <1>5, RunningSumValues
    <1>7. \A k \in 1 .. N : at[k + 1] = at[k] + l.groups[k].header + l.groups[k].item * n[k]
        <2> TAKE k \in 1 .. N
        <2>1. at[k] \in Nat /\ at[k + 1] = at[k] + size[k]
            BY <1>2, <1>6
        <2>2. /\ size[k] = l.groups[k].header + l.groups[k].item * n[k]
              /\ l.groups[k].header \in Nat /\ l.groups[k].item * n[k] \in Nat
            BY <1>1, <1>2
        <2> QED
            BY <2>1, <2>2
    <1>8. \A k \in 1 .. N : at[k] <= at[k + 1]
        <2> TAKE k \in 1 .. N
        <2>1. at[k] \in Nat /\ size[k] \in Nat /\ at[k + 1] = at[k] + size[k]
            BY <1>2, <1>6
        <2> QED
            BY <2>1
    <1>9. \A j \in 1 .. N + 1 : \A k \in j .. N + 1 : at[j] <= at[k]
        BY <1>2, <1>6, <1>8, RunningSumGrows
    <1> QED
        BY <1>6, <1>7, <1>9 DEF at, N

(* The same of the message that is sent, which has a group of at least one *)
(* byte at every place but the last.                                       *)
LEMMA WirePlaces ==
    ASSUME Types
    PROVE  /\ Len(sent.groups) \in Nat
           /\ WireAt(1) = sent.root /\ sent.root \in Nat
           /\ \A k \in 1 .. Len(sent.groups) + 1 :
                  WireAt(k) \in Nat /\ WireAt(k) <= EncodedSize
           /\ \A k \in 1 .. Len(sent.groups) :
                  WireAt(k + 1) =
                      WireAt(k) + sent.groups[k].header + sent.groups[k].item * counts[k]
           /\ \A j \in 1 .. Len(sent.groups) + 1 : \A k \in j .. Len(sent.groups) + 1 :
                  WireAt(j) <= WireAt(k)
           /\ EncodedSize \in Nat
    <1>1. sent.root \in Nat /\ Groups(sent) /\ Len(sent.groups) \in Nat
        BY LayoutNumbers DEF Groups
    <1>2. counts \in [1 .. Len(sent.groups) -> Nat]
        BY NumbersAssumption DEF Types
    <1> HIDE DEF Types
    <1>3. \A k \in 1 .. Len(sent.groups) + 1 : k \in 1 .. Len(sent.groups) + 1
              /\ Len(sent.groups) + 1 \in k .. Len(sent.groups) + 1
        BY <1>1
    <1>4. Len(sent.groups) + 1 \in 1 .. Len(sent.groups) + 1
        BY <1>1
    <1> QED
        BY <1>1, <1>2, <1>3, <1>4, GroupsFollow DEF WireAt, EncodedSize

LEMMA GroupNumbers ==
    ASSUME Types, NEW k \in 1 .. Len(sent.groups)
    PROVE  /\ sent.groups[k].header \in Nat \ {0}
           /\ sent.groups[k].modulus \in Nat \ {0}
           /\ sent.groups[k].item \in Nat
           /\ counts[k] \in Nat
           /\ sent.groups[k].item * counts[k] \in Nat
    <1>1. /\ sent.groups[k].header \in Nat \ {0}
          /\ sent.groups[k].modulus \in Nat \ {0}
          /\ sent.groups[k].item \in Nat
          /\ counts[k] \in Nat
        BY LayoutNumbers, NumbersAssumption DEF Groups, IsGroup, Types
    <1> QED
        BY <1>1

(* No two groups begin at the same place.                                  *)
LEMMA PlacesDiffer ==
    ASSUME Types, NEW j \in 1 .. Len(sent.groups), NEW k \in 1 .. Len(sent.groups),
           WireAt(j) = WireAt(k)
    PROVE  j = k
    <1>1. \A a, b \in 1 .. Len(sent.groups) : a < b => WireAt(a) < WireAt(b)
        <2> TAKE a, b \in 1 .. Len(sent.groups)
        <2> SUFFICES ASSUME a < b PROVE WireAt(a) < WireAt(b)
            OBVIOUS
        <2>1. a + 1 \in 1 .. Len(sent.groups) + 1 /\ b \in a + 1 .. Len(sent.groups) + 1
            BY WirePlaces
        <2>2. WireAt(a + 1) <= WireAt(b)
            BY <2>1, WirePlaces
        <2>3. WireAt(a + 1) =
                  WireAt(a) + sent.groups[a].header + sent.groups[a].item * counts[a]
            BY WirePlaces
        <2>4. WireAt(a) \in Nat /\ WireAt(a + 1) \in Nat /\ WireAt(b) \in Nat
            BY <2>1, WirePlaces
        <2>5. sent.groups[a].header \in Nat \ {0} /\ sent.groups[a].item * counts[a] \in Nat
            BY GroupNumbers
        <2> QED
            BY <2>2, <2>3, <2>4, <2>5
    <1>2. WireAt(j) \in Nat /\ WireAt(k) \in Nat
        BY WirePlaces
    <1>3. CASE j < k
        BY <1>1, <1>2, <1>3
    <1>4. CASE k < j
        BY <1>1, <1>2, <1>4
    <1> QED
        BY <1>3, <1>4, WirePlaces

(* There is one alternative with the template id, so it has these sizes.   *)
LEMMA OfferedIsKnown ==
    ASSUME Types, Offered, layout \in Layouts[reader], layout.id = sent.id
    PROVE  Known
    <1>1. PICK l \in Layouts[reader] : l.id = sent.id /\ SameSizes(l, sent)
        BY DEF Offered
    <1>2. reader \in UNION {Readers[w] : w \in DOMAIN Readers}
        BY ReadersAssumption DEF Types
    <1>3. l = layout
        BY <1>1, <1>2, IdsAssumption
    <1> QED
        BY <1>1, <1>3 DEF Known

(* What it knows of a group.                                               *)
LEMMA KnownGroup ==
    ASSUME Known, group \in 1 .. Len(sent.groups)
    PROVE  /\ ThisGroup.header = sent.groups[group].header
           /\ ThisGroup.modulus = sent.groups[group].modulus
           /\ ThisGroup.item = sent.groups[group].item
    BY DEF Known, SameSizes, ThisGroup

(* What is read where a group begins is its own header, and numInGroup is  *)
(* the number of its items if it can count them.                           *)
LEMMA HeaderAsWritten ==
    ASSUME Types, Known, Countable, group \in 1 .. Len(sent.groups),
           cursor = WireAt(group)
    PROVE  /\ HeadersHere = {Written(group)}
           /\ Written(group).numInGroup = counts[group]
           /\ Written(group).blockLength = IF own THEN 0 ELSE sent.groups[group].item
    <1> DEFINE here == {k \in 1 .. Len(sent.groups) :
                            /\ WireAt(k) = cursor
                            /\ sent.groups[k].header = ThisGroup.header
                            /\ sent.groups[k].modulus = ThisGroup.modulus}
    <1>1. here = {group}
        BY PlacesDiffer, KnownGroup
    <1>2. HeadersHere = {Written(group)}
        BY <1>1 DEF HeadersHere
    <1>3. Cast(group) = counts[group]
        <2>1. /\ counts[group] \in Nat /\ sent.groups[group].modulus \in Nat \ {0}
              /\ counts[group] < sent.groups[group].modulus
            BY GroupNumbers DEF Countable
        <2>2. \A n, m \in Nat : n < m => n % m = n
            OBVIOUS
        <2> QED
            BY <2>1, <2>2 DEF Cast
    <1> QED
        BY <1>2, <1>3 DEF Written

LEMMA SameWire ==
    ASSUME UNCHANGED message
    PROVE  /\ \A k : WireAt(k)' = WireAt(k)
           /\ EncodedSize' = EncodedSize
           /\ Countable' = Countable
           /\ Offered' = Offered
           /\ layout' = layout => Known' = Known
    BY DEF message, WireAt, EncodedSize, Countable, Offered, Known

LEMMA InitExact == Init => Exact
    <1> SUFFICES ASSUME Init PROVE Exact
        OBVIOUS
    <1>1. Types
        BY InitIInv DEF IInv
    <1>2. PICK n \in Nat : end = EncodedSize - n
        BY NumbersAssumption DEF Init
    <1>3. end <= EncodedSize
        BY <1>2, WirePlaces, <1>1
    <1>4. end <= MaxSize
        BY NumbersAssumption DEF Init
    <1>5. pc \in {"encode_root", "dispatch"} /\ cursor = 0 /\ group = 1 /\ found = << >>
          /\ layout = sent
        BY DEF Init
    <1> QED
        BY <1>3, <1>4, <1>5 DEF Exact, Sized, Encodes, Decodes, Whole

(* A codec that gives up where it may do so leaves the rest as it is.      *)
LEMMA GiveUpExact ==
    ASSUME Exact, NEW how \in {"unsent", "overrun", "thrown", "outside"}, GiveUp(how),
           how \in {"unsent", "overrun"} => end < EncodedSize,
           how \in {"thrown", "outside"} =>
               ~ (Offered /\ Countable /\ end = EncodedSize)
    PROVE  Exact'
    <1>1. /\ \A k : WireAt(k)' = WireAt(k)
          /\ EncodedSize' = EncodedSize
          /\ Countable' = Countable /\ Offered' = Offered /\ Known' = Known
        BY SameWire DEF GiveUp
    <1>2. Sized'
        BY <1>1 DEF GiveUp, Exact, Sized
    <1>3. Encodes'
        BY <1>1 DEF GiveUp, Exact, Encodes
    <1>4. Decodes'
        BY DEF GiveUp, Decodes
    <1>5. Whole'
        BY <1>1 DEF GiveUp, message, Exact, Whole
    <1> QED
        BY <1>2, <1>3, <1>4, <1>5 DEF Exact

LEMMA EncodeExact == ASSUME IInv, Exact, Encode PROVE Exact'
    <1> USE DEF IInv
    <1>1. CASE EncodeRoot
        <2>1. /\ \A k : WireAt(k)' = WireAt(k)
              /\ EncodedSize' = EncodedSize
            BY <1>1, SameWire DEF EncodeRoot
        <2>2. WireAt(1) = sent.root /\ 1 \in 1 .. Len(sent.groups) + 1
            BY WirePlaces
        <2>3. Encodes'
            BY <1>1, <2>1, <2>2 DEF EncodeRoot, message, Exact, Encodes
        <2> QED
            BY <1>1, <2>1, <2>3
            DEF EncodeRoot, message, Exact, Sized, Decodes, Whole, Countable
    <1>2. CASE EncodeHeader
        <2>1. /\ \A k : WireAt(k)' = WireAt(k)
              /\ EncodedSize' = EncodedSize
            BY <1>2, SameWire DEF EncodeHeader
        <2>2. group \in 1 .. Len(sent.groups) /\ cursor = WireAt(group)
            BY <1>2, WirePlaces DEF EncodeHeader, Exact, Encodes
        <2>3. WireAt(group + 1) =
                  WireAt(group) + sent.groups[group].header + sent.groups[group].item * counts[group]
            BY <2>2, WirePlaces
        <2>4. /\ sent.groups[group].header \in Nat /\ sent.groups[group].item \in Nat
              /\ counts[group] \in Nat /\ WireAt(group) \in Nat
            BY <2>2, GroupNumbers, WirePlaces
        <2>5. cursor' + left' * sent.groups[group].item = WireAt(group + 1)
            <3>1. left' * sent.groups[group].item = sent.groups[group].item * counts[group]
                BY <1>2, <2>4 DEF EncodeHeader
            <3>2. sent.groups[group].item * counts[group] \in Nat
                BY <2>4
            <3> QED
                BY <1>2, <2>2, <2>3, <2>4, <3>1, <3>2 DEF EncodeHeader
        <2>6. Encodes'
            BY <1>2, <2>1, <2>5 DEF EncodeHeader, message, Exact, Encodes
        <2> QED
            BY <1>2, <2>1, <2>6
            DEF EncodeHeader, message, Exact, Sized, Decodes, Whole, Countable
    <1>3. CASE EncodeItem
        <2>1. /\ \A k : WireAt(k)' = WireAt(k)
              /\ EncodedSize' = EncodedSize
            BY <1>3, SameWire DEF EncodeItem
        <2>2. group \in 1 .. Len(sent.groups) /\ sent.groups[group].item \in Nat
            BY <1>3, GroupNumbers DEF EncodeItem, EncodesWithin
        <2>3. left * sent.groups[group].item = left' * sent.groups[group].item + sent.groups[group].item
              /\ left' * sent.groups[group].item \in Nat
            BY <1>3, <2>2, OneItemLess DEF EncodeItem, Types
        <2>4. cursor' + left' * sent.groups[group].item = WireAt(group + 1)
            BY <1>3, <2>2, <2>3 DEF EncodeItem, Exact, Encodes, Types
        <2>5. Encodes'
            BY <1>3, <2>1, <2>4 DEF EncodeItem, message, Exact, Encodes
        <2> QED
            BY <1>3, <2>1, <2>5
            DEF EncodeItem, message, Exact, Sized, Decodes, Whole, Countable
    <1>4. CASE EncodeNext
        <2>1. /\ \A k : WireAt(k)' = WireAt(k)
              /\ EncodedSize' = EncodedSize
            BY <1>4, SameWire DEF EncodeNext
        <2>2. group \in 1 .. Len(sent.groups) /\ sent.groups[group].item \in Nat
            BY <1>4, GroupNumbers DEF EncodeNext, EncodesWithin
        <2>3. cursor = WireAt(group + 1)
            BY <1>4, <2>2 DEF EncodeNext, Exact, Encodes, Types
        <2>4. group + 1 \in 1 .. Len(sent.groups) + 1
            BY <2>2, WirePlaces
        <2>5. Encodes'
            BY <1>4, <2>1, <2>3, <2>4 DEF EncodeNext, message, Exact, Encodes
        <2> QED
            BY <1>4, <2>1, <2>5
            DEF EncodeNext, message, Exact, Sized, Decodes, Whole, Countable
    <1>5. CASE Encoded
        <2>1. EncodedSize' = EncodedSize
            BY <1>5, SameWire DEF Encoded
        <2>2. cursor <= EncodedSize /\ cursor <= MaxSize
            <3>1. cursor = WireAt(group) /\ group \in 1 .. Len(sent.groups) + 1
                BY <1>5 DEF Encoded, Exact, Encodes
            <3>2. cursor <= end
                BY DEF InsideWhenCovered
            <3> QED
                BY <3>1, <3>2, WirePlaces, NumbersAssumption DEF Exact, Sized, Types
        <2>3. end' <= cursor
            BY <1>5, NumbersAssumption DEF Encoded, Types
        <2>4. end' \in Int
            BY <1>5, NumbersAssumption DEF Encoded, Types
        <2>5. Sized'
            BY <2>1, <2>2, <2>3, <2>4, WirePlaces, NumbersAssumption DEF Sized, Types
        <2>6. Encodes'
            BY <1>5 DEF Encoded, Exact, Encodes
        <2> QED
            BY <1>5, <2>5, <2>6 DEF Encoded, message, Exact, Decodes, Whole
    <1>6. CASE RootDoesNotFit
        <2>1. sent.root <= EncodedSize
            BY WirePlaces
        <2>2. end < EncodedSize
            BY <1>6, <2>1, WirePlaces DEF RootDoesNotFit, Types
        <2> QED
            BY <1>6, <2>2, GiveUpExact DEF RootDoesNotFit
    <1>7. CASE HeaderDoesNotFit
        <2>1. group \in 1 .. Len(sent.groups) /\ cursor = WireAt(group)
            BY <1>7, WirePlaces DEF HeaderDoesNotFit, Exact, Encodes
        <2>2. WireAt(group + 1) =
                  WireAt(group) + sent.groups[group].header + sent.groups[group].item * counts[group]
            BY <2>1, WirePlaces
        <2>3. /\ sent.groups[group].header \in Nat
              /\ sent.groups[group].item * counts[group] \in Nat
            BY <2>1, GroupNumbers
        <2>4. group + 1 \in 1 .. Len(sent.groups) + 1
            BY <2>1, WirePlaces
        <2>5. WireAt(group + 1) <= EncodedSize /\ WireAt(group) \in Nat
            BY <2>1, <2>4, WirePlaces
        <2>6. end < EncodedSize
            BY <1>7, <2>1, <2>2, <2>3, <2>5, WirePlaces DEF HeaderDoesNotFit, Types
        <2> QED
            BY <1>7, <2>6, GiveUpExact DEF HeaderDoesNotFit
    <1>8. CASE EncodeOutside
        <2>1. group \in 1 .. Len(sent.groups) /\ sent.groups[group].item \in Nat
            BY <1>8, GroupNumbers DEF EncodeOutside, EncodesWithin
        <2>2. cursor + left * sent.groups[group].item = WireAt(group + 1)
            BY <1>8 DEF EncodeOutside, Exact, Encodes
        <2>3. left * sent.groups[group].item =
                  (left - 1) * sent.groups[group].item + sent.groups[group].item
              /\ (left - 1) * sent.groups[group].item \in Nat
            BY <1>8, <2>1, OneItemLess DEF EncodeOutside, Types
        <2>4. group + 1 \in 1 .. Len(sent.groups) + 1
            BY <2>1, WirePlaces
        <2>5. WireAt(group + 1) <= EncodedSize /\ WireAt(group + 1) \in Nat
            BY <2>4, WirePlaces
        <2>6. /\ cursor \in Nat /\ end \in Nat /\ EncodedSize \in Nat
              /\ cursor + sent.groups[group].item > end
            BY <1>8, WirePlaces DEF EncodeOutside, Types
        <2>7. cursor + sent.groups[group].item <= WireAt(group + 1)
            BY <2>1, <2>2, <2>3, <2>6
        <2>8. end < EncodedSize
            BY <2>1, <2>5, <2>6, <2>7
        <2> QED
            BY <1>8, <2>8, GiveUpExact DEF EncodeOutside
    <1> QED
        BY <1>1, <1>2, <1>3, <1>4, <1>5, <1>6, <1>7, <1>8 DEF Encode

(* The place behind the group that is decoded, if it is one that was sent. *)
LEMMA NextPlace ==
    ASSUME Types, NEW k \in 1 .. Len(sent.groups)
    PROVE  /\ k + 1 \in 1 .. Len(sent.groups) + 1
           /\ WireAt(k) \in Nat
           /\ WireAt(k + 1) \in Nat
           /\ WireAt(k + 1) <= EncodedSize
           /\ WireAt(k + 1) =
                  WireAt(k) + sent.groups[k].header + sent.groups[k].item * counts[k]
    <1>1. k + 1 \in 1 .. Len(sent.groups) + 1 /\ k \in 1 .. Len(sent.groups) + 1
        BY WirePlaces
    <1> QED
        BY <1>1, WirePlaces

(* The header of a group that was sent is there if the message is whole,   *)
(* and so is every item; no product overflows.                             *)
LEMMA WholeGroupFits ==
    ASSUME IInv, Exact, Known, Countable, end = EncodedSize,
           group \in 1 .. Len(sent.groups), cursor = WireAt(group)
    PROVE  /\ HeaderFitsRoom
           /\ \A h \in HeadersHere :
                  ~Overflows(h) /\ ItemsFit(h, end - cursor - ThisGroup.header)
    <1> USE DEF IInv
    <1>1. ThisGroup.header = sent.groups[group].header
        BY KnownGroup
    <1>2. /\ sent.groups[group].header \in Nat
          /\ sent.groups[group].item \in Nat /\ counts[group] \in Nat
          /\ sent.groups[group].item * counts[group] \in Nat
        BY GroupNumbers
    <1>3. /\ WireAt(group) \in Nat /\ WireAt(group + 1) \in Nat
          /\ WireAt(group + 1) <= EncodedSize
          /\ WireAt(group + 1) =
                 WireAt(group) + sent.groups[group].header
                     + sent.groups[group].item * counts[group]
        BY NextPlace
    <1>4. EncodedSize \in Nat /\ EncodedSize <= IntMax /\ IntMax \in Nat
        BY WirePlaces, NumbersAssumption DEF Exact, Sized
    <1>5. HeaderFitsRoom
        BY <1>1, <1>2, <1>3, <1>4 DEF HeaderFitsRoom
    <1>6. sent.groups[group].item * counts[group] <= IntMax
        BY <1>2, <1>3, <1>4
    <1>7. ASSUME NEW h \in HeadersHere
          PROVE  ~Overflows(h) /\ ItemsFit(h, end - cursor - ThisGroup.header)
        <2>1. /\ h.numInGroup = counts[group]
              /\ h.blockLength = IF own THEN 0 ELSE sent.groups[group].item
            BY HeaderAsWritten
        <2>2. \A a, b, c \in Nat : a * b <= c /\ b # 0 => ~ (a > c \div b)
            OBVIOUS
        <2>3. \A b \in Nat : 0 * b = 0
            OBVIOUS
        <2>4. h.blockLength * counts[group] <= sent.groups[group].item * counts[group]
            BY <1>2, <2>1, <2>3
        <2>5. h.blockLength \in Nat /\ h.blockLength * counts[group] \in Nat
            BY <1>2, <2>1, <2>3
        <2>6. h.blockLength * counts[group] <= IntMax
            BY <1>2, <1>4, <1>6, <2>4, <2>5
        <2>7. ~Overflows(h)
            BY <1>2, <1>4, <2>1, <2>2, <2>5, <2>6 DEF Overflows
        <2>8. end - cursor - ThisGroup.header >= sent.groups[group].item * counts[group]
            BY <1>1, <1>2, <1>3, <1>4
        <2>9. end - cursor - ThisGroup.header \in Int
            BY <1>1, <1>2, <1>3, <1>4
        <2>10. ItemsFit(h, end - cursor - ThisGroup.header)
            BY <1>2, <2>1, <2>4, <2>5, <2>8, <2>9 DEF ItemsFit
        <2> QED
            BY <2>7, <2>10
    <1> QED
        BY <1>5, <1>7

LEMMA DispatchExact == ASSUME IInv, Exact, Dispatch PROVE Exact'
    <1> USE DEF IInv
    <1>1. EncodedSize' = EncodedSize /\ Countable' = Countable /\ Offered' = Offered
        BY SameWire DEF Dispatch
    <1>2. layout' \in Layouts[reader]' /\ layout'.id = sent'.id
        BY DEF Dispatch, message
    <1>3. Sized' /\ Encodes' /\ Decodes'
        BY <1>1 DEF Dispatch, Exact, Sized, Encodes, Decodes
    <1>4. Whole'
        BY <1>1, <1>2 DEF Dispatch, Whole
    <1> QED
        BY <1>3, <1>4 DEF Exact

LEMMA DecodeRootExact == ASSUME IInv, Exact, DecodeRoot PROVE Exact'
    <1> USE DEF IInv
    <1>1. /\ \A k : WireAt(k)' = WireAt(k)
          /\ EncodedSize' = EncodedSize
          /\ Countable' = Countable /\ Offered' = Offered /\ Known' = Known
        BY SameWire DEF DecodeRoot
    <1>2. WireAt(1) = sent.root /\ 1 \in 1 .. Len(sent.groups) + 1
          /\ (Known => layout.root = sent.root)
        BY WirePlaces DEF Known, SameSizes
    <1>3. group = 1 /\ found = << >>
        BY DEF DecodeRoot, Exact, Encodes
    <1>4. Sized' /\ Encodes'
        BY <1>1 DEF DecodeRoot, Exact, Sized, Encodes
    <1>5. Decodes'
        BY <1>1, <1>2, <1>3 DEF DecodeRoot, message, Decodes, FoundFirst
    <1>6. Whole'
        BY <1>1 DEF DecodeRoot, message, Exact, Whole
    <1> QED
        BY <1>4, <1>5, <1>6 DEF Exact

LEMMA DecodeHeaderExact == ASSUME IInv, Exact, DecodeHeader PROVE Exact'
    <1> USE DEF IInv
    <1>1. /\ \A k : WireAt(k)' = WireAt(k)
          /\ EncodedSize' = EncodedSize
          /\ Countable' = Countable /\ Offered' = Offered /\ Known' = Known
        BY SameWire DEF DecodeHeader
    <1>2. ASSUME Known, Countable
          PROVE  /\ cursor' + left' * sent.groups[group].item = WireAt(group + 1)
                 /\ Len(found') = group
                 /\ \A k \in 1 .. group : found'[k] = counts[k]
        <2>1. /\ group \in 1 .. Len(sent.groups)
              /\ cursor = WireAt(group)
              /\ FoundFirst(group - 1)
            BY <1>2, WirePlaces DEF DecodeHeader, Exact, Decodes, Known, SameSizes
        <2>2. PICK h \in HeadersHere :
                  left' = h.numInGroup /\ found' = Append(found, h.numInGroup)
            BY DEF DecodeHeader
        <2>3. h.numInGroup = counts[group]
            BY <1>2, <2>1, HeaderAsWritten
        <2>4. cursor' = WireAt(group) + sent.groups[group].header
            BY <1>2, <2>1, KnownGroup DEF DecodeHeader
        <2>5. /\ sent.groups[group].header \in Nat
              /\ sent.groups[group].item \in Nat /\ counts[group] \in Nat
              /\ WireAt(group) \in Nat
              /\ WireAt(group + 1) =
                     WireAt(group) + sent.groups[group].header
                         + sent.groups[group].item * counts[group]
            BY <2>1, GroupNumbers, NextPlace
        <2>6. left' * sent.groups[group].item = sent.groups[group].item * counts[group]
            BY <2>2, <2>3, <2>5
        <2>7. cursor' + left' * sent.groups[group].item = WireAt(group + 1)
            BY <2>4, <2>5, <2>6
        <2>8. found \in Seq(Nat) /\ Len(found) = group - 1
            BY <2>1 DEF Types, FoundFirst
        <2>9. Len(found') = group /\ found'[group] = counts[group]
            BY <2>1, <2>2, <2>3, <2>5, <2>8
        <2>10. \A k \in 1 .. group - 1 : found'[k] = counts[k]
            BY <2>1, <2>2, <2>3, <2>5, <2>8 DEF FoundFirst
        <2> QED
            BY <2>1, <2>7, <2>9, <2>10
    <1>3. Sized' /\ Encodes'
        BY <1>1 DEF DecodeHeader, Exact, Sized, Encodes
    <1>4. Decodes'
        BY <1>1, <1>2 DEF DecodeHeader, message, Decodes, FoundFirst
    <1>5. Whole'
        BY <1>1 DEF DecodeHeader, message, Exact, Whole
    <1> QED
        BY <1>3, <1>4, <1>5 DEF Exact

LEMMA DecodeItemExact == ASSUME IInv, Exact, DecodeItem PROVE Exact'
    <1> USE DEF IInv
    <1>1. /\ \A k : WireAt(k)' = WireAt(k)
          /\ EncodedSize' = EncodedSize
          /\ Countable' = Countable /\ Offered' = Offered /\ Known' = Known
        BY SameWire DEF DecodeItem
    <1>2. ASSUME Known, Countable
          PROVE  cursor' + left' * sent.groups[group].item = WireAt(group + 1)
        <2>1. group \in 1 .. Len(sent.groups) /\ ThisGroup.item = sent.groups[group].item
            BY <1>2, KnownGroup DEF DecodeItem, ItemsAreThere, Known, SameSizes
        <2>2. sent.groups[group].item \in Nat
            BY <2>1, GroupNumbers
        <2>3. /\ left * sent.groups[group].item =
                     left' * sent.groups[group].item + sent.groups[group].item
              /\ left' * sent.groups[group].item \in Nat
            BY <2>2, OneItemLess DEF DecodeItem, Types
        <2>4. cursor + left * sent.groups[group].item = WireAt(group + 1)
            BY <1>2 DEF DecodeItem, Exact, Decodes
        <2> QED
            BY <2>1, <2>2, <2>3, <2>4 DEF DecodeItem, Types
    <1>3. Sized' /\ Encodes'
        BY <1>1 DEF DecodeItem, Exact, Sized, Encodes
    <1>4. Decodes'
        BY <1>1, <1>2 DEF DecodeItem, message, Exact, Decodes, FoundFirst
    <1>5. Whole'
        BY <1>1 DEF DecodeItem, message, Exact, Whole
    <1> QED
        BY <1>3, <1>4, <1>5 DEF Exact

LEMMA DecodeNextExact == ASSUME IInv, Exact, DecodeNext PROVE Exact'
    <1> USE DEF IInv
    <1>1. /\ \A k : WireAt(k)' = WireAt(k)
          /\ EncodedSize' = EncodedSize
          /\ Countable' = Countable /\ Offered' = Offered /\ Known' = Known
        BY SameWire DEF DecodeNext
    <1>2. ASSUME Known, Countable
          PROVE  group + 1 \in 1 .. Len(sent.groups) + 1 /\ cursor = WireAt(group + 1)
                 /\ (group + 1) - 1 = group
        <2>1. group \in 1 .. Len(sent.groups)
            BY <1>2 DEF DecodeNext, ItemsAreThere, Known, SameSizes
        <2>2. sent.groups[group].item \in Nat /\ group + 1 \in 1 .. Len(sent.groups) + 1
            BY <2>1, GroupNumbers, NextPlace
        <2>3. cursor + 0 * sent.groups[group].item = WireAt(group + 1)
            BY <1>2 DEF DecodeNext, Exact, Decodes
        <2> QED
            BY <2>1, <2>2, <2>3 DEF Types
    <1>3. Sized' /\ Encodes'
        BY <1>1 DEF DecodeNext, Exact, Sized, Encodes
    <1>4. Decodes'
        BY <1>1, <1>2 DEF DecodeNext, message, Exact, Decodes, FoundFirst
    <1>5. Whole'
        BY <1>1 DEF DecodeNext, message, Exact, Whole
    <1> QED
        BY <1>3, <1>4, <1>5 DEF Exact

LEMMA DecodedExact == ASSUME IInv, Exact, Decoded PROVE Exact'
    <1> USE DEF IInv
    <1>1. /\ \A k : WireAt(k)' = WireAt(k)
          /\ EncodedSize' = EncodedSize
          /\ Countable' = Countable /\ Offered' = Offered /\ Known' = Known
        BY SameWire DEF Decoded
    <1>2. ASSUME Known, Countable
          PROVE  cursor = EncodedSize /\ FoundFirst(Len(sent.groups))
        <2>1. /\ group \in 1 .. Len(sent.groups) + 1
              /\ cursor = WireAt(group)
              /\ FoundFirst(group - 1)
            BY <1>2 DEF Decoded, Exact, Decodes
        <2>2. group = Len(sent.groups) + 1 /\ group - 1 = Len(sent.groups)
            BY <1>2, <2>1, WirePlaces DEF Decoded, Known, SameSizes
        <2> QED
            BY <2>1, <2>2 DEF EncodedSize
    <1>3. Sized' /\ Encodes'
        BY <1>1 DEF Decoded, Exact, Sized, Encodes
    <1>4. Decodes'
        BY <1>1, <1>2 DEF Decoded, message, Decodes, FoundFirst
    <1>5. Whole'
        BY <1>1 DEF Decoded, message, Exact, Whole
    <1> QED
        BY <1>3, <1>4, <1>5 DEF Exact

(* A decoder that knows the sizes never refuses a whole message.           *)
LEMMA RefusedExact ==
    ASSUME IInv, Exact, NoSuchType \/ RootCut \/ HeaderCutOff \/ ItemsCutOff \/ DecodeOutside
    PROVE  Exact'
    <1> USE DEF IInv
    <1> DEFINE Knows == Offered /\ Countable /\ end = EncodedSize
    <1>1. Knows /\ pc # "dispatch" => Known
        BY OfferedIsKnown
        DEF Exact, Whole, RootCut, HeaderCutOff, ItemsCutOff, DecodeOutside, NoSuchType
    <1>2. CASE NoSuchType
        <2>1. ~Knows
            BY <1>2 DEF NoSuchType, Offered
        <2> QED
            BY <1>2, <2>1, GiveUpExact DEF NoSuchType
    <1>3. CASE RootCut
        <2>1. sent.root <= EncodedSize /\ sent.root \in Nat /\ EncodedSize \in Nat
            BY WirePlaces
        <2>2. ~Knows
            BY <1>1, <1>3, <2>1 DEF RootCut, Known, SameSizes
        <2> QED
            BY <1>3, <2>2, GiveUpExact DEF RootCut
    <1>4. CASE HeaderCutOff
        <2>1. ASSUME Knows PROVE FALSE
            <3>1. group \in 1 .. Len(sent.groups) /\ cursor = WireAt(group)
                BY <1>1, <1>4, <2>1, WirePlaces
                DEF HeaderCutOff, Exact, Decodes, Known, SameSizes
            <3> QED
                BY <1>1, <1>4, <2>1, <3>1, WholeGroupFits DEF HeaderCutOff
        <2> QED
            BY <1>4, <2>1, GiveUpExact DEF HeaderCutOff
    <1>5. CASE ItemsCutOff
        <2>1. ASSUME Knows PROVE FALSE
            <3>1. group \in 1 .. Len(sent.groups) /\ cursor = WireAt(group)
                BY <1>1, <1>5, <2>1, WirePlaces
                DEF ItemsCutOff, Exact, Decodes, Known, SameSizes
            <3> QED
                BY <1>1, <1>5, <2>1, <3>1, WholeGroupFits DEF ItemsCutOff
        <2> QED
            BY <1>5, <2>1, GiveUpExact DEF ItemsCutOff
    <1>6. CASE DecodeOutside
        <2>1. ASSUME Knows PROVE FALSE
            <3>1. group \in 1 .. Len(sent.groups) /\ ThisGroup.item = sent.groups[group].item
                BY <1>1, <1>6, <2>1, KnownGroup
                DEF DecodeOutside, ItemsAreThere, Known, SameSizes
            <3>2. cursor + left * sent.groups[group].item = WireAt(group + 1)
                BY <1>1, <1>6, <2>1 DEF DecodeOutside, Exact, Decodes
            <3>3. WireAt(group + 1) <= EncodedSize /\ WireAt(group + 1) \in Nat
                  /\ sent.groups[group].item \in Nat
                BY <3>1, NextPlace, GroupNumbers
            <3>4. left * sent.groups[group].item =
                      (left - 1) * sent.groups[group].item + sent.groups[group].item
                  /\ (left - 1) * sent.groups[group].item \in Nat
                BY <1>6, <3>3, OneItemLess DEF DecodeOutside, Types
            <3>5. cursor + sent.groups[group].item > end /\ cursor \in Nat /\ end \in Nat
                BY <1>6, <3>1 DEF DecodeOutside, Types
            <3>6. cursor + sent.groups[group].item <= WireAt(group + 1)
                BY <3>2, <3>3, <3>4, <3>5
            <3> QED
                BY <2>1, <3>3, <3>5, <3>6
        <2> QED
            BY <1>6, <2>1, GiveUpExact DEF DecodeOutside
    <1> QED
        BY <1>2, <1>3, <1>4, <1>5, <1>6

LEMMA StutterExact == ASSUME Exact, UNCHANGED vars PROVE Exact'
    <1>1. /\ \A k : WireAt(k)' = WireAt(k)
          /\ EncodedSize' = EncodedSize
          /\ Countable' = Countable /\ Offered' = Offered /\ Known' = Known
        BY SameWire DEF vars, message
    <1> QED
        BY <1>1 DEF vars, Exact, Sized, Encodes, Decodes, Whole, FoundFirst

(* What is where, in every reachable state.                                *)
THEOREM ExactInvariance == Spec => []Exact
    <1>1. IInv /\ Exact /\ [Next]_vars => Exact'
        BY EncodeExact, DispatchExact, DecodeRootExact, DecodeHeaderExact, DecodeItemExact,
           DecodeNextExact, DecodedExact, RefusedExact, StutterExact DEF Next, Decode
    <1> QED
        BY InitExact, Invariance, <1>1, PTL DEF Spec

(* encoded_sizeof, the sum of sbe.hpp 28, is exactly what the encoder      *)
(* writes, and in a room of that size it never fails.                      *)
THEOREM EncodedSizeCorrect == Spec => []EncodedSizeIsEnough
    <1>1. IInv /\ Exact => EncodedSizeIsEnough
        <2> SUFFICES ASSUME IInv, Exact, pc = "encode_group", group > Len(sent.groups)
                     PROVE  cursor = EncodedSize
            BY DEF Exact, Encodes, EncodedSizeIsEnough
        <2>1. group = Len(sent.groups) + 1
            BY WirePlaces DEF IInv, Exact, Encodes
        <2> QED
            BY <2>1 DEF Exact, Encodes, EncodedSize
    <1> QED
        BY Invariance, ExactInvariance, <1>1, PTL

(* No cut, even between two groups, makes a message that a decoder with    *)
(* its sizes takes for a whole one.                                        *)
THEOREM CutCorrect == Spec => []CutIsNotDecoded
    <1>1. IInv /\ Exact => CutIsNotDecoded
        BY WirePlaces
        DEF IInv, Types, InsideWhenCovered, Exact, Sized, Decodes, Known, CutIsNotDecoded
    <1> QED
        BY Invariance, ExactInvariance, <1>1, PTL

(* Every whole message is decoded to what it was made from if the reader   *)
(* has an alternative with its template id and its sizes.                  *)
THEOREM WholeCorrect == Spec => []WholeMessageDecodes
    <1>1. IInv /\ Exact => WholeMessageDecodes
        <2> SUFFICES ASSUME IInv, Exact, Offered, Countable,
                            end = EncodedSize, pc = "decoded"
                     PROVE  /\ layout \in Layouts[reader] /\ layout.id = sent.id
                            /\ found = counts /\ cursor = end
            BY DEF Exact, Whole, Offered, WholeMessageDecodes
        <2>1. layout \in Layouts[reader] /\ layout.id = sent.id
            BY DEF Exact, Whole
        <2>2. cursor = end /\ FoundFirst(Len(sent.groups))
            BY <2>1, OfferedIsKnown DEF IInv, Exact, Decodes
        <2>3. found = counts
            <3>1. found = [k \in 1 .. Len(sent.groups) |-> found[k]]
                BY <2>2 DEF IInv, Types, FoundFirst
            <3>2. counts = [k \in 1 .. Len(sent.groups) |-> counts[k]]
                BY DEF IInv, Types
            <3> QED
                BY <2>2, <3>1, <3>2 DEF FoundFirst
        <2> QED
            BY <2>1, <2>2, <2>3
    <1> QED
        BY Invariance, ExactInvariance, <1>1, PTL
-----------------------------------------------------------------------------
(* The protocols of this library. Two versions of one share their tables   *)
(* as far as SharedAssumption says, and that is enough for the decoder of  *)
(* the one to find its way through the messages of the other.              *)

(* Whatever was written by one version, whole and countable: a decoder of  *)
(* its own or of the other version finds the same message in it, all its   *)
(* groups and items and nothing else, unless it is a regrown one.          *)
THEOREM OtherVersionCorrect == Spec => []OtherVersionDecodes
    <1>1. IInv /\ Exact /\ WholeMessageDecodes => OtherVersionDecodes
        <2> SUFFICES ASSUME IInv, Exact, WholeMessageDecodes, ~Repeating,
                            NEW l \in Layouts[reader], l.id = sent.id,
                            sent.name \in Regrown => sent.version = reader,
                            Countable, end = EncodedSize
                     PROVE  /\ pc \notin {"thrown", "outside"}
                            /\ pc = "decoded" => /\ layout.name = sent.name
                                                 /\ found = counts /\ cursor = end
            BY DEF OtherVersionDecodes
        <2>1. PICK v \in DOMAIN Layouts : sent \in Layouts[v] /\ reader \in Readers[v]
            BY DEF IInv, Types
        <2>2. \A k \in Layouts[reader] : k.id = sent.id =>
                  k.name = sent.name /\ SameSizes(k, sent)
            BY <2>1, SharedAssumption DEF Repeating
        <2>3. \E k \in Layouts[reader] : k.id = sent.id /\ SameSizes(k, sent)
            BY <2>2
        <2>4. /\ pc \notin {"thrown", "outside"}
              /\ pc = "decoded" => /\ layout \in Layouts[reader] /\ layout.id = sent.id
                                   /\ found = counts /\ cursor = end
            BY <2>3 DEF WholeMessageDecodes
        <2> QED
            BY <2>2, <2>4
    <1> QED
        BY Invariance, ExactInvariance, WholeCorrect, <1>1, PTL

-----------------------------------------------------------------------------
(* The repeating groups of EOBI. What a decoder with one entry makes of a  *)
(* message with any number of them depends on the sizes of both, which are *)
(* sums of the widths of their fields, and on what the one has in common   *)
(* with the other, however often the entry is repeated.                    *)
(* n copies of a sequence, one behind the other, begin with that sequence. *)
LEMMA Copies ==
    ASSUME NEW T, NEW t \in Seq(T), NEW n \in Nat \ {0}
    PROVE  LET c == FlattenSeq([i \in 1 .. n |-> t])
           IN  /\ c \in Seq(T)
               /\ Len(t) <= Len(c)
               /\ \A i \in 1 .. Len(t) : c[i] = t[i]
    <1> DEFINE seqs == [i \in 1 .. n |-> t]
               Goes(m, g) == g = [i \in 1 .. m |-> IF i = 1 THEN t ELSE g[i - 1] \o t]
               Runs == {m \in Nat : \E g : Goes(m, g)}
    <1>1. 0 \in Runs
        <2>1. Goes(0, << >>)
            OBVIOUS
        <2> QED
            BY <2>1
    <1>2. ASSUME NEW m \in Nat, m \in Runs PROVE m + 1 \in Runs
        <2>1. PICK g : Goes(m, g)
            BY <1>2
        <2> DEFINE h == [i \in 1 .. m + 1 |-> IF i <= m THEN g[i]
                                              ELSE IF i = 1 THEN t ELSE g[i - 1] \o t]
        <2>2. \A i \in 1 .. m + 1 : h[i] = IF i = 1 THEN t ELSE h[i - 1] \o t
            <3> TAKE i \in 1 .. m + 1
            <3>1. CASE i = 1
                BY <2>1, <3>1
            <3>2. CASE i # 1 /\ i <= m
                <4>1. h[i] = g[i] /\ h[i - 1] = g[i - 1]
                    BY <3>2
                <4> HIDE DEF h
                <4>2. \A j \in 1 .. m : g[j] = IF j = 1 THEN t ELSE g[j - 1] \o t
                    BY <2>1
                <4>3. i \in 1 .. m
                    BY <3>2
                <4> QED
                    BY <3>2, <4>1, <4>2, <4>3, Zenon
            <3>3. CASE i # 1 /\ i = m + 1
                <4>1. h[i] = g[i - 1] \o t /\ h[i - 1] = g[i - 1]
                    BY <3>3
                <4> QED
                    BY <3>3, <4>1
            <3> QED
                BY <3>1, <3>2, <3>3
        <2>3. h = [i \in 1 .. m + 1 |-> IF i = 1 THEN t ELSE h[i - 1] \o t]
            BY <2>2
        <2> HIDE DEF h
        <2>4. Goes(m + 1, h)
            BY <2>3
        <2> HIDE DEF Goes
        <2> QED
            BY <2>4
    <1> HIDE DEF Runs
    <1>3. n \in Runs
        BY <1>1, <1>2, NatSetInduction
    <1>4. PICK some : Goes(n, some)
        BY <1>3 DEF Runs
    <1> DEFINE all == CHOOSE g : Goes(n, g)
    <1>5. Goes(n, all)
        BY <1>4, Zenon
    <1>6. FlattenSeq(seqs) = all[n]
        <2>1. seqs \in Seq({t}) /\ Len(seqs) = n /\ n # 0
            OBVIOUS
        <2>2. \A g : [i \in 1 .. n |-> IF i = 1 THEN seqs[i] ELSE g[i - 1] \o seqs[i]]
                   = [i \in 1 .. n |-> IF i = 1 THEN t ELSE g[i - 1] \o t]
            OBVIOUS
        <2> HIDE DEF seqs
        <2>3. FlattenSeq(seqs) =
                  (CHOOSE g : g = [i \in 1 .. n |-> IF i = 1 THEN seqs[i]
                                                    ELSE g[i - 1] \o seqs[i]])[n]
            BY <2>1, Zenon DEF FlattenSeq
        <2> QED
            BY <2>2, <2>3, Zenon
    <1> HIDE DEF all, seqs
    <1> DEFINE Begins(c) == /\ c \in Seq(T)
                            /\ Len(t) <= Len(c)
                            /\ \A i \in 1 .. Len(t) : c[i] = t[i]
               Good == {m \in Nat : m + 1 <= n => Begins(all[m + 1])}
    <1>7. 0 \in Good
        BY <1>5
    <1>8. ASSUME NEW m \in Nat, m \in Good PROVE m + 1 \in Good
        <2> SUFFICES ASSUME (m + 1) + 1 <= n PROVE Begins(all[(m + 1) + 1])
            OBVIOUS
        <2>1. Begins(all[m + 1])
            BY <1>8
        <2>2. \A i \in 1 .. n : all[i] = IF i = 1 THEN t ELSE all[i - 1] \o t
            BY <1>5
        <2>3. (m + 1) + 1 \in 1 .. n /\ (m + 1) + 1 # 1 /\ ((m + 1) + 1) - 1 = m + 1
            OBVIOUS
        <2>4. all[(m + 1) + 1] = all[m + 1] \o t
            BY <2>2, <2>3
        <2> HIDE DEF Good, Goes
        <2> QED
            BY <2>1, <2>4
    <1> HIDE DEF Good, Begins, Goes
    <1>9. n - 1 \in Good
        BY <1>7, <1>8, NatSetInduction
    <1>10. (n - 1) + 1 = n
        OBVIOUS
    <1>11. Begins(all[n])
        BY <1>9, <1>10 DEF Good
    <1> QED
        BY <1>6, <1>11 DEF Begins, seqs

(* With its last k elements repeated at least once, a sequence is still    *)
(* there, and more may follow; with none of them it is cut short.          *)
LEMMA RepeatBegins ==
    ASSUME NEW T, NEW s \in Seq(T), NEW k \in 1 .. Len(s), NEW n \in Nat \ {0}
    PROVE  /\ RepeatLast(s, k, n) \in Seq(T)
           /\ Len(s) <= Len(RepeatLast(s, k, n))
           /\ \A i \in 1 .. Len(s) : RepeatLast(s, k, n)[i] = s[i]
    <1> DEFINE head == SubSeq(s, 1, Len(s) - k)
               tail == SubSeq(s, Len(s) - k + 1, Len(s))
               copies == FlattenSeq([i \in 1 .. n |-> tail])
    <1>1. /\ head \in Seq(T) /\ Len(head) = Len(s) - k
          /\ \A i \in 1 .. Len(s) - k : head[i] = s[i]
        OBVIOUS
    <1>2. /\ tail \in Seq(T) /\ Len(tail) = k
          /\ \A i \in 1 .. k : tail[i] = s[Len(s) - k + i]
        OBVIOUS
    <1>3. RepeatLast(s, k, n) = head \o copies
        BY DEF RepeatLast
    <1> HIDE DEF head, tail
    <1>4. copies \in Seq(T) /\ k <= Len(copies) /\ \A i \in 1 .. k : copies[i] = tail[i]
        BY <1>2, Copies
    <1> HIDE DEF copies
    <1>5. head \o copies \in Seq(T) /\ Len(s) <= Len(head \o copies)
        BY <1>1, <1>4
    <1>6. ASSUME NEW i \in 1 .. Len(s) PROVE (head \o copies)[i] = s[i]
        <2>0. i <= Len(s) - k \/ i > Len(s) - k
            OBVIOUS
        <2>1. CASE i <= Len(s) - k
            BY <1>1, <1>4, <2>1
        <2>2. CASE i > Len(s) - k
            <3>1. (head \o copies)[i] = copies[i - (Len(s) - k)]
                BY <1>1, <1>4, <2>2
            <3>2. i - (Len(s) - k) \in 1 .. k /\ Len(s) - k + (i - (Len(s) - k)) = i
                BY <2>2
            <3> QED
                BY <1>2, <1>4, <3>1, <3>2
        <2> QED
            BY <2>0, <2>1, <2>2, Zenon
    <1> QED
        BY <1>3, <1>5, <1>6

LEMMA RepeatNone ==
    ASSUME NEW T, NEW s \in Seq(T), NEW k \in 1 .. Len(s)
    PROVE  /\ RepeatLast(s, k, 0) \in Seq(T)
           /\ Len(RepeatLast(s, k, 0)) < Len(s)
           /\ \A i \in 1 .. Len(RepeatLast(s, k, 0)) : RepeatLast(s, k, 0)[i] = s[i]
    <1> DEFINE head == SubSeq(s, 1, Len(s) - k)
               tail == SubSeq(s, Len(s) - k + 1, Len(s))
    <1>1. /\ head \in Seq(T) /\ Len(head) = Len(s) - k
          /\ \A i \in 1 .. Len(s) - k : head[i] = s[i]
        OBVIOUS
    <1>2. FlattenSeq([i \in 1 .. 0 |-> tail]) = << >>
        <2>1. [i \in 1 .. 0 |-> tail] = << >>
            OBVIOUS
        <2>2. FlattenSeq(<< >>) = << >>
            BY DEF FlattenSeq
        <2> QED
            BY <2>1, <2>2
    <1>3. RepeatLast(s, k, 0) = head \o << >>
        BY <1>2 DEF RepeatLast
    <1> HIDE DEF head
    <1>4. head \o << >> = head
        BY <1>1
    <1> QED
        BY <1>1, <1>3, <1>4

(* Induction on finite sets: the library's theorem takes an operator as a  *)
(* parameter, this one a set, which any prover can name.                   *)

(* A set with the empty one, and with each subset of S that is in it after *)
(* any element has been taken away, has S itself if S is finite.           *)
LEMMA SubsetInduction ==
    ASSUME NEW S, IsFiniteSet(S), NEW P, {} \in P,
           \A T \in SUBSET S : T # {} /\ (\A x \in T : T \ {x} \in P) => T \in P
    PROVE  S \in P
    <1> DEFINE R == StrictSubsetOrdering(S)
    <1>1. IsWellFoundedOn(R, SUBSET S)
        BY FS_StrictSubsetOrderingWellFounded, FS_FiniteSubsetsOfFinite
    <1>2. \A T \in SUBSET S : \A x \in T : <<T \ {x}, T>> \in R
        BY DEF StrictSubsetOrdering
    <1> HIDE DEF R
    <1> SUFFICES ASSUME S \notin P PROVE FALSE
        OBVIOUS
    <1> DEFINE Out == {T \in SUBSET S : T \notin P}
    <1>3. Out \subseteq SUBSET S /\ Out # {}
        OBVIOUS
    <1> HIDE DEF Out
    <1>4. PICK T \in Out : \A U \in Out : ~ (<<U, T>> \in R)
        BY <1>1, <1>3, WFMin
    <1>5. T \in SUBSET S /\ T \notin P /\ T # {}
        BY DEF Out
    <1>6. \A x \in T : T \ {x} \in P
        BY <1>2, <1>4, <1>5 DEF Out
    <1> QED
        BY <1>5, <1>6

(* The bytes of a message: as many of every field as it is wide.           *)
BytesOf(fields, s) == UNION {{i} \X (1 .. Width(fields[i])) : i \in s}

(* SizeOf counts them, in whatever order it takes the fields.              *)
LEMMA SizeIsBytes ==
    ASSUME NEW w \in Seq(Int \ {0})
    PROVE  /\ IsFiniteSet(BytesOf(w, 1 .. Len(w)))
           /\ SizeOf(w) = Cardinality(BytesOf(w, 1 .. Len(w)))
    <1> DEFINE D == 1 .. Len(w)
               pick(s) == CHOOSE x \in s : TRUE
               Sums(g) == g = [s \in SUBSET D |->
                                 IF s = {} THEN 0 ELSE Width(w[pick(s)]) + g[s \ {pick(s)}]]
               iter == CHOOSE g : Sums(g)
               bytes(s) == BytesOf(w, s)
               total == [s \in SUBSET D |-> Cardinality(bytes(s))]
    <1>1. SizeOf(w) = iter[D]
        <2>1. DOMAIN w = D
            OBVIOUS
        <2> QED
            BY <2>1 DEF SizeOf, MapThenSumSet, MapThenFoldSet
    <1>2. \A s \in SUBSET D : s # {} => pick(s) \in s
        OBVIOUS
    <1>3. \A i \in D : Width(w[i]) \in Nat
        BY DEF Width
    <1>4. IsFiniteSet(D)
        BY FS_Interval
    <1>5. ASSUME NEW i \in D
          PROVE  /\ IsFiniteSet({i} \X (1 .. Width(w[i])))
                 /\ Cardinality({i} \X (1 .. Width(w[i]))) = Width(w[i])
        <2>1. IsFiniteSet(1 .. Width(w[i])) /\ Cardinality(1 .. Width(w[i])) = Width(w[i])
            BY <1>3, FS_Interval
        <2>2. IsFiniteSet({i}) /\ Cardinality({i}) = 1
            BY FS_Singleton
        <2>3. Cardinality({i} \X (1 .. Width(w[i]))) =
                  Cardinality({i}) * Cardinality(1 .. Width(w[i]))
              /\ IsFiniteSet({i} \X (1 .. Width(w[i])))
            BY <2>1, <2>2, FS_Product
        <2>4. 1 * Width(w[i]) = Width(w[i])
            BY <1>3
        <2> QED
            BY <2>1, <2>2, <2>3, <2>4
    <1>6. \A s \in SUBSET D : \A i \in s :
              /\ bytes(s) = ({i} \X (1 .. Width(w[i]))) \union bytes(s \ {i})
              /\ ({i} \X (1 .. Width(w[i]))) \intersect bytes(s \ {i}) = {}
        BY DEF BytesOf
    <1>7. bytes({}) = {}
        BY DEF BytesOf
    <1> HIDE DEF bytes, D
    <1>8. \A s \in SUBSET D : IsFiniteSet(bytes(s))
        <2> TAKE s \in SUBSET D
        <2> DEFINE P == {u \in SUBSET s : IsFiniteSet(bytes(u))}
        <2>1. {} \in P
            BY <1>7, FS_EmptySet
        <2>2. \A T \in SUBSET s : T # {} /\ (\A t \in T : T \ {t} \in P) => T \in P
            <3> SUFFICES ASSUME NEW T \in SUBSET s, NEW t \in T, T \ {t} \in P PROVE T \in P
                OBVIOUS
            <3>1. t \in D /\ T \in SUBSET D
                OBVIOUS
            <3>2. bytes(T) = ({t} \X (1 .. Width(w[t]))) \union bytes(T \ {t})
                BY <1>6, <3>1
            <3>3. IsFiniteSet({t} \X (1 .. Width(w[t]))) /\ IsFiniteSet(bytes(T \ {t}))
                BY <1>5, <3>1
            <3>4. IsFiniteSet(({t} \X (1 .. Width(w[t]))) \union bytes(T \ {t}))
                BY <3>3, FS_Union, Zenon
            <3> QED
                BY <3>2, <3>4
        <2>3. IsFiniteSet(s)
            BY <1>4, FS_Subset
        <2> HIDE DEF P
        <2>4. s \in P
            BY <2>1, <2>2, <2>3, SubsetInduction
        <2> QED
            BY <2>4 DEF P
    <1>9. \A s \in SUBSET D : \A i \in s :
              Cardinality(bytes(s)) = Width(w[i]) + Cardinality(bytes(s \ {i}))
        <2> TAKE s \in SUBSET D
        <2> TAKE i \in s
        <2> DEFINE field == {i} \X (1 .. Width(w[i]))
        <2>1. i \in D /\ s \ {i} \in SUBSET D
            OBVIOUS
        <2>2. bytes(s) = field \union bytes(s \ {i}) /\ field \intersect bytes(s \ {i}) = {}
            BY <1>6
        <2>3. IsFiniteSet(field) /\ IsFiniteSet(bytes(s \ {i})) /\ Cardinality(field) = Width(w[i])
            BY <1>5, <1>8, <2>1
        <2> HIDE DEF field
        <2>4. Cardinality(bytes(s)) =
                  Cardinality(field) + Cardinality(bytes(s \ {i})) - Cardinality({})
            BY <2>2, <2>3, FS_Union
        <2>5. Cardinality(field) \in Nat /\ Cardinality(bytes(s \ {i})) \in Nat
            BY <2>3, FS_CardinalityType
        <2> QED
            BY <2>3, <2>4, <2>5, FS_EmptySet
    <1> HIDE DEF pick
    <1>10. Cardinality(bytes({})) = 0
        BY <1>7, FS_EmptySet
    <1>11. Sums(total)
        <2>1. \A s \in SUBSET D :
                  total[s] = IF s = {} THEN 0 ELSE Width(w[pick(s)]) + total[s \ {pick(s)}]
            BY <1>2, <1>9, <1>10
        <2>2. total = [s \in SUBSET D |-> total[s]]
            OBVIOUS
        <2> HIDE DEF total
        <2> QED
            BY <2>1, <2>2
    <1> HIDE DEF total
    <1>12. Sums(iter)
        BY <1>11
    <1> HIDE DEF iter
    <1>13. \A s \in SUBSET D : iter[s] = IF s = {} THEN 0 ELSE Width(w[pick(s)]) + iter[s \ {pick(s)}]
        BY <1>12
    <1> DEFINE P == {s \in SUBSET D : iter[s] = Cardinality(bytes(s))}
    <1>14. {} \in P
        BY <1>10, <1>13
    <1>15. \A s \in SUBSET D : s # {} /\ (\A t \in s : s \ {t} \in P) => s \in P
        <2> SUFFICES ASSUME NEW s \in SUBSET D, s # {}, \A t \in s : s \ {t} \in P
                     PROVE  s \in P
            OBVIOUS
        <2>1. pick(s) \in s /\ iter[s \ {pick(s)}] = Cardinality(bytes(s \ {pick(s)}))
            BY <1>2
        <2>2. iter[s] = Width(w[pick(s)]) + iter[s \ {pick(s)}]
            BY <1>13
        <2>3. Cardinality(bytes(s)) = Width(w[pick(s)]) + Cardinality(bytes(s \ {pick(s)}))
            BY <1>9, <2>1
        <2> QED
            BY <2>1, <2>2, <2>3
    <1> HIDE DEF P
    <1>16. D \in P
        BY <1>4, <1>14, <1>15, SubsetInduction
    <1> QED
        BY <1>1, <1>8, <1>16 DEF P, bytes, D

(* A message that begins with another is longer, by the bytes behind it.   *)
LEMMA LongerIsLarger ==
    ASSUME NEW s \in Seq(Int \ {0}), NEW t \in Seq(Int \ {0}),
           Len(s) <= Len(t), \A i \in 1 .. Len(s) : t[i] = s[i]
    PROVE  /\ SizeOf(s) \in Nat /\ SizeOf(t) \in Nat
           /\ SizeOf(s) <= SizeOf(t)
           /\ Len(s) < Len(t) => SizeOf(s) < SizeOf(t)
    <1> DEFINE short == BytesOf(s, 1 .. Len(s))
               long == BytesOf(t, 1 .. Len(t))
    <1>1. /\ IsFiniteSet(short) /\ SizeOf(s) = Cardinality(short)
          /\ IsFiniteSet(long) /\ SizeOf(t) = Cardinality(long)
        BY SizeIsBytes
    <1>2. short \subseteq long
        <2>1. 1 .. Len(s) \subseteq 1 .. Len(t)
            OBVIOUS
        <2> QED
            BY <2>1 DEF BytesOf
    <1>3. Len(s) < Len(t) => short # long
        <2> SUFFICES ASSUME Len(s) < Len(t) PROVE short # long
            OBVIOUS
        <2>1. Len(t) \in 1 .. Len(t) /\ Len(t) \notin 1 .. Len(s)
            OBVIOUS
        <2>2. 1 \in 1 .. Width(t[Len(t)])
            BY <2>1 DEF Width
        <2>3. <<Len(t), 1>> \in long
            BY <2>1, <2>2 DEF BytesOf
        <2>4. <<Len(t), 1>> \notin short
            BY <2>1 DEF BytesOf
        <2> QED
            BY <2>3, <2>4
    <1> HIDE DEF short, long
    <1>4. /\ Cardinality(short) <= Cardinality(long)
          /\ Cardinality(long) = Cardinality(short) => long = short
        BY <1>1, <1>2, FS_Subset
    <1>5. Cardinality(short) \in Nat /\ Cardinality(long) \in Nat
        BY <1>1, FS_CardinalityType
    <1> QED
        BY <1>1, <1>3, <1>4, <1>5

(* And its fields are among those of the other, where they were.           *)
LEMMA FieldsKept ==
    ASSUME NEW N, NEW a \in Seq(N), NEW b \in Seq(N),
           NEW W, NEW s \in Seq(W), NEW t \in Seq(W),
           Len(a) = Len(s), Len(s) <= Len(t), Len(a) <= Len(b),
           \A i \in 1 .. Len(a) : b[i] = a[i],
           \A i \in 1 .. Len(s) : t[i] = s[i]
    PROVE  Fields(a, s) \subseteq Fields(b, t)
    <1>0. DOMAIN s = 1 .. Len(s)
        OBVIOUS
    <1> SUFFICES ASSUME NEW i \in 1 .. Len(s), s[i] > 0
                 PROVE  [name |-> a[i], offset |-> SizeOf(SubSeq(s, 1, i - 1)), width |-> s[i]]
                            \in Fields(b, t)
        BY <1>0, Zenon DEF Fields
    <1>1. i \in DOMAIN t /\ t[i] > 0 /\ t[i] = s[i] /\ b[i] = a[i]
        OBVIOUS
    <1>2. SubSeq(s, 1, i - 1) = SubSeq(t, 1, i - 1)
        OBVIOUS
    <1>3. [name |-> b[i], offset |-> SizeOf(SubSeq(t, 1, i - 1)), width |-> t[i]]
              \in Fields(b, t)
        BY <1>1 DEF Fields
    <1> QED
        BY <1>1, <1>2, <1>3

(* A message without entries is too short for its decoder, one with any is *)
(* not, and its first entry is where the decoder looks for it.             *)
LEMMA FirstEntryKept ==
    ASSUME NEW m, NEW l, Repeats(m, l), "entries" \in DOMAIN m
    PROVE  /\ m.root \in Nat /\ l.root \in Nat
           /\ m.entries = 0 => m.root < l.root
           /\ m.entries > 0 => l.root <= m.root /\ FieldsOf(l) \subseteq FieldsOf(m)
    <1> DEFINE names == AllMembers[l.version][l.name].fields
    <1>1. /\ l.fields \in Seq(Int \ {0}) /\ names \in Seq(STRING)
          /\ Len(names) = Len(l.fields)
          /\ m.entry \in 1 .. Len(l.fields) /\ m.entries \in Nat
          /\ m.fields = RepeatLast(l.fields, m.entry, m.entries)
          /\ m.root = SizeOf(m.fields) /\ l.root = SizeOf(l.fields)
          /\ m.version = l.version /\ m.name = l.name
          /\ "entries" \notin DOMAIN l
        BY DEF Repeats
    <1>2. FieldsOf(l) = Fields(names, l.fields)
        BY <1>1 DEF FieldsOf
    <1>3. FieldsOf(m) = Fields(RepeatLast(names, m.entry, m.entries), m.fields)
        BY <1>1 DEF FieldsOf
    <1> HIDE DEF names
    <1>4. CASE m.entries = 0
        <2>1. /\ m.fields \in Seq(Int \ {0}) /\ Len(m.fields) < Len(l.fields)
              /\ \A i \in 1 .. Len(m.fields) : m.fields[i] = l.fields[i]
            BY <1>1, <1>4, RepeatNone
        <2>2. \A i \in 1 .. Len(m.fields) : l.fields[i] = m.fields[i]
            BY <2>1
        <2>3. Len(m.fields) <= Len(l.fields)
            BY <1>1, <2>1
        <2>4. /\ SizeOf(m.fields) \in Nat /\ SizeOf(l.fields) \in Nat
              /\ SizeOf(m.fields) < SizeOf(l.fields)
            BY <1>1, <2>1, <2>2, <2>3, LongerIsLarger
        <2> QED
            BY <1>1, <1>4, <2>4
    <1>5. CASE m.entries > 0
        <2>1. m.entries \in Nat \ {0} /\ m.entry \in 1 .. Len(names)
            BY <1>1, <1>5
        <2>2. /\ m.fields \in Seq(Int \ {0}) /\ Len(l.fields) <= Len(m.fields)
              /\ \A i \in 1 .. Len(l.fields) : m.fields[i] = l.fields[i]
            BY <1>1, <2>1, RepeatBegins
        <2>3. /\ RepeatLast(names, m.entry, m.entries) \in Seq(STRING)
              /\ Len(names) <= Len(RepeatLast(names, m.entry, m.entries))
              /\ \A i \in 1 .. Len(names) :
                     RepeatLast(names, m.entry, m.entries)[i] = names[i]
            BY <1>1, <2>1, RepeatBegins
        <2>4. /\ SizeOf(m.fields) \in Nat /\ SizeOf(l.fields) \in Nat
              /\ SizeOf(l.fields) <= SizeOf(m.fields)
            BY <1>1, <2>2, LongerIsLarger
        <2>5. Fields(names, l.fields)
                  \subseteq Fields(RepeatLast(names, m.entry, m.entries), m.fields)
            <3> DEFINE a == names
                       b == RepeatLast(names, m.entry, m.entries)
                       s == l.fields
                       t == m.fields
                       W == Int \ {0}
            <3>1. /\ a \in Seq(STRING) /\ b \in Seq(STRING) /\ s \in Seq(W) /\ t \in Seq(W)
                  /\ Len(a) = Len(s) /\ Len(s) <= Len(t) /\ Len(a) <= Len(b)
                  /\ \A i \in 1 .. Len(a) : b[i] = a[i]
                  /\ \A i \in 1 .. Len(s) : t[i] = s[i]
                BY <1>1, <2>2, <2>3
            <3> HIDE DEF a, b, s, t, W
            <3>2. Fields(a, s) \subseteq Fields(b, t)
                BY <3>1, FieldsKept
            <3> QED
                BY <3>2 DEF a, b, s, t
        <2> QED
            BY <1>1, <1>2, <1>3, <1>5, <2>4, <2>5
    <1> QED
        BY <1>1, <1>4, <1>5

(* What the reader has for a message that Eurex repeats.                   *)
LEMMA RepeatedIsOffered ==
    ASSUME Types, Repeating
    PROVE  /\ \E l \in Layouts[reader] : l.id = sent.id
           /\ \A l \in Layouts[reader] : l.id = sent.id =>
                  /\ Repeats(sent, l)
                  /\ Len(l.groups) = 0 /\ l.root \in Nat
           /\ Len(sent.groups) = 0
    <1>1. PICK v \in DOMAIN Layouts : sent \in Layouts[v] /\ reader \in Readers[v]
        BY DEF Types
    <1>2. PICK l \in Layouts[reader] : l.id = sent.id
        BY <1>1, RepeatedAssumption DEF Repeating
    <1>3. \A k \in Layouts[reader] : k.id = sent.id => Repeats(sent, k)
        BY <1>1, RepeatedAssumption DEF Repeating
    <1>4. reader \in DOMAIN Layouts
        BY <1>1, ReadersAssumption
    <1>5. \A k \in Layouts[reader] : k.id = sent.id => Len(k.groups) = 0 /\ k.root \in Nat
        BY <1>3, <1>4, LayoutsAssumption DEF Repeats
    <1>6. Len(sent.groups) = 0
        BY <1>2, <1>3 DEF Repeats
    <1> QED
        BY <1>2, <1>3, <1>5, <1>6

(* Such a message is decoded without a look at a group: what its decoder   *)
(* leaves behind is known from the choice of the alternative on.           *)
FixedPartOnly ==
    /\ pc \notin {"encode_items", "decode_items", "outside"}
    /\ pc \in {"decode_root", "decode_group", "decoded", "thrown"} =>
           layout \in Layouts[reader] /\ layout.id = sent.id
    /\ pc \in {"decode_group", "decoded"} => cursor = layout.root /\ layout.root <= end
    /\ pc = "thrown" => end < layout.root

FirstEntry == Repeating => FixedPartOnly

LEMMA FirstEntryKeeps == ASSUME IInv, FirstEntry, [Next]_vars PROVE FirstEntry'
    <1> SUFFICES ASSUME Repeating' PROVE FixedPartOnly'
        BY DEF FirstEntry
    <1>1. sent' = sent /\ reader' = reader
        BY DEF Next, Encode, Decode, EncodeRoot, RootDoesNotFit, EncodeHeader, HeaderDoesNotFit,
               EncodeItem, EncodeOutside, EncodeNext, Encoded, Dispatch, NoSuchType, DecodeRoot,
               RootCut, DecodeHeader, HeaderCutOff, ItemsCutOff, DecodeItem, DecodeOutside,
               DecodeNext, Decoded, GiveUp, message, vars
    <1>2. Repeating /\ FixedPartOnly
        BY <1>1 DEF Repeating, FirstEntry
    <1>3. /\ \E l \in Layouts[reader] : l.id = sent.id
          /\ \A l \in Layouts[reader] : l.id = sent.id => Len(l.groups) = 0 /\ l.root \in Nat
          /\ Len(sent.groups) = 0
        BY <1>2, RepeatedIsOffered DEF IInv
    <1>4. group \in Nat \ {0} /\ end \in Nat
        BY DEF IInv, Types
    <1>5. CASE Encode
        <2>1. ~EncodeHeader /\ ~HeaderDoesNotFit /\ ~EncodeItem /\ ~EncodeOutside /\ ~EncodeNext
            BY <1>2, <1>3, <1>4
            DEF FixedPartOnly, EncodeHeader, HeaderDoesNotFit, EncodeItem, EncodeOutside,
                EncodeNext
        <2> QED
            BY <1>5, <2>1
            DEF Encode, EncodeRoot, RootDoesNotFit, Encoded, GiveUp, FixedPartOnly
    <1>6. CASE Decode
        <2>1. pc = "decode_group" => Len(layout.groups) = 0
            BY <1>2, <1>3 DEF FixedPartOnly
        <2>2. ~DecodeHeader /\ ~HeaderCutOff /\ ~ItemsCutOff /\ ~DecodeItem
              /\ ~DecodeOutside /\ ~DecodeNext
            BY <1>2, <1>4, <2>1
            DEF FixedPartOnly, DecodeHeader, HeaderCutOff, ItemsCutOff, DecodeItem,
                DecodeOutside, DecodeNext
        <2>3. ~NoSuchType
            BY <1>3 DEF NoSuchType
        <2>4. CASE Dispatch
            BY <1>1, <2>4 DEF Dispatch, FixedPartOnly
        <2>5. CASE DecodeRoot
            BY <1>1, <1>2, <2>5 DEF DecodeRoot, FixedPartOnly
        <2>6. CASE RootCut
            <3>1. layout \in Layouts[reader] /\ layout.id = sent.id
                BY <1>2, <2>6 DEF RootCut, FixedPartOnly
            <3>2. layout.root \in Nat
                BY <1>3, <3>1
            <3> QED
                BY <1>1, <1>4, <2>6, <3>1, <3>2 DEF RootCut, GiveUp, FixedPartOnly
        <2>7. CASE Decoded
            BY <1>1, <1>2, <2>7 DEF Decoded, FixedPartOnly
        <2> QED
            BY <1>6, <2>2, <2>3, <2>4, <2>5, <2>6, <2>7 DEF Decode
    <1>7. CASE UNCHANGED vars
        BY <1>2, <1>7 DEF vars, FixedPartOnly
    <1> QED
        BY <1>5, <1>6, <1>7 DEF Next

(* However often Eurex repeats the entry of a group, the decoder with one  *)
(* entry gives its caller the first, every member where it was written,    *)
(* and it refuses a message exactly when the group in it is empty.         *)
THEOREM FirstEntryCorrect == Spec => []FirstEntryDecodes
    <1>1. Init => FirstEntry
        BY DEF Init, FirstEntry, FixedPartOnly
    <1>2. IInv /\ FirstEntry /\ [Next]_vars => FirstEntry'
        BY FirstEntryKeeps
    <1>3. IInv /\ FirstEntry => FirstEntryDecodes
        <2> SUFFICES ASSUME IInv, FixedPartOnly, Repeating, end = EncodedSize
                     PROVE  /\ pc = "thrown" => sent.entries = 0
                            /\ pc = "decoded" =>
                                   /\ sent.entries > 0
                                   /\ cursor = layout.root
                                   /\ FieldsOf(layout) \subseteq FieldsOf(sent)
            BY DEF FirstEntry, FirstEntryDecodes
        <2>1. /\ Len(sent.groups) = 0
              /\ \A l \in Layouts[reader] : l.id = sent.id => Repeats(sent, l)
            BY RepeatedIsOffered DEF IInv
        <2>2. end = sent.root
            BY <2>1, WirePlaces DEF IInv, EncodedSize
        <2> SUFFICES ASSUME pc \in {"thrown", "decoded"}
                     PROVE  /\ pc = "thrown" => sent.entries = 0
                            /\ pc = "decoded" =>
                                   /\ sent.entries > 0
                                   /\ cursor = layout.root
                                   /\ FieldsOf(layout) \subseteq FieldsOf(sent)
            OBVIOUS
        <2>3. Repeats(sent, layout)
            BY <2>1 DEF FixedPartOnly
        <2>4. sent.entries \in Nat
            BY <2>3 DEF Repeats
        <2>5. /\ sent.root \in Nat /\ layout.root \in Nat
              /\ sent.entries = 0 => sent.root < layout.root
              /\ sent.entries > 0 =>
                     layout.root <= sent.root /\ FieldsOf(layout) \subseteq FieldsOf(sent)
            BY <2>3, FirstEntryKept DEF Repeating
        <2> QED
            BY <2>2, <2>4, <2>5 DEF FixedPartOnly
    <1> QED
        BY Invariance, <1>1, <1>2, <1>3, PTL DEF Spec
=============================================================================
