----------------------------- MODULE WireMessage ----------------------------
(***************************************************************************)
(* One message on its way through the codecs: the fixed part of a message  *)
(* and, for SBE, its repeating groups, written by this library's encoder   *)
(* or by an exchange and read by the decoder of the same or of another     *)
(* version of the protocol. Data is abstracted to where it lies: a layout  *)
(* is the template id, the size of the fixed part, and for each group the  *)
(* size of its header, the number of values numInGroup has and the size of *)
(* an item. Messages without groups are those of ITCH and EOBI.            *)
(***************************************************************************)
EXTENDS Integers, Sequences, FiniteSetsExt

CONSTANTS
    Layouts,    \* version -> the layouts of its variant `messages`
    Readers,    \* version -> the versions whose decoder may get its messages
    Writers,    \* the versions this library can write, an exchange writes all
    Counts,     \* numbers of items put into a group
    Rooms,      \* room for the encoder, less than encoded_sizeof says
    Cuts,       \* bytes that are missing when the decoder gets the message
    Garbage,    \* what may be read as a group header where there is none
    MaxSize,    \* no message is longer: sizes are 16 bit numbers
    IntMax      \* the largest int

IsGroup(g) == g.header \in Nat \ {0} /\ g.modulus \in Nat \ {0} /\ g.item \in Nat

ASSUME LayoutsAssumption ==
    \A v \in DOMAIN Layouts : \A l \in Layouts[v] :
        /\ l.root \in Nat
        /\ Len(l.groups) \in Nat
        /\ \A k \in 1 .. Len(l.groups) : IsGroup(l.groups[k])
ASSUME ReadersAssumption ==
    /\ DOMAIN Readers = DOMAIN Layouts
    /\ \A v \in DOMAIN Readers : Readers[v] \subseteq DOMAIN Layouts
ASSUME WritersAssumption == Writers \subseteq DOMAIN Layouts
ASSUME NumbersAssumption ==
    /\ Counts \subseteq Nat
    /\ Rooms \subseteq Nat
    /\ Cuts \subseteq Nat
    /\ MaxSize \in Nat
    /\ IntMax \in Nat
    /\ MaxSize <= IntMax
(* A decoder finds the alternative by its template id: there is one.       *)
ASSUME IdsAssumption ==
    \A v \in UNION {Readers[w] : w \in DOMAIN Readers} :
        \A l1, l2 \in Layouts[v] : l1.id = l2.id => l1 = l2
ASSUME GarbageAssumption == Garbage \subseteq [blockLength : Nat, numInGroup : Nat]

VARIABLES
    sent,       \* the layout the message is written with
    own,        \* written by this library, and not by an exchange
    counts,     \* the number of items of each group
    reader,     \* the version of the decoder
    pc,         \* control state
    layout,     \* the layout the decoder has chosen
    end,        \* end, as an offset from begin of the whole message
    cursor,     \* begin, likewise
    group,      \* which group is being written or read
    left,       \* items of it that are still to come
    covered,    \* history: no group header read so far defeats the check
    found       \* history: the numbers of items that were read

message == <<sent, own, counts, reader>>
vars == <<sent, own, counts, reader, pc, layout, end, cursor, group, left, covered,
          found>>

(* encoded_sizeof: where the groups of a message with layout l and n[k]    *)
(* items in group k begin and, behind the last one, the size of all of it. *)
SizeOfGroup(g, n) == g.header + g.item * n
GroupsAt(l, n) ==
    LET at[k \in 1 .. Len(l.groups) + 1] ==
            IF k = 1 THEN l.root ELSE at[k - 1] + SizeOfGroup(l.groups[k - 1], n[k - 1])
    IN  at

WireAt(k) == GroupsAt(sent, counts)[k]
EncodedSizeOfItems ==
    LET size(j) == sent.groups[j].item * counts[j]
    IN  sent.root + MapThenSumSet(size, 1 .. Len(sent.groups))
EncodedSize == WireAt(Len(sent.groups) + 1)

(* An exchange counts its items correctly.                                 *)
Countable == \A k \in 1 .. Len(sent.groups) : counts[k] < sent.groups[k].modulus

Init ==
    /\ \E v \in DOMAIN Layouts :
           /\ sent \in Layouts[v]
           /\ reader \in Readers[v]
           /\ own \in BOOLEAN
           /\ own => v \in Writers
    /\ counts \in [1 .. Len(sent.groups) -> Counts]
    /\ own \/ Countable
    /\ pc = IF own THEN "encode_root" ELSE "dispatch"
    /\ LET missing == IF own THEN Rooms ELSE Cuts
       IN  end \in {EncodedSize - n : n \in missing} \intersect 0 .. MaxSize
    /\ layout = sent
    /\ cursor = 0
    /\ group = 1
    /\ left = 0
    /\ covered = TRUE
    /\ found = << >>

(* An exception, or an access behind the end, after which nothing is said. *)
GiveUp(how) ==
    /\ pc' = how
    /\ UNCHANGED <<message, layout, end, cursor, group, left, covered, found>>

-----------------------------------------------------------------------------
(* tc::encode checks for room for the fixed part.                          *)
EncodeRoot ==
    /\ pc = "encode_root"
    /\ sent.root <= end
    /\ cursor' = sent.root
    /\ pc' = "encode_group"
    /\ UNCHANGED <<message, layout, end, group, left, covered, found>>

RootDoesNotFit == pc = "encode_root" /\ sent.root > end /\ GiveUp("unsent")

EncodeHeader ==
    /\ pc = "encode_group"
    /\ group <= Len(sent.groups)
    /\ end - cursor >= sent.groups[group].header
    /\ cursor' = cursor + sent.groups[group].header
    /\ left' = counts[group]
    /\ pc' = "encode_items"
    /\ UNCHANGED <<message, layout, end, group, covered, found>>

(* "not enough space to encode sbe::group to"                              *)
HeaderDoesNotFit ==
    /\ pc = "encode_group"
    /\ group <= Len(sent.groups)
    /\ end - cursor < sent.groups[group].header
    /\ GiveUp("unsent")

(* The items are written without a look at the room there is.              *)
EncodeItem ==
    /\ pc = "encode_items"
    /\ left > 0
    /\ cursor + sent.groups[group].item <= end
    /\ cursor' = cursor + sent.groups[group].item
    /\ left' = left - 1
    /\ UNCHANGED <<message, pc, layout, end, group, covered, found>>

EncodeOutside ==
    /\ pc = "encode_items"
    /\ left > 0
    /\ cursor + sent.groups[group].item > end
    /\ GiveUp("overrun")

EncodeNext ==
    /\ pc = "encode_items"
    /\ left = 0
    /\ group' = group + 1
    /\ pc' = "encode_group"
    /\ UNCHANGED <<message, layout, end, cursor, left, covered, found>>

(* The message is handed on, whole or cut.                                 *)
Encoded ==
    /\ pc = "encode_group"
    /\ group > Len(sent.groups)
    /\ \E cut \in Cuts : cut <= cursor /\ end' = cursor - cut
    /\ cursor' = 0
    /\ group' = 1
    /\ pc' = "dispatch"
    /\ UNCHANGED <<message, layout, left, covered, found>>

-----------------------------------------------------------------------------
(* tc::decode of the variant: the alternative with the template id of the  *)
(* message; neither the version nor the block length next to it is used.   *)
Dispatch ==
    /\ pc = "dispatch"
    /\ layout' \in {l \in Layouts[reader] : l.id = sent.id}
    /\ pc' = "decode_root"
    /\ UNCHANGED <<message, end, cursor, group, left, covered, found>>

NoSuchType ==
    /\ pc = "dispatch"
    /\ \A l \in Layouts[reader] : l.id # sent.id
    /\ GiveUp("thrown")

DecodeRootUnchecked ==
    /\ pc = "decode_root"
    /\ cursor' = layout.root
    /\ pc' = "decode_group"
    /\ UNCHANGED <<message, layout, end, group, left, covered, found>>

(* tc::decode checks that the fixed part is there.                         *)
DecodeRoot ==
    /\ pc = "decode_root"
    /\ layout.root <= end
    /\ cursor' = layout.root
    /\ pc' = "decode_group"
    /\ UNCHANGED <<message, layout, end, group, left, covered, found>>

RootCut == pc = "decode_root" /\ layout.root > end /\ GiveUp("thrown")

ThisGroup == layout.groups[group]

(* The encoder leaves blockLength as it is initialised, and casts the      *)
(* number of items to the type of numInGroup.                              *)
CastSigned(k) ==
    LET n == counts[k] % sent.groups[k].modulus
    IN  IF 2 * n < sent.groups[k].modulus THEN n ELSE n - sent.groups[k].modulus
Cast(k) == counts[k] % sent.groups[k].modulus

Written(k) ==
    [blockLength |-> IF own THEN 0 ELSE sent.groups[k].item, numInGroup |-> Cast(k)]

(* What a group header that is read at cursor says.                        *)
HeadersHere ==
    LET here == {k \in 1 .. Len(sent.groups) :
                    /\ WireAt(k) = cursor
                    /\ sent.groups[k].header = ThisGroup.header
                    /\ sent.groups[k].modulus = ThisGroup.modulus}
    IN  IF here # {} THEN {Written(k) : k \in here} ELSE Garbage

(* blockLength * numInGroup is computed as an int.                         *)
Overflows(h) == h.numInGroup # 0 /\ h.blockLength > IntMax \div h.numInGroup

ItemsChecked(h, room) == room >= h.numInGroup
ItemsFit(h, room) == room >= h.blockLength * h.numInGroup

HeaderFitsStrictly == end - cursor > ThisGroup.header
HeaderFitsRoom == end - cursor >= ThisGroup.header

(* The header is read, and what it announces is there; if the product      *)
(* overflows the check may come out either way.                            *)
DecodeHeader ==
    /\ pc = "decode_group"
    /\ group <= Len(layout.groups)
    /\ HeaderFitsRoom
    /\ \E h \in HeadersHere :
           /\ Overflows(h) \/ ItemsFit(h, end - cursor - ThisGroup.header)
           /\ left' = h.numInGroup
           /\ found' = Append(found, h.numInGroup)
           /\ covered' = (covered /\ ~Overflows(h) /\ h.blockLength >= ThisGroup.item)
    /\ cursor' = cursor + ThisGroup.header
    /\ pc' = "decode_items"
    /\ UNCHANGED <<message, layout, end, group>>

(* "not enough data provided to decode sbe::group"                         *)
HeaderCutOff ==
    /\ pc = "decode_group"
    /\ group <= Len(layout.groups)
    /\ ~HeaderFitsRoom
    /\ GiveUp("thrown")

ItemsCutOff ==
    /\ pc = "decode_group"
    /\ group <= Len(layout.groups)
    /\ HeaderFitsRoom
    /\ \E h \in HeadersHere :
           Overflows(h) \/ ~ItemsFit(h, end - cursor - ThisGroup.header)
    /\ GiveUp("thrown")

(* The items are decoded by their own size, whatever blockLength is, and   *)
(* without a look at what is left.                                         *)
DecodeItem ==
    /\ pc = "decode_items"
    /\ left > 0
    /\ cursor + ThisGroup.item <= end
    /\ cursor' = cursor + ThisGroup.item
    /\ left' = left - 1
    /\ UNCHANGED <<message, pc, layout, end, group, covered, found>>

DecodeOutside ==
    /\ pc = "decode_items"
    /\ left > 0
    /\ cursor + ThisGroup.item > end
    /\ GiveUp("outside")

DecodeNext ==
    /\ pc = "decode_items"
    /\ left = 0
    /\ group' = group + 1
    /\ pc' = "decode_group"
    /\ UNCHANGED <<message, layout, end, cursor, left, covered, found>>

DecodedWithoutTail ==
    /\ pc = "decode_group"
    /\ group > Len(layout.groups) \/ cursor = end
    /\ pc' = "decoded"
    /\ UNCHANGED <<message, layout, end, cursor, group, left, covered, found>>

(* The message is complete when its last group has been decoded.           *)
Decoded ==
    /\ pc = "decode_group"
    /\ group > Len(layout.groups)
    /\ pc' = "decoded"
    /\ UNCHANGED <<message, layout, end, cursor, group, left, covered, found>>

Encode ==
    \/ EncodeRoot
    \/ RootDoesNotFit
    \/ EncodeHeader
    \/ HeaderDoesNotFit
    \/ EncodeItem
    \/ EncodeOutside
    \/ EncodeNext
    \/ Encoded

Decode ==
    \/ Dispatch
    \/ NoSuchType
    \/ DecodeRoot
    \/ RootCut
    \/ DecodeHeader
    \/ HeaderCutOff
    \/ ItemsCutOff
    \/ DecodeItem
    \/ DecodeOutside
    \/ DecodeNext
    \/ Decoded

Next == Encode \/ Decode

Spec == Init /\ [][Next]_vars
-----------------------------------------------------------------------------
TypeOK ==
    /\ \E v \in DOMAIN Layouts : sent \in Layouts[v] /\ reader \in Readers[v]
    /\ own \in BOOLEAN
    /\ counts \in [1 .. Len(sent.groups) -> Counts]
    /\ pc \in {"encode_root", "encode_group", "encode_items", "unsent", "overrun",
               "dispatch", "decode_root", "decode_group", "decode_items", "thrown",
               "outside", "decoded"}
    /\ layout \in {sent} \union Layouts[reader]
    /\ end \in Nat
    /\ cursor \in Nat
    /\ group \in Nat \ {0}
    /\ left \in Nat
    /\ covered \in BOOLEAN
    /\ found \in Seq(Nat)

(* Whatever the message, whoever wrote it and wherever it is cut, no codec *)
(* moves behind the end, and the decoder reads behind it only if a header  *)
(* on the wire had a blockLength below the size of the items decoded: the  *)
(* one check of sbe.hpp 47 covers all the unchecked items that follow it.  *)
InsideWhenCovered ==
    /\ cursor <= end
    /\ pc = "outside" => ~covered

(* What a decoder has to know of a message to find its way through it.     *)
SameSizes(l, m) ==
    /\ l.root = m.root
    /\ Len(l.groups) = Len(m.groups)
    /\ \A k \in 1 .. Len(m.groups) : /\ l.groups[k].header = m.groups[k].header
                                     /\ l.groups[k].modulus = m.groups[k].modulus
                                     /\ l.groups[k].item = m.groups[k].item

(* A message that is cut anywhere, even between two groups, is not taken   *)
(* for a whole one by a decoder that knows its sizes.                      *)
CutIsNotDecoded ==
    pc = "decoded" /\ SameSizes(layout, sent) /\ Countable =>
        cursor = EncodedSize /\ end = EncodedSize

(* What sbe.hpp 48 throws for, of the library's own messages: one that is  *)
(* cut is never read behind its end.                                       *)
OwnCutThrows == own /\ Countable /\ layout = sent => pc # "outside"

(* encoded_sizeof is what the encoder writes, and all the room it needs.   *)
EncodedSizeIsEnough ==
    /\ pc \in {"unsent", "overrun"} => end < EncodedSize
    /\ pc = "encode_group" /\ group > Len(sent.groups) => cursor = EncodedSize

(* A whole message for which the reader has an alternative of these sizes, *)
(* be it of its own version or of another one, reaches that alternative,   *)
(* which finds every group and every item and nothing else; so do the      *)
(* library's own messages, although their blockLength is 0.                *)
WholeMessageDecodes ==
    /\ \E l \in Layouts[reader] : l.id = sent.id /\ SameSizes(l, sent)
    /\ Countable
    /\ end = EncodedSize
    => /\ pc \notin {"thrown", "outside"}
       /\ pc = "decoded" => /\ layout \in Layouts[reader] /\ layout.id = sent.id
                            /\ found = counts
                            /\ cursor = end
=============================================================================
