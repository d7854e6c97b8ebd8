---------------------------- MODULE ScalarCodecs ----------------------------
(***************************************************************************)
(* The two scalar codecs the library writes itself: timestamp_t of ITCH,   *)
(* eight bytes of which the six lower ones are sent, and optional, a       *)
(* number of which one value means that there is none.  A value goes from  *)
(* program to program, each of which decodes what it receives and encodes  *)
(* what it holds, and runs on a host of either byte order.  A number in    *)
(* the memory of a host is a sequence of bytes, in the order of the host.  *)
(***************************************************************************)
EXTENDS Integers, SequencesExt

CONSTANTS Base,     \* how many values a byte has: 256
          Hosts,    \* byte orders of the hosts, of {"little", "big"}
          Size,     \* sizeof the number in an optional
          None      \* std::nullopt

ASSUME ScalarAssumption ==
    /\ Base \in Nat \ {0, 1}
    /\ Size \in Nat \ {0}
    /\ Hosts \subseteq {"little", "big"}
    /\ None \notin Nat

VARIABLES codec,    \* "timestamp" or "optional"
          null,     \* Null of the optional
          origin,   \* what the first program had
          host,     \* the byte order of the program that has it now
          held,     \* what that program holds
          wire,     \* the bytes it has sent, once it has
          pc        \* "held" or "sent"

vars == <<codec, null, origin, host, held, wire, pc>>
-----------------------------------------------------------------------------
(* Numbers and memory.                                                     *)
Power[n \in Nat] == IF n = 0 THEN 1 ELSE Base * Power[n - 1]

Digits(v, size) == [i \in 1 .. size |-> (v \div Power[size - i]) % Base]

Memory(v, size, order) ==
    IF order = "big" THEN Digits(v, size) ELSE Reverse(Digits(v, size))

(* The numbers that the first bytes of a big endian number are.            *)
Values(bytes) ==
    LET value[n \in 0 .. Len(bytes)] ==
            IF n = 0 THEN 0 ELSE Base * value[n - 1] + bytes[n]
    IN  value

Value(bytes) == Values(bytes)[Len(bytes)]

Number(bytes, order) == Value(IF order = "big" THEN bytes ELSE Reverse(bytes))

(* boost::endian: the number that has in this host's memory the bytes v    *)
(* has in the memory of a host of the other order, and back.               *)
Converted(v, size, order, h) == Number(Memory(v, size, order), h)

(* timestamp_t: all of it in big endian order, without its first two bytes *)
EncodeTimestampCut(v, h) == SubSeq(Memory(Converted(v, 8, "big", h), 8, h), 1, 6)
EncodeTimestamp(v, h) == SubSeq(Memory(Converted(v, 8, "big", h), 8, h), 3, 8)

DecodeTimestamp(raw, h) == Converted(Number(<<0, 0>> \o raw, h), 8, h, "big")

(* optional: what it stores for a value or none, and what it gives back.   *)
StoredZero(value, nil) == IF value = None THEN 0 ELSE value
Stored(value, nil) == IF value = None THEN nil ELSE value

ValueOf(raw, nil) == IF raw # nil THEN raw ELSE None

(* The codec of its number, of a little endian protocol (external).        *)
EncodeNumber(raw, h) == Memory(Converted(raw, Size, "little", h), Size, h)
DecodeNumber(bytes, h) == Converted(Number(bytes, h), Size, h, "little")
-----------------------------------------------------------------------------
Optionals == 0 .. Power[Size] - 1

Init == /\ codec \in {"timestamp", "optional"}
        /\ null \in IF codec = "optional" THEN Optionals ELSE {0}
        /\ origin \in IF codec = "optional" THEN Optionals \cup {None} ELSE 0 .. Power[8] - 1
        /\ host \in Hosts
        /\ held = origin
        /\ wire = <<>>
        /\ pc = "held"

Encode == /\ pc = "held"
          /\ wire' = IF codec = "timestamp" THEN EncodeTimestamp(held, host)
                     ELSE EncodeNumber(Stored(held, null), host)
          /\ pc' = "sent"
          /\ UNCHANGED <<codec, null, origin, host, held>>

Decode(h) == /\ pc = "sent"
             /\ held' = IF codec = "timestamp" THEN DecodeTimestamp(wire, h)
                        ELSE ValueOf(DecodeNumber(wire, h), null)
             /\ host' = h
             /\ pc' = "held"
             /\ UNCHANGED <<codec, null, origin, wire>>

Next == Encode \/ \E h \in Hosts : Decode(h)

Spec == Init /\ [][Next]_vars
-----------------------------------------------------------------------------
(* A timestamp keeps its six lower bytes, whatever hosts it passes and     *)
(* however often it is decoded and encoded again, and only those: the two  *)
(* upper ones, which no time of a day needs, are zero for every receiver.  *)
TimestampCarried ==
    codec = "timestamp" /\ wire # <<>> /\ pc = "held" => held = origin % Power[6]

(* An optional arrives as it was sent, a missing value as a missing value, *)
(* but for the one number that stands for it: a program that sends that    *)
(* number has sent none.                                                   *)
OptionalCarried ==
    codec = "optional" /\ wire # <<>> /\ pc = "held" =>
        held = IF origin = null THEN None ELSE origin
=============================================================================
