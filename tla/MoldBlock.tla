----------------------------- MODULE MoldBlock -----------------------------
(***************************************************************************)
(* The message block of a MoldUDP64 file: a two byte packet_block header   *)
(* holding message_size, then message_size bytes of one ITCH message.      *)
(* Offsets count bytes from zero, as the pointers of the C++ code do; byte *)
(* number `at` of a memory is mem[at + 1].                                 *)
(***************************************************************************)
EXTENDS Integers, Sequences

CONSTANT Base    \* number of values of a byte: 256 in the code

ASSUME BaseAssumption == Base \in Nat \ {0}

Byte == 0 .. Base - 1

(* tc::encoded_sizeof of packet_block: its one described member is a       *)
(* std::uint16_t.                                                          *)
HeaderSize == 2

(* What tc::decode<packet_block> reads at `at`.                            *)
MessageSize(mem, at) == mem[at + 1] * Base + mem[at + 2]

(* The n bytes of mem that start at `at`.                                  *)
BytesAt(mem, at, n) == [i \in 1 .. n |-> mem[at + i]]

(* A complete block starts at `at` when `limit` bytes are there to read.   *)
CompleteBlock(mem, at, limit) ==
    /\ at + HeaderSize <= limit
    /\ at + HeaderSize + MessageSize(mem, at) <= limit

BlockSize(mem, at) == HeaderSize + MessageSize(mem, at)
=============================================================================
