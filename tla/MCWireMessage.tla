---------------------------- MODULE MCWireMessage ---------------------------
(***************************************************************************)
(* Instance of WireMessage for TLC: two versions of a small protocol. The  *)
(* newer has a larger fixed part, larger items or another group header,    *)
(* each in a message of its own, one message of the sizes it had before,   *)
(* and one that the older does not have.                                   *)
(***************************************************************************)
EXTENDS WireMessage

Small(item) == [header |-> 1, modulus |-> 2, item |-> item]
Large(item) == [header |-> 2, modulus |-> 3, item |-> item]
Message(version, id, root, groups) ==
    [version |-> version, id |-> id, root |-> root, groups |-> groups]

Older == {Message("older", 1, 2, << >>),
          Message("older", 2, 1, <<Small(2)>>),
          Message("older", 3, 1, <<Large(2), Small(1)>>),
          Message("older", 4, 2, <<Small(1), Large(0), Large(2)>>)}

Newer == {Message("newer", 1, 3, << >>),
          Message("newer", 2, 1, <<Small(3)>>),
          Message("newer", 3, 2, <<Large(2), Large(1)>>),
          Message("newer", 4, 2, <<Small(1), Large(0), Large(2)>>),
          Message("newer", 5, 1, <<Small(2)>>)}

MCLayouts == [older |-> Older, newer |-> Newer]
MCReaders == [older |-> {"older", "newer"}, newer |-> {"older", "newer"}]

(* A count too small, one that fits, and a product that overflows.         *)
MCGarbage == {[blockLength |-> b, numInGroup |-> n] : b \in {0, 2, 11}, n \in {1, 2}}
=============================================================================
