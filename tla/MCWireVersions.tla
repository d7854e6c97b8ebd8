--------------------------- MODULE MCWireVersions ---------------------------
(***************************************************************************)
(* Instance of WireVersions for TLC.                                       *)
(***************************************************************************)
EXTENDS WireVersions

(* One header that passes the check and one that need not.                 *)
MCGarbage == {[blockLength |-> 0, numInGroup |-> 1],
              [blockLength |-> 255, numInGroup |-> 8]}
=============================================================================
