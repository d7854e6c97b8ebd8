--------------------------- MODULE MCRunProcessor ---------------------------
(***************************************************************************)
(* Instance of RunProcessor for TLC: every file of at most MaxBlocks       *)
(* blocks as long as their messages, and every one of less blocks that may *)
(* be longer. What is in an unreadable file is never asked for.            *)
(***************************************************************************)
EXTENDS RunProcessor, SequencesExt

CONSTANT MaxBlocks    \* bound on the number of blocks in a file

Blocks(lengths) == [type : Types \union {Undecodable}, longer : lengths]

MCFiles ==
    [kind   : {"gzip", "raw"},
     blocks : BoundedSeq(Blocks({FALSE}), MaxBlocks)
              \union BoundedSeq(Blocks(BOOLEAN), MaxBlocks - 1)]
    \union [kind : {"unreadable"}, blocks : {<< >>}]
=============================================================================
