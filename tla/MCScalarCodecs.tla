--------------------------- MODULE MCScalarCodecs ---------------------------
(***************************************************************************)
(* Instance of ScalarCodecs for TLC.                                       *)
(***************************************************************************)
EXTENDS ScalarCodecs

MCNone == -1
=============================================================================
