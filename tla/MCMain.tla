------------------------------- MODULE MCMain -------------------------------
(***************************************************************************)
(* Instance of Main for TLC: every command line and every configuration    *)
(* file over the options whose origins the properties tell apart; path,    *)
(* buffer-size and unpack-first are stored just as verbose is.             *)
(***************************************************************************)
EXTENDS Main

CONSTANT Given    \* the options that may be given, a subset of Options

(* The value of an option that is not given makes no difference.           *)
Normal(source) == "run" \in source.options \/ source.run = "count"

MCCommandLines ==
    {c \in [valid : BOOLEAN, help : BOOLEAN, config : BOOLEAN, options : SUBSET Given,
            run : RunNames] : Normal(c)}

MCConfigFiles ==
    {f \in [exists : BOOLEAN, valid : BOOLEAN, logging : BOOLEAN, options : SUBSET Given,
            run : RunNames] : Normal(f)}
=============================================================================
