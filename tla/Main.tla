-------------------------------- MODULE Main --------------------------------
(***************************************************************************)
(* main: the command line, an optional configuration file and the defaults *)
(* make one map of options; the logger is set up from it; then one of the  *)
(* processors is chosen by name and run. Every exception ends in one of    *)
(* three handlers, and the exit status is 0 whatever happened. Values are  *)
(* abstracted to where they come from, but for the value of run.           *)
(***************************************************************************)
EXTENDS Naturals, Sequences

CONSTANTS
    CommandLines,   \* inputs: what argv may hold
    ConfigFiles     \* inputs: the configuration file on the disk

(* common_options: all options, and those that have a default value.       *)
Options == {"filename", "path", "verbose", "buffer-size", "unpack-first", "run"}
Defaulted == {"verbose", "buffer-size", "unpack-first", "run"}

(* What the description of the option run tells the user.                  *)
Advertised == {"count", "dump", "snapshot", "hdf5", "parquet"}

(* The symbols of the parser in run(options).                              *)
Symbols == {"count", "dump", "hdf5", "parquet"}

RunNames == Advertised \union {"misspelt"}

ASSUME CommandLinesAssumption ==
    CommandLines \subseteq [valid   : BOOLEAN,          \* it parses
                            help    : BOOLEAN,
                            config  : BOOLEAN,          \* it names a file
                            options : SUBSET Options,
                            run     : RunNames]
ASSUME ConfigFilesAssumption ==
    ConfigFiles \subseteq [exists  : BOOLEAN,           \* it can be opened
                           valid   : BOOLEAN,
                           logging : BOOLEAN,           \* it has a log section
                           options : SUBSET Options,
                           run     : RunNames]

VARIABLES
    argv,       \* the command line
    config,     \* the file it names, or config.ini
    pc,         \* control state of main
    vm,         \* where the value of each option comes from
    parsed,     \* parse_config has returned true
    logger,     \* the set-ups of the logger: each the origin of verbose then
    printed,    \* what has been written to the console
    started     \* the processors that have been run

inputs == <<argv, config>>
vars == <<argv, config, pc, vm, parsed, logger, printed, started>>

Init ==
    /\ argv \in CommandLines
    /\ config \in ConfigFiles
    /\ pc = "parse"
    /\ vm = [o \in Options |-> "unset"]
    /\ parsed = FALSE
    /\ logger = << >>
    /\ printed = {}
    /\ started = {}

(* program_options::error: the message and the usage. Any other: the       *)
(* message alone.                                                          *)
UsageSwallowed == {}
Usage == {"error", "usage"}

Complain(what) ==
    /\ printed' = printed \union what
    /\ pc' = "exit"
    /\ UNCHANGED <<inputs, vm, parsed, logger, started>>

(* store of the command line, and of the defaults.                         *)
OriginUndefaulted(o) == IF o \in argv.options THEN "cmdline" ELSE "unset"
Origin(o) ==
    IF o \in argv.options THEN "cmdline"
    ELSE IF o \in Defaulted THEN "default" ELSE "unset"

ParseCommandLine ==
    /\ pc = "parse"
    /\ argv.valid
    /\ vm' = [o \in Options |-> Origin(o)]
    /\ pc' = "help"
    /\ UNCHANGED <<inputs, parsed, logger, printed, started>>

ParseThrows == pc = "parse" /\ ~argv.valid /\ Complain(Usage)

HelpAskedLater == argv.help /\ pc # "help"
HelpAsked == argv.help

Help ==
    /\ pc = "help"
    /\ HelpAsked
    /\ printed' = {"usage"}
    /\ pc' = "exit"
    /\ UNCHANGED <<inputs, vm, parsed, logger, started>>

NoHelp ==
    /\ pc = "help"
    /\ ~HelpAsked
    /\ pc' = "config"
    /\ UNCHANGED <<inputs, vm, parsed, logger, printed, started>>

(* store never replaces a value that was given, only a default.            *)
StoredOver(o) == o \in config.options
Stored(o) == o \in config.options /\ vm[o] # "cmdline"

StoreConfig ==
    /\ pc = "config"
    /\ config.exists
    /\ config.valid
    /\ vm' = [o \in Options |-> IF Stored(o) THEN "file" ELSE vm[o]]
    /\ pc' = "config_log"
    /\ UNCHANGED <<inputs, parsed, logger, printed, started>>

ConfigThrows == pc = "config" /\ config.exists /\ ~config.valid /\ Complain(Usage)

(* "can't open configuration file": only of a file that was asked for.     *)
ConfigMissing == pc = "config" /\ ~config.exists /\ argv.config /\ Complain({"error"})

NoConfig ==
    /\ pc = "config"
    /\ ~config.exists
    /\ ~argv.config
    /\ pc' = "log"
    /\ UNCHANGED <<inputs, vm, parsed, logger, printed, started>>

(* init_log_from_unrecognized_program_options, which may refuse what it is *)
(* given, or configure_default_logger, which looks at verbose.             *)
SetUp(next) == logger' = Append(logger, vm["verbose"]) /\ pc' = next

ConfigLogger ==
    /\ pc = "config_log"
    /\ SetUp("log")
    /\ parsed' = TRUE
    /\ UNCHANGED <<inputs, vm, printed, started>>

LoggingThrows ==
    /\ pc = "config_log"
    /\ config.logging
    /\ Complain({"error"}) \/ Complain(Usage)

NeedsLoggerAlways == TRUE
NeedsLogger == ~parsed

CommandLineLogger ==
    /\ pc = "log"
    /\ NeedsLogger
    /\ SetUp("notify")
    /\ UNCHANGED <<inputs, vm, parsed, printed, started>>

LoggerDone ==
    /\ pc = "log"
    /\ ~NeedsLogger
    /\ pc' = "notify"
    /\ UNCHANGED <<inputs, vm, parsed, logger, printed, started>>

Required == vm["filename"] # "unset"

Notify ==
    /\ pc = "notify"
    /\ Required
    /\ pc' = "run"
    /\ UNCHANGED <<inputs, vm, parsed, logger, printed, started>>

NotifyThrows == pc = "notify" /\ ~Required /\ Complain(Usage)

RunName ==
    CASE vm["run"] = "cmdline" -> argv.run
      [] vm["run"] = "file" -> config.run
      [] OTHER -> "count"

Run ==
    /\ pc = "run"
    /\ RunName \in Symbols
    /\ started' = started \union {RunName}
    /\ pc' = "exit"
    /\ UNCHANGED <<inputs, vm, parsed, logger, printed>>

(* "unknown processor"                                                     *)
RunThrows == pc = "run" /\ RunName \notin Symbols /\ Complain(Usage)

(* The writers open their output before any input is read.                 *)
OutputThrows == pc = "run" /\ RunName \in {"hdf5", "parquet"} /\ Complain({"error"})

Next ==
    \/ ParseCommandLine
    \/ ParseThrows
    \/ Help
    \/ NoHelp
    \/ StoreConfig
    \/ ConfigThrows
    \/ ConfigMissing
    \/ NoConfig
    \/ ConfigLogger
    \/ LoggingThrows
    \/ CommandLineLogger
    \/ LoggerDone
    \/ Notify
    \/ NotifyThrows
    \/ Run
    \/ RunThrows
    \/ OutputThrows

Spec == Init /\ [][Next]_vars

(* One thread runs main; nothing before the processor waits.               *)
FairSpec == Spec /\ WF_vars(Next)
-----------------------------------------------------------------------------
Origins == {"unset", "default", "file", "cmdline"}

TypeOK ==
    /\ argv \in CommandLines
    /\ config \in ConfigFiles
    /\ pc \in {"parse", "help", "config", "config_log", "log", "notify", "run", "exit"}
    /\ vm \in [Options -> Origins]
    /\ parsed \in BOOLEAN
    /\ logger \in Seq({"default", "file", "cmdline"})
    /\ printed \subseteq {"error", "usage"}
    /\ started \subseteq Symbols

(* A processor runs with what the user wrote: the command line wins over   *)
(* the configuration file and that over the defaults, for every option,    *)
(* although the file is stored second (main.cpp 80 and 43); the file name, *)
(* which has no default, is one of the two.                                *)
Precedence ==
    started # {} =>
        /\ \A o \in Options :
               vm[o] = IF o \in argv.options THEN "cmdline"
                       ELSE IF config.exists /\ o \in config.options THEN "file"
                       ELSE IF o \in Defaulted THEN "default" ELSE "unset"
        /\ "filename" \in argv.options \union config.options
        /\ "run" \in argv.options => started = {argv.run}

(* The logger is set up once on either way through parse_config (main.cpp  *)
(* 47-48 and 86-88), before a processor runs, and with the same verbose    *)
(* that the processor gets: a second sink would log every line twice.      *)
LoggerSetUpOnce ==
    /\ Len(logger) <= 1
    /\ started # {} => logger = <<vm["verbose"]>>

(* Asking for help reads no configuration file, sets up no logger and runs *)
(* nothing, whatever else the command line says (main.cpp 82-85).          *)
HelpDoesNothingElse ==
    argv.help => logger = << >> /\ started = {} /\ \A o \in Options : vm[o] # "file"

(* main always ends, and as its status is 0 either way, either a processor *)
(* has run or the console says why not.                                    *)
Answered == <>(pc = "exit" /\ (started # {} \/ printed # {}))

(* Every processor that the description of the option run lists can be run *)
(* (main.cpp 22): none of them is an unknown processor.                    *)
AdvertisedIsKnown ==
    pc = "run" /\ RunName \in Advertised => RunName \in Symbols
=============================================================================
