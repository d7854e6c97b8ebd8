----------------------------- MODULE MainProofs -----------------------------
(***************************************************************************)
(* main for every command line and every configuration file: which source  *)
(* an option has at each point, how often the logger has been set up, and  *)
(* what a processor runs with.                                             *)
(***************************************************************************)
EXTENDS Main, TLAPS

(* The source of an option when everything has been stored.                *)
Merged(o) ==
    IF o \in argv.options THEN "cmdline"
    ELSE IF config.exists /\ o \in config.options THEN "file"
    ELSE IF o \in Defaulted THEN "default" ELSE "unset"

Types ==
    /\ argv \in CommandLines
    /\ config \in ConfigFiles
    /\ pc \in {"parse", "help", "config", "config_log", "log", "notify", "run", "exit"}
    /\ vm \in [Options -> Origins]
    /\ parsed \in BOOLEAN
    /\ printed \subseteq {"error", "usage"}
    /\ started \subseteq Symbols

(* The three states the map of options goes through.                       *)
Stores ==
    /\ pc = "parse" => \A o \in Options : vm[o] = "unset"
    /\ pc \in {"help", "config"} => \A o \in Options : vm[o] = Origin(o)
    /\ pc \in {"config_log", "log", "notify", "run"} =>
           \A o \in Options : vm[o] = Merged(o)

(* The logger before, while and after somebody has to set it up.           *)
Loggers ==
    /\ pc \in {"parse", "help", "config", "config_log"} => logger = << >> /\ ~parsed
    /\ pc = "log" => logger = IF parsed THEN <<vm["verbose"]>> ELSE << >>
    /\ pc \in {"notify", "run"} => logger = <<vm["verbose"]>>
    /\ logger = << >> \/ \E o \in Origins \ {"unset"} : logger = <<o>>

(* Nothing runs before the end, and only with all that run needs.          *)
Starts ==
    /\ pc = "run" => Required
    /\ started # {} =>
           /\ pc = "exit"
           /\ \A o \in Options : vm[o] = Merged(o)
           /\ Required
           /\ logger = <<vm["verbose"]>>
           /\ started = {RunName}

Helps ==
    argv.help =>
        /\ pc \in {"parse", "help", "exit"}
        /\ logger = << >>
        /\ started = {}
        /\ \A o \in Options : vm[o] # "file"

IInv == Types /\ Stores /\ Loggers /\ Starts /\ Helps
-----------------------------------------------------------------------------
LEMMA InitIInv == Init => IInv
    BY DEF Init, IInv, Types, Stores, Loggers, Starts, Helps, Origins

(* Every exception leaves all but pc and the console as it is.             *)
LEMMA ComplainKeeps ==
    ASSUME IInv, started = {}, NEW what \in SUBSET {"error", "usage"}, Complain(what)
    PROVE  IInv'
    <1> USE DEF IInv, Complain, inputs
    <1>1. Types'
        BY DEF Types
    <1>2. Stores' /\ Loggers'
        BY DEF Stores, Loggers
    <1> QED
        BY <1>1, <1>2 DEF Starts, Helps

(* Parsing stores the options that are given and the defaults of the rest. *)
LEMMA ParseCommandLineKeeps == ASSUME IInv, ParseCommandLine PROVE IInv'
    <1> USE DEF IInv, ParseCommandLine, inputs
    <1>1. Types'
        BY DEF Types, Origins, Origin
    <1>2. Stores'
        BY DEF Stores, Origin
    <1>3. Loggers'
        BY DEF Loggers
    <1> QED
        BY <1>1, <1>2, <1>3 DEF Starts, Helps, Origin

LEMMA StoreConfigKeeps == ASSUME IInv, StoreConfig PROVE IInv'
    <1> USE DEF IInv, StoreConfig, inputs
    <1>1. Types'
        BY DEF Types, Origins
    <1>2. ASSUME NEW o \in Options
          PROVE  (IF Stored(o) THEN "file" ELSE vm[o]) = Merged(o)
        BY DEF Stores, Stored, Merged, Origin
    <1>3. Stores'
        BY <1>2 DEF Stores, Merged
    <1> QED
        BY <1>1, <1>3 DEF Loggers, Starts, Helps

(* verbose has a default, so it is never without a source.                 *)
LEMMA VerboseIsSet ==
    ASSUME IInv, pc \in {"config_log", "log"}
    PROVE  vm["verbose"] \in Origins \ {"unset"}
    BY DEF IInv, Types, Stores, Merged, Options, Defaulted, Origins

LEMMA SetUpKeeps ==
    ASSUME IInv, ConfigLogger \/ CommandLineLogger
    PROVE  IInv'
    <1> USE DEF IInv, ConfigLogger, CommandLineLogger, SetUp, NeedsLogger, inputs
    <1>1. Types'
        BY DEF Types
    <1>2. Stores'
        BY DEF Stores, Merged
    <1>3. logger = << >>
        BY DEF Types, Loggers
    <1>4. logger' = <<vm["verbose"]>>
        BY <1>3, VerboseIsSet
    <1>5. Loggers'
        BY <1>4, VerboseIsSet DEF Loggers
    <1> QED
        BY <1>1, <1>2, <1>5 DEF Starts, Helps

LEMMA RunKeeps == ASSUME IInv, Run PROVE IInv'
    <1> USE DEF IInv, Run, inputs
    <1>1. Types'
        BY DEF Types
    <1>2. started' = {RunName} /\ RunName' = RunName
        BY DEF Starts, RunName
    <1>3. Stores' /\ Loggers'
        BY DEF Stores, Loggers
    <1>4. Starts'
        BY <1>2 DEF Starts, Stores, Loggers, Required, Merged
    <1> QED
        BY <1>1, <1>3, <1>4 DEF Helps

(* The steps that only move on.                                            *)
LEMMA MoveKeeps ==
    ASSUME IInv, Help \/ NoHelp \/ NoConfig \/ LoggerDone \/ Notify
    PROVE  IInv'
    <1> USE DEF IInv, Help, NoHelp, NoConfig, LoggerDone, Notify, HelpAsked, NeedsLogger, inputs
    <1>1. Types'
        BY DEF Types
    <1>2. Stores'
        BY DEF Stores, Origin, Merged
    <1>3. Loggers'
        BY DEF Loggers
    <1>4. Starts'
        BY DEF Starts, Required
    <1> QED
        BY <1>1, <1>2, <1>3, <1>4 DEF Helps

LEMMA ThrowKeeps ==
    ASSUME IInv,
           \/ ParseThrows \/ ConfigThrows \/ ConfigMissing \/ LoggingThrows
           \/ NotifyThrows \/ RunThrows \/ OutputThrows
    PROVE  IInv'
    <1>1. started = {}
        BY DEF IInv, Starts, ParseThrows, ConfigThrows, ConfigMissing, LoggingThrows,
               NotifyThrows, RunThrows, OutputThrows
    <1>2. \E what \in SUBSET {"error", "usage"} : Complain(what)
        BY DEF ParseThrows, ConfigThrows, ConfigMissing, LoggingThrows, NotifyThrows,
               RunThrows, OutputThrows, Usage
    <1> QED
        BY <1>1, <1>2, ComplainKeeps

LEMMA StutterKeeps == ASSUME IInv, UNCHANGED vars PROVE IInv'
    <1> USE DEF IInv, vars
    <1>1. Types' /\ Loggers' /\ Helps'
        BY DEF Types, Loggers, Helps
    <1>2. Stores'
        BY DEF Stores, Origin, Merged
    <1>3. Starts'
        BY DEF Starts, Required, RunName, Merged
    <1> QED
        BY <1>1, <1>2, <1>3

(* The inductive invariant holds in every reachable state.                 *)
THEOREM Invariance == Spec => []IInv
    <1>1. IInv /\ [Next]_vars => IInv'
        BY ParseCommandLineKeeps, StoreConfigKeeps, SetUpKeeps, RunKeeps, MoveKeeps,
           ThrowKeeps, StutterKeeps
        DEF Next
    <1> QED
        BY InitIInv, <1>1, PTL DEF Spec

(* Type correctness of main.                                               *)
THEOREM TypeCorrect == Spec => []TypeOK
    <1>1. Loggers => logger \in Seq({"default", "file", "cmdline"})
        <2>1. << >> \in Seq({"default", "file", "cmdline"})
            OBVIOUS
        <2>2. \A o \in Origins \ {"unset"} : <<o>> \in Seq({"default", "file", "cmdline"})
            BY DEF Origins
        <2> QED
            BY <2>1, <2>2 DEF Loggers
    <1>2. IInv => TypeOK
        BY <1>1 DEF IInv, Types, TypeOK
    <1> QED
        BY Invariance, <1>2, PTL

(* A processor runs with the command line's value of every option, or else *)
(* the file's, or else the default, and with a file name.                  *)
THEOREM PrecedenceCorrect == Spec => []Precedence
    <1>1. ASSUME IInv, started # {} PROVE Precedence
        <2>1. \A o \in Options : vm[o] = Merged(o)
            BY <1>1 DEF IInv, Starts
        <2>2. "filename" \in argv.options \union config.options
            BY <1>1, <2>1 DEF IInv, Starts, Required, Merged, Options, Defaulted
        <2>3. "run" \in argv.options => started = {argv.run}
            BY <1>1, <2>1 DEF IInv, Starts, RunName, Merged, Options
        <2> QED
            BY <2>1, <2>2, <2>3 DEF Precedence, Merged
    <1>2. IInv => Precedence
        BY <1>1 DEF Precedence
    <1> QED
        BY Invariance, <1>2, PTL

(* The logger is set up at most once, and once before a processor runs.    *)
THEOREM LoggerCorrect == Spec => []LoggerSetUpOnce
    <1>1. IInv => LoggerSetUpOnce
        BY DEF IInv, Loggers, Starts, LoggerSetUpOnce
    <1> QED
        BY Invariance, <1>1, PTL

(* Asking for help has no other effect.                                    *)
THEOREM HelpCorrect == Spec => []HelpDoesNothingElse
    <1>1. IInv => HelpDoesNothingElse
        BY DEF IInv, Helps, HelpDoesNothingElse
    <1> QED
        BY Invariance, <1>1, PTL
=============================================================================
