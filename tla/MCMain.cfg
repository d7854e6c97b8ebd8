\* An option without default, one with, and the one that is interpreted: each
\* absent, on the command line, in the file, or in both.
SPECIFICATION FairSpec
CONSTANTS
    Given = {"filename", "verbose", "run"}
    CommandLines <- MCCommandLines
    ConfigFiles <- MCConfigFiles
INVARIANTS
    TypeOK
    Precedence
    LoggerSetUpOnce
    HelpDoesNothingElse
PROPERTIES
    Answered
CHECK_DEADLOCK FALSE
