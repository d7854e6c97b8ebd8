\* Two values of a byte make message_size 0 .. 3; streams hold up to four blocks.
SPECIFICATION FairSpec
CONSTANTS
    Base = 2
    MaxLength = 9
    Streams <- MCStreams
INVARIANTS
    TruncationReported
PROPERTIES
    RefinesFraming
    Termination
CHECK_DEADLOCK FALSE
