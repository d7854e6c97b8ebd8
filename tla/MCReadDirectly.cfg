\* Two values of a byte make message_size 0 .. 3, blocks of 2 .. 5 bytes and
\* buffers both smaller and larger than a block; streams hold up to four blocks.
SPECIFICATION FairSpec
CONSTANTS
    Base = 2
    MaxLength = 8
    MinBuffer = 2
    BufferOptions = {1, 3, 4, 5, 6}
    Streams <- MCStreams
INVARIANTS
    TypeOK
    BufferMirrorsStream
    TooSmallOnlyForOversizedBlock
PROPERTIES
    RefinesFraming
    Termination
CHECK_DEADLOCK FALSE
