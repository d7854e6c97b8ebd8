\* An archive of two bytes makes buffer_size 6 and the room for a second read 1,
\* so streams of 0 .. 8 bytes need one read, exactly one, two, and too many.
SPECIFICATION FairSpec
CONSTANTS
    Base = 2
    MaxLength = 8
    CompressedSizes = {2, 3}
    Streams <- MCStreams
INVARIANTS
    TypeOK
    MappingMirrorsStream
    OutsideOnlyForLongStream
    TruncationReported
    TempFileAccounted
PROPERTIES
    RefinesFraming
    Termination
CHECK_DEADLOCK FALSE
