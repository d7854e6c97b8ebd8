\* The same instance: some stream makes a read store behind the mapping.
SPECIFICATION FairSpec
CONSTANTS
    Base = 2
    MaxLength = 8
    CompressedSizes = {2, 3}
    Streams <- MCStreams
INVARIANT
    StoresInsideMapping
CHECK_DEADLOCK FALSE
