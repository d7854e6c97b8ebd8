\* Two types and blocks of neither, in every order, so that a type is seen first
\* and again, before and after a block that cannot be decoded.
SPECIFICATION FairSpec
CONSTANTS
    Types = {add_order, trade}
    Undecodable = Undecodable
    Processors = {"count", "dump", "hdf5", "parquet"}
    MaxBlocks = 3
    Files <- MCFiles
INVARIANTS
    TypeOK
    CounterAgrees
    RowsAreTheMessages
    ReportIsTrue
    OutputsOfOneRun
PROPERTIES
    DurationMeasured
    AlwaysDone
CHECK_DEADLOCK FALSE
