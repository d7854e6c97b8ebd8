\* Byte 0 is the type of no message. Streams hold up to two messages of two bytes,
\* or four blocks that hold none; the buffers are too small for some blocks.
SPECIFICATION FileSpec
CONSTANTS
    Base = 3
    Types = {1, 2}
    SizeOfType <- MCSizeOfType
    Undecodable = Undecodable
    MaxLength = 8
    MinBuffer = 2
    BufferOptions = {3, 6}
    Streams <- MCStreams
INVARIANTS
    ReportOfFile
PROPERTIES
    RefinesRunProcessor
    AlwaysReports
CHECK_DEADLOCK FALSE
