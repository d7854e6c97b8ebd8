\* Groups with as many items as numInGroup can say, one more and one less, and
\* every cut and every room, as no message here is longer than a few bytes.
SPECIFICATION Spec
CONSTANTS
    Layouts <- MCLayouts
    Readers <- MCReaders
    Writers = {"older", "newer"}
    Counts = {0, 1, 2, 3}
    Rooms = {0, 1, 2, 3, 4, 5, 6, 7, 8, 9}
    Cuts = {0, 1, 2, 3, 4, 5, 6, 7, 8, 9}
    Garbage <- MCGarbage
    MaxSize = 20
    IntMax = 20
INVARIANTS
    TypeOK
    InsideWhenCovered
    CutIsNotDecoded
    EncodedSizeIsEnough
    WholeMessageDecodes
CHECK_DEADLOCK FALSE
