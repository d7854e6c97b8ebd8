\* The same instance: a message of this library, cut, then decoded.
SPECIFICATION Spec
CONSTANTS
    Layouts <- MCLayouts
    Readers <- MCReaders
    Writers = {"older", "newer"}
    Counts = {0, 1, 2, 3}
    Rooms = {0, 1, 2, 3, 4, 5, 6, 7, 8, 9}
    Cuts = {0, 1, 2, 3, 4, 5, 6, 7, 8, 9}
    Garbage <- MCGarbage
    MaxSize = 20
    IntMax = 20
INVARIANTS
    OwnCutThrows
CHECK_DEADLOCK FALSE
