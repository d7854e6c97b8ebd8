\* Every message of every protocol with empty groups and groups of two, whole,
\* and the repeating groups of EOBI with no, one, two and three entries.
SPECIFICATION Spec
CONSTANTS
    Layouts <- AllLayouts
    Readers <- AllReaders
    Writers = {"itch", "eobi13_0", "eobi13_1", "cme9", "cme13"}
    Entries = {0, 1, 2, 3}
    Counts = {0, 2}
    Rooms = {0}
    Cuts = {0}
    Garbage <- MCGarbage
    MaxSize = 65535
    IntMax = 2147483647
INVARIANTS
    OtherVersionDecodes
    FieldsWhereWritten
    FirstEntryDecodes
CHECK_DEADLOCK FALSE
