\* Eight bytes of three values each: every timestamp; every number of three bytes
\* with every null value. All pairs of hosts.
SPECIFICATION Spec
CONSTANTS
    Base = 3
    Hosts = {"little", "big"}
    Size = 3
    None <- MCNone
INVARIANTS
    TimestampCarried
    OptionalCarried
