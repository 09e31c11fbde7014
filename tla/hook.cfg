\* Three remounts and three failed or broken connections, with as many sockets as can be alive.
CONSTANTS
    Socket = {s1, s2, s3, s4}
    None = None
    MaxFaults = 3
    MaxRemounts = 3
SPECIFICATION Spec
CHECK_DEADLOCK FALSE
INVARIANTS
    TypeOK
    NeverStranded
    ChainsBounded
    StatusTrue
PROPERTIES
    Reconnects
