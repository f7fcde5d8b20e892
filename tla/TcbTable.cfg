\* Two starts of client programs, of one client or of two; two faults.
SPECIFICATION Spec
CONSTANTS
    Clients = {c1, c2}
    MAX_TRANSPORT_CONNECTIONS = 2
    SYN_MAX_RETRY = 3
    FIN_MAX_RETRY = 2
    MaxData = 1
    MaxSessions = 2
    MaxFaults = 2
    None = None
SYMMETRY Alike
INVARIANTS
    TypeOK
    OwnSlot
    Served
    AckedTaken
    FinAgreed
\* Every program has ended and every slot is free: nothing is left to do.
CHECK_DEADLOCK FALSE
