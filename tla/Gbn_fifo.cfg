\* FIFO network; the sequence numbers wrap around as early as they may.
SPECIFICATION Spec
CONSTANTS
    GBN_WINDOW = 2
    MAX_SEQNUM = 4
    TimerLocksSendBuf = TRUE
    Reordering = FALSE
    NoSeg = NoSeg
    MaxData = 6
    MaxInFlight = 3
INVARIANTS
    TypeOK
    WindowConsistent
    NothingLost
PROPERTIES
    ImplementsReliableStream
\* Everything sent, received and acknowledged: nothing is left to do.
CHECK_DEADLOCK FALSE
