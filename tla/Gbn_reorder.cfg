\* Segments overtake each other; the sequence numbers do not wrap.
SPECIFICATION FairSpec
CONSTANTS
    GBN_WINDOW = 2
    MAX_SEQNUM = 5
    TimerLocksSendBuf = TRUE
    Reordering = TRUE
    NoSeg = NoSeg
    MaxData = 3
    MaxInFlight = 2
PROPERTIES
    ImplementsReliableStream
    AllArrives
    Drains
\* Everything sent, received and acknowledged: nothing is left to do.
CHECK_DEADLOCK FALSE
