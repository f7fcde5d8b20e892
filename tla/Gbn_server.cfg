\* The sender of the lab11 server, whose timer takes the wrong mutex.
SPECIFICATION Spec
CONSTANTS
    GBN_WINDOW = 2
    MAX_SEQNUM = 4
    TimerLocksSendBuf = FALSE
    Reordering = FALSE
    NoSeg = NoSeg
    MaxData = 3
    MaxInFlight = 2
INVARIANTS
    TimerPointerLive
\* Everything sent, received and acknowledged: nothing is left to do.
CHECK_DEADLOCK FALSE
