\* A SYNACK that is handled just after the last attempt has timed out.
SPECIFICATION Spec
CONSTANTS
    SYN_MAX_RETRY = 2
    FIN_MAX_RETRY = 2
    Nothing = Nothing
    MaxData = 1
    MaxInFlight = 2
INVARIANTS
    ConnectAnswersSynAck
\* A program that has ended leaves nothing to do.
CHECK_DEADLOCK FALSE
