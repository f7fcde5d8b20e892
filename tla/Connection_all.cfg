\* Three attempts to connect, two to disconnect, two segments of data.
SPECIFICATION FairSpec
CONSTANTS
    SYN_MAX_RETRY = 3
    FIN_MAX_RETRY = 2
    Nothing = Nothing
    MaxData = 2
    MaxInFlight = 2
INVARIANTS
    TypeOK
    Agreement
    ReleaseSound
    

    
\* A program that has ended leaves nothing to do.
CHECK_DEADLOCK FALSE
