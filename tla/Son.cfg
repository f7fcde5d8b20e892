\* Node 3 connects to 1 and 2; a process of node 1 may end at any moment.
SPECIFICATION Spec
CONSTANTS
    Nodes = {1, 2, 3}
    Links = {{1, 3}, {2, 3}}
    Payloads <- Payloads2
    PktLen = 2
    BROADCAST_NODEID = 9999
    Talking = {1, 3}
    Ending = {1}
    MaxEnds = 1
INVARIANTS
    TypeOK
    FramesWhole
    ConnTruth
PROPERTIES
    Settles
\* Everything sent and read: nothing is left to do.
CHECK_DEADLOCK FALSE
