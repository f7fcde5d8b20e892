\* Three nodes, node 2 starting late, a packet under way from 1 to 3 while the tables change.
SPECIFICATION FairSpec
CONSTANTS
    csnetlab_1 = csnetlab_1
    csnetlab_2 = csnetlab_2
    csnetlab_3 = csnetlab_3
    Node <- TriNodes
    Dest <- TriDest
    Link <- TriLink
    Shortest <- TriShortest
    INFINITE_COST <- MCInfinite
    NoRoute = NoRoute
    NoRow = NoRow
    Started <- MidStarted
    Sources <- MCSources
    MaxInFlight = 1
    MaxPackets = 1
INVARIANTS
    TypeOK
    LoopFree
    TravelWithinQuote
PROPERTIES
    PacketsArrive
    Converges
    ImplementsRouteDescent
