\* A seed, a client that has run before, and one that knows only the latter.
SPECIFICATION Spec
CONSTANTS
    Clients = {s, l1, l2}
    Seeds = {s}
    Links = {{s, l1}, {l1, l2}}
    NumPieces = 2
    NumBlocks = 2
    MAXPEER = 2
    MaxPerPair = 1
    Earlier = {l1}
    Saved = {{1}}
    Ending = {l1}
    MaxStops = 1
    None = None
INVARIANTS
    TypeOK
    Integrity
    AnswersFit

    
\* Everybody has everything, or a thread draws its first piece for ever.
CHECK_DEADLOCK FALSE
