\* A node with two route updates that may come, two STCP programs, one SIGINT.
SPECIFICATION Spec
CONSTANTS
    Lines <- MCLines
    MAX_ROUTINGTABLE_SLOTS = 10
    INFINITE_COST = 999
    Me = 1
    Updates <- MCUpdates
    MaxPrograms = 2
    None = None
    ByteSize = 4
    HeaderLen = 6
    LengthAt = 3
INVARIANTS
    TypeOK
    TablesAgree
    LookupSound
    RowsWhole
    SonOnly
