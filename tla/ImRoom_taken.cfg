\* Two users log in, the second before the first one's GiveTask waits.
SPECIFICATION Spec
CONSTANTS
    u1 = u1
    u2 = u2
    a = a
    b = b
    Users = {u1, u2}
    Names = {a, b}
    LISTENQ = 2
    MaxTyped = 5
    Seated <- Empty
    None = None
INVARIANTS
    SomebodyTakes
\* Nothing happens after the last line, or once the mutex has been taken away.
CHECK_DEADLOCK FALSE
