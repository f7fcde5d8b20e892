\* Two users talk, a third logs in; three lines are typed.
SPECIFICATION Spec
CONSTANTS
    u1 = u1
    u2 = u2
    a = a
    b = b
    Users = {u1, u2, u3}
    Names = {a, b, c}
    LISTENQ = 2
    MaxTyped = 3
    Seated <- TwoSeated
    None = None
INVARIANTS
    TypeOK
    
    Friendship

    
\* Nothing happens after the last line, or once the mutex has been taken away.
CHECK_DEADLOCK FALSE
