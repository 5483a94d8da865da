SPECIFICATION Spec
CONSTANTS
    Second = 3
    Idle = 7
    Jitter = 1
    MaxSkew = 1
    MaxNow = 18
INVARIANTS NotWhileActive IdleIsClosed
CHECK_DEADLOCK FALSE
