SPECIFICATION Spec
CONSTANTS
    Conns = {a, b}
    Fds = {f1, f2}
    None = None
    Other = Other
    Pollers = {"epoll", "kqueue"}
SYMMETRY Symmetry
INVARIANTS OwnDescriptor ClosedForAReason NoEventToTheDead WriteInterest
CHECK_DEADLOCK FALSE
