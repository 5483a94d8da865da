SPECIFICATION FairFaultySpec
CONSTANTS
    Jobs = {j1, j2}
    StopJobs = {}
    Fds = {f1}
    Loop = Loop
    WakeFd = WakeFd
    None = None
INVARIANTS AtMostOnce
PROPERTIES CloseReturnsAnyway NextEventRecovers
CHECK_DEADLOCK FALSE
