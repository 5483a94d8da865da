SPECIFICATION FaultySpec
CONSTANTS
    Jobs = {j1, j2}
    StopJobs = {}
    Fds = {f1}
    Loop = Loop
    WakeFd = WakeFd
    None = None
INVARIANT NoLostWakeup
CHECK_DEADLOCK FALSE
