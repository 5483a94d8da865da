SPECIFICATION FairSpec
CONSTANTS
    Jobs = {j1, j2, k1}
    StopJobs = {k1}
    Fds = {f1}
    Loop = Loop
    WakeFd = WakeFd
    None = None
INVARIANTS NoLostWakeup
PROPERTIES ExecutorSpec JobsRun StoppedIsQuiet
CHECK_DEADLOCK FALSE
