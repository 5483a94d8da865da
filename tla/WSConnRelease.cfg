SPECIFICATION FairSpec
CONSTANTS
    Closers = {c1}
    Timer = timer
    Loop = loop
    MaxMsgs = 1
    MsgLen = 1
    MaxForeign = 1
INVARIANT NoUseAfterPut
CHECK_DEADLOCK FALSE
