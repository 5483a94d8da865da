SPECIFICATION FairWriteSpec
CONSTANTS
    Closers = {}
    Timer = timer
    Loop = loop
    MaxMsgs = 2
    MsgLen = 2
    MaxForeign = 2
    Writers = {w}
INVARIANTS TypeOK PacketsInOrder AtMostOneLatePacket OnCloseTwiceOnlyByOverlap NilMeansSent LateOnlyIfBegun
PROPERTIES CloseCompletes MsgLoopEnds CloseFreesWriters
CHECK_DEADLOCK FALSE
