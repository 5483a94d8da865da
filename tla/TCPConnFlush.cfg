SPECIFICATION FairSpec
CONSTANTS
    Writes = {m1}
    Closes = {}
    Replies = {}
    MsgLen = 2
    MaxIn = 1
    PacketSize = 2
    Room = 1
    AddMayFail = FALSE
PROPERTY Flushed
CHECK_DEADLOCK FALSE
