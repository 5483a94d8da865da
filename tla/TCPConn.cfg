SPECIFICATION FairSpec
CONSTANTS
    Writes = {m1, m2}
    Closes = {c1}
    Replies = {r1}
    MsgLen = 2
    MaxIn = 2
    PacketSize = 2
    Room = 3
    AddMayFail = TRUE
INVARIANTS TypeOK InboundStream OutboundStream InterestMatchesOutbound OnCloseOnce
PROPERTIES QuietAfterOnClose CloseCompletes EofCloses FlushedOrFailed
CHECK_DEADLOCK FALSE
