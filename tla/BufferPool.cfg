SPECIFICATION Spec
CONSTANTS
    Conns = {a, b, c}
    Loops = {1, 2}
    Bufs = {b1, b2, b3}
    None = None
    PacketBuf = PacketBuf
INVARIANTS OneOwner PacketKeptByLoop
CHECK_DEADLOCK FALSE
