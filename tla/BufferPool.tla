----------------------------- MODULE BufferPool -----------------------------
(***************************************************************************)
(* The pooled byte buffers of TCP connections, and the packets that alias  *)
(* them.  Read and ReadN join what earlier reads left with the temporary   *)
(* buffer in a byte buffer of the pool; ShiftN and ResetBuffer give it     *)
(* back while the packet that unPacket returns still points into it, and   *)
(* OnPacket and the write of its reply go on using the packet.             *)
(*                                                                         *)
(* Connections are served by several loops, each one at a time.            *)
(***************************************************************************)
EXTENDS Naturals

CONSTANTS
    Conns, Loops,
    Bufs,        \* the byte buffers there may be
    None,
    PacketBuf    \* the loop's own buffer, EventLoop.PacketBuf

ASSUME BufAssumption == Conns # {} /\ {None, PacketBuf} \cap Bufs = {}

VARIABLES
    home,            \* the loop of a connection
    stage,           \* stage[c]: "out", or in handleRead: "unpack", "read", "packet"
    connected,
    rest,            \* inboundBuffer is not empty
    byteBuffer,      \* c.byteBuffer
    view,            \* what the packet in OnPacket points into
    pool,            \* how often a buffer is in the pool
    writer           \* the connection whose bytes a buffer has

bufVars == <<byteBuffer, pool, writer>>
vars == <<home, stage, connected, rest, view, bufVars>>

Init ==
    /\ home \in [Conns -> Loops]
    /\ stage = [c \in Conns |-> "out"] /\ connected = [c \in Conns |-> TRUE]
    /\ rest = [c \in Conns |-> FALSE]
    /\ byteBuffer = [c \in Conns |-> None] /\ view = [c \in Conns |-> None]
    /\ pool = [b \in Bufs |-> 0] /\ writer = [b \in Bufs |-> CHOOSE c \in Conns : TRUE]

----------------------------------------------------------------------------
\* A buffer that nobody has: Get may make it.
Unused(b) == pool[b] = 0 /\ \A c \in Conns : b \notin {byteBuffer[c], view[c]}

\* bytebuffer.Get, and the write of c's bytes
GetFor(c, b) ==
    /\ \/ pool[b] > 0 /\ pool' = [pool EXCEPT ![b] = @ - 1]
       \/ Unused(b) /\ UNCHANGED pool
    /\ byteBuffer' = [byteBuffer EXCEPT ![c] = b]
    /\ writer' = [writer EXCEPT ![b] = c]

\* A Put after which the connection still has the buffer.
PutBackOnly(c) ==
    /\ pool' = IF byteBuffer[c] = None THEN pool ELSE [pool EXCEPT ![byteBuffer[c]] = @ + 1]
    /\ UNCHANGED <<byteBuffer, writer>>

\* bytebuffer.Put, unless nil; the pool may drop the buffer.
PutBack(c) ==
    /\ \/ byteBuffer[c] # None /\ pool' = [pool EXCEPT ![byteBuffer[c]] = @ + 1]
       \/ UNCHANGED pool
    /\ byteBuffer' = [byteBuffer EXCEPT ![c] = None]
    /\ UNCHANGED writer

\* A loop that leaves OnPacket to another goroutine.
LoopIdleInPacket(c) == \A d \in Conns : home[d] = home[c] => stage[d] \in {"out", "packet"}

\* The loop of c handles no event.
LoopIdle(c) == \A d \in Conns : home[d] = home[c] => stage[d] = "out"

Handle(c) ==
    /\ connected[c] /\ stage[c] = "out" /\ LoopIdle(c)
    /\ stage' = [stage EXCEPT ![c] = "unpack"]
    /\ UNCHANGED <<home, connected, rest, view, bufVars>>

\* unPacket calls Read or ReadN, perhaps again: the buffer of the first call is
\* forgotten.
Read(c) ==
    /\ stage[c] \in {"unpack", "read"}
    /\ stage' = [stage EXCEPT ![c] = "read"]
    /\ IF rest[c] THEN \E b \in Bufs : GetFor(c, b) ELSE UNCHANGED bufVars
    /\ UNCHANGED <<home, connected, rest, view>>

ResetBuffer(c) ==
    /\ rest' = [rest EXCEPT ![c] = FALSE]
    /\ PutBack(c)

\* ShiftN of less than everything.  With nothing left of earlier reads it does
\* not look at the byte buffer.
ShiftN(c) ==
    IF rest[c]
    THEN rest' \in {rest, [rest EXCEPT ![c] = FALSE]} /\ PutBack(c)
    ELSE UNCHANGED <<rest, bufVars>>

\* unPacket calls ShiftN or ResetBuffer, and OnPacket begins.
Packet(c) ==
    /\ stage[c] = "read"
    /\ stage' = [stage EXCEPT ![c] = "packet"]
    /\ view' = [view EXCEPT ![c] = IF rest[c] THEN byteBuffer[c] ELSE PacketBuf]
    /\ ResetBuffer(c) \/ ShiftN(c)
    /\ UNCHANGED <<home, connected>>

Release(c) ==
    /\ connected' = [connected EXCEPT ![c] = FALSE]
    /\ rest' = [rest EXCEPT ![c] = FALSE]
    /\ PutBack(c)

\* OnPacket has returned and its reply, often the packet itself, is written; a
\* failed write releases the connection.
PacketDone(c) ==
    /\ stage[c] = "packet"
    /\ view' = [view EXCEPT ![c] = None]
    /\ \/ /\ stage' = [stage EXCEPT ![c] = "unpack"]
          /\ UNCHANGED <<connected, rest, bufVars>>
       \/ /\ stage' = [stage EXCEPT ![c] = "out"]
          /\ Release(c)
    /\ UNCHANGED home

\* No packet, or no more: what is left goes to the ring buffer.
NoPacket(c) ==
    /\ stage[c] \in {"unpack", "read"}
    /\ stage' = [stage EXCEPT ![c] = "out"]
    /\ rest' \in {rest, [rest EXCEPT ![c] = TRUE]}
    /\ UNCHANGED <<home, connected, view, bufVars>>

\* handleClose, of an event or of a job
HandleClose(c) ==
    /\ connected[c] /\ stage[c] = "out" /\ LoopIdle(c)
    /\ Release(c)
    /\ UNCHANGED <<home, stage, view>>

Next ==
    \E c \in Conns :
        Handle(c) \/ Read(c) \/ Packet(c) \/ PacketDone(c) \/ NoPacket(c) \/ HandleClose(c)

Spec == Init /\ [][Next]_vars

----------------------------------------------------------------------------
\* A byte buffer is in one place: once in the pool, or with one connection,
\* whatever order of Read, ShiftN, ResetBuffer and release returns it.
OneOwner ==
    \A b \in Bufs :
        /\ pool[b] <= 1
        /\ \A c, d \in Conns : byteBuffer[c] = b => pool[b] = 0 /\ (byteBuffer[d] = b => c = d)

\* The packet that OnPacket reads, and that its reply may be, keeps its bytes
\* although its buffer is back in the pool, as long as only connections of the
\* same loop use the pool: the bytes that replace them are another loop's.
PacketKeptByLoop ==
    \A c \in Conns : view[c] \in Bufs /\ writer[view[c]] # c =>
        home[writer[view[c]]] # home[c]
=============================================================================
