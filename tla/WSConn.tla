------------------------------- MODULE WSConn -------------------------------
(***************************************************************************)
(* One WebSocket connection: conn_ws.go and the part of server_ws.go that  *)
(* creates it.  There is no event loop here: msgLoop reads, unpacks and    *)
(* calls OnPacket on a goroutine of its own, and users and the idle timer  *)
(* call Close on theirs.  All of them may run handleClose, whose test of   *)
(* connected and its clearing are two accesses, and release, which gives   *)
(* the ring buffer that msgLoop may be looking at back to the pool.        *)
(*                                                                         *)
(* Nothing writes to the ring buffer of a WebSocket connection while it    *)
(* holds it.  Once release has put it back, a TCP connection may take it   *)
(* and fill it, so that msgLoop, if it is still there, finds that one's    *)
(* bytes.  A nil ring buffer panics on a goroutine without recover, which  *)
(* ends the program.  Writing is in WSWrite.                               *)
(***************************************************************************)
EXTENDS Naturals, Sequences

CONSTANTS
    Closers,     \* calls of Close by users, once they have the connection
    Timer,       \* the call of Close by the idle timer
    Loop,        \* the goroutine of msgLoop
    MaxMsgs,     \* bound on the messages the peer sends
    MsgLen,      \* bytes of a message
    MaxForeign   \* bound on the calls that find another connection's bytes

ASSUME ProcAssumption == Loop \notin Closers /\ Timer \notin Closers /\ Loop # Timer
ASSUME MsgAssumption == MaxMsgs \in Nat /\ MsgLen \in Nat \ {0} /\ MaxForeign \in Nat

Calls == Closers \cup {Timer}
Procs == Calls \cup {Loop}

VARIABLES
    connected,   \* c.connected
    buffer,      \* c.buffer: what is left of the message being unpacked
    inbound,     \* c.inboundBuffer: "held", "pooled" (after Put) or "nil"
    connOpen,    \* the websocket.Conn underneath is open
    introduced,  \* the application knows the connection
    pc,          \* pc[p]: where the goroutine stands
    packet,      \* what unPacket found
    wire, sentMsgs, ended,               \* from the peer: messages on the way, all, close
    crashed,     \* a panic has ended the program
    (* history *)
    delivered,   \* bytes handed to OnPacket
    onCloses,    \* calls of OnClose
    late,        \* calls of OnPacket after connected was cleared, but those of ReadN
    overlap,     \* two goroutines were between the test of connected and its clearing
    misused,     \* the ring buffer was used after Put
    readN,       \* unPacket began with ReadN on a closed connection
    foreign      \* calls that found another connection's bytes in the ring buffer

connVars == <<connected, buffer, inbound, connOpen>>
peerVars == <<wire, sentMsgs, ended>>
history  == <<delivered, onCloses, late, overlap, misused, readN, foreign>>
vars == <<connVars, introduced, pc, packet, peerVars, crashed, history>>

\* Bytes are numbered over all messages; one of another connection is 0.
Message(k) == [i \in 1..MsgLen |-> (k - 1) * MsgLen + i]

Init ==
    /\ connected = TRUE /\ buffer = <<>> /\ inbound = "held" /\ connOpen = TRUE
    /\ introduced = FALSE
    /\ pc = [p \in Procs |-> IF p = Loop THEN "recv" ELSE "idle"]
    /\ packet = <<>>
    /\ wire = <<>> /\ sentMsgs = 0 /\ ended = FALSE
    /\ crashed = FALSE
    /\ delivered = <<>> /\ onCloses = 0 /\ late = 0 /\ overlap = FALSE /\ misused = FALSE
    /\ readN = FALSE /\ foreign = 0

Foreign == 0

Step(p, from, to) == pc[p] = from /\ pc' = [pc EXCEPT ![p] = to]

\* A method of the ring buffer is called.  One that is in the pool may be
\* another goroutine's by now, and buffer is nil: a race or a slice that has
\* become too short panics, or not.
UseInbound ==
    /\ crashed' \in CASE inbound = "held" -> {FALSE}
                     [] inbound = "pooled" -> BOOLEAN
                     [] inbound = "nil" -> {TRUE}
    /\ misused' = (misused \/ inbound = "pooled")

\* The ring buffer holds k bytes: none, or one of another connection.
RingHolds(k) ==
    /\ k = 1 => inbound = "pooled" /\ foreign < MaxForeign
    /\ foreign' = foreign + k

\* server_ws.go: msgLoop runs already when OnConnect is called.
OnConnect ==
    /\ ~introduced
    /\ introduced' = TRUE
    /\ UNCHANGED <<connVars, pc, packet, peerVars, crashed, history>>

----------------------------------------------------------------------------
(* Close and handleClose                                                   *)

\* Close, and the timer before it, test connected a first time.
CloseCall(p) ==
    /\ p = Timer \/ introduced
    /\ Step(p, "idle", IF connected THEN "test" ELSE "done")
    /\ UNCHANGED <<connVars, introduced, packet, peerVars, crashed, history>>

HandleTest(p) ==
    /\ Step(p, "test", IF connected THEN "set" ELSE "done")
    /\ overlap' = (overlap \/ (connected /\ \E q \in Procs \ {p} : pc[q] = "set"))
    /\ UNCHANGED <<connVars, introduced, packet, peerVars, crashed, delivered, onCloses, late, misused,
                   readN, foreign>>

\* A handleClose that leaves connected set.
HandleSetNothing(p) ==
    /\ Step(p, "set", "onclose")
    /\ UNCHANGED <<connVars, introduced, packet, peerVars, crashed, history>>

HandleSet(p) ==
    /\ Step(p, "set", "onclose")
    /\ connected' = FALSE
    /\ UNCHANGED <<buffer, inbound, connOpen, introduced, packet, peerVars, crashed, history>>

\* A handleClose that releases instead of closing first.
OnCloseThenRelease(p) ==
    /\ Step(p, "onclose", "put")
    /\ onCloses' = onCloses + 1
    /\ UNCHANGED <<connVars, introduced, packet, peerVars, crashed, delivered, late, overlap, misused,
                   readN, foreign>>

OnClose(p) ==
    /\ Step(p, "onclose", "close")
    /\ onCloses' = onCloses + 1
    /\ UNCHANGED <<connVars, introduced, packet, peerVars, crashed, delivered, late, overlap, misused,
                   readN, foreign>>

\* A handleClose that forgets the websocket.Conn.
CloseConnNothing(p) ==
    /\ Step(p, "close", "put")
    /\ UNCHANGED <<connVars, introduced, packet, peerVars, crashed, history>>

CloseConn(p) ==
    /\ Step(p, "close", "put")
    /\ connOpen' = FALSE
    /\ UNCHANGED <<connected, buffer, inbound, introduced, packet, peerVars, crashed, history>>

\* release, up to the Put of the ring buffer
ReleasePut(p) ==
    /\ Step(p, "put", "nil")
    /\ UseInbound
    /\ buffer' = <<>>
    /\ inbound' = IF inbound = "held" THEN "pooled" ELSE inbound
    /\ UNCHANGED <<connected, connOpen, introduced, packet, peerVars, delivered, onCloses, late, overlap,
                   readN, foreign>>

\* the rest of release
ReleaseNil(p) ==
    /\ Step(p, "nil", "done")
    /\ inbound' = "nil"
    /\ UNCHANGED <<connected, buffer, connOpen, introduced, packet, peerVars, crashed, history>>

----------------------------------------------------------------------------
(* msgLoop                                                                 *)

\* A message that the library has already read arrives even after Close.  It
\* replaces what was left of the one before.
ReadMessage ==
    /\ Step(Loop, "recv", "unpack")
    /\ wire # <<>>
    /\ buffer' = Head(wire) /\ wire' = Tail(wire)
    /\ UNCHANGED <<connected, inbound, connOpen, introduced, packet, sentMsgs, ended, crashed, history>>

\* A msgLoop that goes on when somebody else has closed the connection.
AfterErrorUnlessClosed == IF connected THEN "test" ELSE "recv"

\* handleClose, after which the goroutine ends
AfterError == "test"

ReadError ==
    /\ Step(Loop, "recv", AfterError)
    /\ ~connOpen \/ (ended /\ wire = <<>>)
    /\ UNCHANGED <<connVars, introduced, packet, peerVars, crashed, history>>

\* A Read that does not test connected.
ReadableAlways == TRUE

\* What Read tests first: a closed connection shows nothing.
Readable == connected

ReadTest ==
    /\ Step(Loop, "unpack", IF Readable THEN "look" ELSE "recv")
    /\ UNCHANGED <<connVars, introduced, packet, peerVars, crashed, history>>

\* ReadN does not test connected.
ReadN ==
    /\ Step(Loop, "unpack", "look")
    /\ readN' = ~connected
    /\ UNCHANGED <<connVars, introduced, packet, peerVars, crashed, delivered, onCloses, late, overlap,
                   misused, foreign>>

\* What Read and ReadN return: the bytes of the ring buffer come first.
Seen(k) == IF k = 0 THEN buffer ELSE <<Foreign>> \o buffer

\* unPacket finds a packet there, or none.
ReadLook ==
    /\ UseInbound
    /\ \E k \in {0, 1} :
          /\ RingHolds(k)
          /\ \/ Step(Loop, "look", "recv") /\ readN' = FALSE /\ UNCHANGED packet
             \/ /\ Step(Loop, "look", "shift") /\ UNCHANGED readN
                /\ \E n \in 1..Len(Seen(k)) : packet' = SubSeq(Seen(k), 1, n)
    /\ UNCHANGED <<connVars, introduced, peerVars, delivered, onCloses, late, overlap>>

\* A ShiftN that leaves the last byte.
RestOneMore(n) == SubSeq(buffer, n, Len(buffer))

\* What ShiftN, or ResetBuffer, of n bytes leaves: nothing, too, of a buffer
\* that a concurrent release has emptied.
Rest(n) == SubSeq(buffer, n + 1, Len(buffer))

\* ShiftN takes from the ring buffer what that has, and from buffer the rest.
Shift ==
    /\ Step(Loop, "shift", "packet")
    /\ UseInbound
    /\ \E k \in {0, 1} : RingHolds(k) /\ buffer' = Rest(Len(packet) - k)
    /\ UNCHANGED <<connected, inbound, connOpen, introduced, packet, peerVars,
                   delivered, onCloses, late, overlap, readN>>

OnPacket ==
    /\ Step(Loop, "packet", "unpack")
    /\ delivered' = delivered \o packet /\ packet' = <<>>
    /\ late' = IF connected \/ readN THEN late ELSE late + 1
    /\ readN' = FALSE
    /\ introduced' = TRUE
    /\ UNCHANGED <<connVars, peerVars, crashed, onCloses, overlap, misused, foreign>>

----------------------------------------------------------------------------
(* The peer                                                                *)

PeerSend ==
    /\ sentMsgs < MaxMsgs /\ ~ended /\ connOpen
    /\ sentMsgs' = sentMsgs + 1
    /\ wire' = Append(wire, Message(sentMsgs'))
    /\ UNCHANGED <<connVars, introduced, pc, packet, ended, crashed, history>>

PeerEnd ==
    /\ ~ended /\ connOpen
    /\ ended' = TRUE
    /\ UNCHANGED <<connVars, introduced, pc, packet, wire, sentMsgs, crashed, history>>

----------------------------------------------------------------------------
HandleClose(p) ==
    HandleTest(p) \/ HandleSet(p) \/ OnClose(p) \/ CloseConn(p) \/ ReleasePut(p) \/ ReleaseNil(p)

MsgLoop ==
    \/ ReadMessage \/ ReadError \/ ReadTest \/ ReadN \/ ReadLook \/ Shift \/ OnPacket
    \/ HandleClose(Loop)

Next ==
    /\ ~crashed
    /\ \/ OnConnect
       \/ \E p \in Calls : CloseCall(p) \/ HandleClose(p)
       \/ MsgLoop
       \/ PeerSend \/ PeerEnd

Spec == Init /\ [][Next]_vars

\* Goroutines that can run do.  Nobody has to call Close, send or end.
Fairness ==
    /\ \A p \in Calls : WF_vars(~crashed /\ HandleClose(p))
    /\ WF_vars(~crashed /\ MsgLoop)

FairSpec == Spec /\ Fairness

----------------------------------------------------------------------------
\* Every variable has a value the code can give it, and the ring buffer is
\* given back only once the websocket.Conn is closed.
TypeOK ==
    /\ connected \in BOOLEAN /\ connOpen \in BOOLEAN /\ introduced \in BOOLEAN
    /\ buffer \in Seq(Nat) /\ packet \in Seq(Nat) /\ delivered \in Seq(Nat)
    /\ inbound \in {"held", "pooled", "nil"}
    /\ pc \in [Procs -> {"idle", "recv", "unpack", "look", "shift", "packet", "test", "set",
                         "onclose", "close", "put", "nil", "done"}]
    /\ wire \in Seq(Seq(Nat)) /\ sentMsgs \in 0..MaxMsgs /\ ended \in BOOLEAN
    /\ crashed \in BOOLEAN /\ overlap \in BOOLEAN /\ misused \in BOOLEAN
    /\ onCloses \in Nat /\ late \in Nat /\ readN \in BOOLEAN /\ foreign \in 0..MaxForeign
    /\ inbound # "held" => ~connOpen

BeginsMessage(b) == \E m \in 1..MaxMsgs : b = Message(m)[1]

InOrder ==
    \A i \in 2..Len(delivered) :
        \/ delivered[i] = delivered[i - 1] + 1
        \/ delivered[i] > delivered[i - 1] /\ BeginsMessage(delivered[i])

\* Packets keep the order of the stream and repeat nothing, whoever closes the
\* connection meanwhile; what is lost is the end of a message and all after it,
\* up to the beginning of another message.  That ends where msgLoop uses the
\* ring buffer after release has put it back, which it cannot on an open
\* connection: then it may find another's bytes, or keep its own twice.
PacketsInOrder == IF misused THEN ~connected ELSE InOrder

\* Once connected is cleared, msgLoop hands over the packet that it was about
\* to, although OnClose may have been called before that, and none that
\* unPacket asks Read for later.  It is ReadN alone that goes on with what is
\* left of the message: those packets are not counted.
AtMostOneLatePacket == late <= 1

\* OnClose is called twice only when two goroutines tested connected before
\* either cleared it: there is no other way to close a connection twice.
OnCloseTwiceOnlyByOverlap == onCloses > 1 => overlap

\* Who gets into handleClose leaves with the connection closed and OnClose
\* called, by itself or by another goroutine.
CloseCompletes == (\E p \in Procs : pc[p] = "test") ~> crashed \/ (onCloses > 0 /\ ~connOpen)

\* The goroutine of a connection that was closed ends, whoever closed it and
\* wherever it was.
MsgLoopEnds == ~connected ~> crashed \/ pc[Loop] = "done"

\* The comment of the pool's Put: the buffer is not accessed after returning to
\* the pool, nor, then, through the pointer that release sets to nil.
NoUseAfterPut == ~misused /\ ~crashed
=============================================================================
