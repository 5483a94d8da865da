------------------------------ MODULE TCPConn ------------------------------
(***************************************************************************)
(* One TCP connection, from accept to close: conn.go, the binding of the   *)
(* connection to its event loop by the listener (server.go,                *)
(* EventLoop.BindHandler), the poller's registration of its descriptor and *)
(* the socket underneath.                                                  *)
(*                                                                         *)
(* The processes are the listener goroutine that binds the connection, the *)
(* goroutine of the connection's event loop, the users that call Write and *)
(* Close, and the peer.  The loop's jobs are the abstract queue of         *)
(* JobExecutor, which EventLoop implements; the two ring buffers are the   *)
(* byte queues that RingBuffer implements.                                 *)
(***************************************************************************)
EXTENDS Naturals, Sequences, FiniteSets, SequencesExt

CONSTANTS
    Writes,      \* calls of Write, each with its own message
    Closes,      \* calls of Close
    Replies,     \* the messages OnPacket may return
    MsgLen,      \* bytes of a message
    MaxIn,       \* bound on the bytes the peer sends
    PacketSize,  \* length of the loop's packet buffer
    Room,        \* capacity of the socket's send buffer
    AddMayFail   \* whether EPOLL_CTL_ADD may fail on an open descriptor

ASSUME CallAssumption == Writes \cap Closes = {} /\ Replies \cap (Writes \cup Closes) = {}

ASSUME SizeAssumption ==
    /\ MsgLen \in Nat \ {0} /\ MaxIn \in Nat
    /\ PacketSize \in Nat \ {0} /\ Room \in Nat \ {0}
    /\ AddMayFail \in BOOLEAN

Calls == Writes \cup Closes

VARIABLES
    (* TCPConn *)
    connected, buffer, inbound, outbound,
    (* its place in the event loop and in the poller *)
    bound,           \* the loop's handlers has the connection under its fd
    interest,        \* "none", "read" or "readwrite": what epoll watches for
    fdOpen,
    listener,        \* where handleNewConnection and BindHandler are
    (* users *)
    call,            \* call[j]: where a call of Write or Close stands
    pending, executed,               \* the loop's jobs
    (* the loop goroutine *)
    loopPc,
    back,            \* where handleClose returns to
    events,          \* what epoll_wait reported for fd and was not handled yet
    (* the socket *)
    rcv, peerSent, eof, reset, room,
    (* history *)
    delivered,       \* the bytes of the packets that OnPacket got
    accepted,        \* the bytes that write took while the connection was open
    sent,            \* the bytes that the kernel took
    onCloses,        \* calls of OnClose
    enableFailed     \* EnableReadWrite failed: the fd was not registered

connVars   == <<connected, buffer, inbound, outbound>>
bindVars   == <<bound, interest, fdOpen>>
userVars   == <<call, pending, executed>>
loopVars   == <<loopPc, back, events>>
socketVars == <<rcv, peerSent, eof, reset, room>>
history    == <<delivered, accepted, sent, onCloses, enableFailed>>
vars == <<connVars, bindVars, listener, userVars, loopVars, socketVars, history>>

Queue == INSTANCE JobExecutor WITH Jobs <- Calls

\* The bytes of a message, all different.
Bytes(m) == [i \in 1..MsgLen |-> <<m, i>>]

\* NewTCPConn; OnConnect has been called, and users have the connection.
Init ==
    /\ connected = TRUE /\ buffer = <<>> /\ inbound = <<>> /\ outbound = <<>>
    /\ bound = FALSE /\ interest = "none" /\ fdOpen = TRUE
    /\ listener = "store"
    /\ call = [j \in Calls |-> "idle"] /\ Queue!Init
    /\ loopPc = "idle" /\ back = "idle" /\ events = {}
    /\ rcv = <<>> /\ peerSent = 0 /\ eof = FALSE /\ reset = FALSE /\ room = Room
    /\ delivered = <<>> /\ accepted = <<>> /\ sent = <<>>
    /\ onCloses = 0 /\ enableFailed = FALSE

----------------------------------------------------------------------------
(* The listener: BindHandler *)

Store ==
    /\ listener = "store"
    /\ bound' = TRUE
    /\ listener' = "add"
    /\ UNCHANGED <<connVars, interest, fdOpen, userVars, loopVars, socketVars, history>>

AddRead ==
    /\ listener = "add"
    /\ \/ fdOpen /\ interest' = "read" /\ listener' = "done"
       \/ (~fdOpen \/ AddMayFail) /\ listener' = "delete" /\ UNCHANGED interest
    /\ UNCHANGED <<connVars, bound, fdOpen, userVars, loopVars, socketVars, history>>

DeleteHandler ==
    /\ listener = "delete"
    /\ bound' = FALSE
    /\ listener' = "done"
    /\ UNCHANGED <<connVars, interest, fdOpen, userVars, loopVars, socketVars, history>>

----------------------------------------------------------------------------
(* Users: Write and Close test connected, then Trigger a job. *)

Check(j) ==
    /\ call[j] = "idle"
    /\ call' = [call EXCEPT ![j] = IF connected THEN "checked" ELSE "refused"]
    /\ UNCHANGED <<connVars, bindVars, listener, pending, executed, loopVars, socketVars, history>>

Trigger(j) ==
    /\ call[j] = "checked"
    /\ call' = [call EXCEPT ![j] = "queued"]
    /\ Queue!Submit(j)
    /\ UNCHANGED <<connVars, bindVars, listener, loopVars, socketVars, history>>

----------------------------------------------------------------------------
(* handleClose in four steps, of which the first makes sure that the       *)
(* others are taken once.  returnTo is where the loop goes on.             *)

\* A handleClose that does not test connected.
HandleCloseUnchecked(returnTo) ==
    /\ connected' = FALSE
    /\ interest' = "none"
    /\ loopPc' = "unbind" /\ back' = returnTo

\* A handleClose that waits for the output to be sent.
HandleCloseFlushed(returnTo) ==
    IF connected /\ outbound = <<>>
    THEN /\ connected' = FALSE
         /\ interest' = "none"
         /\ loopPc' = "unbind" /\ back' = returnTo
    ELSE /\ loopPc' = returnTo
         /\ UNCHANGED <<connected, interest, back>>

HandleClose(returnTo) ==
    IF connected
    THEN /\ connected' = FALSE
         /\ interest' = "none"
         /\ loopPc' = "unbind" /\ back' = returnTo
    ELSE /\ loopPc' = returnTo
         /\ UNCHANGED <<connected, interest, back>>

Unbind ==
    /\ loopPc = "unbind"
    /\ bound' = FALSE
    /\ loopPc' = "onclose"
    /\ UNCHANGED <<connVars, interest, fdOpen, listener, userVars, back, events, socketVars, history>>

OnClose ==
    /\ loopPc = "onclose"
    /\ onCloses' = onCloses + 1
    /\ loopPc' = "closefd"
    /\ UNCHANGED <<connVars, bindVars, listener, userVars, back, events, socketVars,
                   delivered, accepted, sent, enableFailed>>

Release == buffer' = <<>> /\ inbound' = <<>> /\ outbound' = <<>>

\* unix.Close, which ends the registration, and release.
CloseFd ==
    /\ loopPc = "closefd"
    /\ fdOpen' = FALSE /\ interest' = "none"
    /\ Release
    /\ loopPc' = back
    /\ UNCHANGED <<connected, bound, listener, userVars, back, events, socketVars, history>>

----------------------------------------------------------------------------
(* write, called for a reply or by a job *)

\* What the kernel takes of s.
Fitting(s) == IF Len(s) < room THEN Len(s) ELSE room

Transmit(s, n) ==
    /\ sent' = sent \o SubSeq(s, 1, n)
    /\ room' = room - n
    /\ outbound' = SubSeq(s, n + 1, Len(s))

NoWrite == UNCHANGED <<outbound, sent, room, accepted, enableFailed>>

\* The writer that forgets to ask for EventWrite.
EnableNothing == UNCHANGED <<interest, enableFailed>>

\* EPOLL_CTL_MOD fails for a descriptor that is not registered.
EnableReadWrite ==
    /\ interest' = IF interest = "none" THEN "none" ELSE "readwrite"
    /\ enableFailed' = (enableFailed \/ interest = "none")

\* A write that does not wait for its turn.
WriteAtOnce(b, returnTo) ==
    IF ~connected
    THEN NoWrite /\ loopPc' = returnTo /\ UNCHANGED <<connected, interest, back>>
    ELSE IF reset
    THEN NoWrite /\ HandleClose(returnTo)
    ELSE /\ accepted' = accepted \o b
         /\ sent' = sent \o SubSeq(b, 1, Fitting(b))
         /\ room' = room - Fitting(b)
         /\ outbound' = outbound \o SubSeq(b, Fitting(b) + 1, Len(b))
         /\ IF outbound' # <<>> THEN EnableReadWrite ELSE UNCHANGED <<interest, enableFailed>>
         /\ loopPc' = returnTo
         /\ UNCHANGED <<connected, back>>

\* A write that a closed connection does not refuse.
WriteUnchecked(b, returnTo) ==
    /\ accepted' = accepted \o b
    /\ Transmit(b, Fitting(b))
    /\ loopPc' = returnTo
    /\ UNCHANGED <<connected, interest, back, enableFailed>>

\* Only the first write of a backlog goes to the socket; the others queue up.
WriteOut(b, returnTo) ==
    IF ~connected
    THEN NoWrite /\ loopPc' = returnTo /\ UNCHANGED <<connected, interest, back>>
    ELSE IF outbound # <<>>
    THEN /\ outbound' = outbound \o b
         /\ accepted' = accepted \o b
         /\ loopPc' = returnTo
         /\ UNCHANGED <<sent, room, enableFailed, connected, interest, back>>
    ELSE IF reset
    THEN NoWrite /\ HandleClose(returnTo)
    ELSE /\ accepted' = accepted \o b
         /\ Transmit(b, Fitting(b))
         /\ IF outbound' # <<>> THEN EnableReadWrite ELSE UNCHANGED <<interest, enableFailed>>
         /\ loopPc' = returnTo
         /\ UNCHANGED <<connected, back>>

----------------------------------------------------------------------------
(* The loop goroutine.  Between epoll_wait's report and the call of Handle *)
(* it handles other descriptors and runs jobs.                             *)

Readable == rcv # <<>> \/ eof \/ reset

Reported ==
    IF interest = "none" THEN {}
    ELSE {e \in {"read", "write"} :
            \/ e = "read" /\ Readable
            \/ e = "write" /\ (reset \/ (interest = "readwrite" /\ room > 0))}

\* A reset connection may also be reported as a hang-up with nothing to read.
EpollWait ==
    /\ loopPc = "idle" /\ events = {}
    /\ Reported # {}
    /\ events' \in {Reported} \cup (IF reset THEN {{"err"}} ELSE {})
    /\ UNCHANGED <<connVars, bindVars, listener, userVars, loopPc, back, socketVars, history>>

\* handleEvent: the events of a descriptor that has no handler are dropped.
Dispatch == loopPc = "idle" /\ events # {} /\ events' = {}

NoHandler ==
    /\ Dispatch /\ ~bound
    /\ UNCHANGED <<connVars, bindVars, listener, userVars, loopPc, back, socketVars, history>>

HandleErr ==
    /\ "err" \in events /\ Dispatch /\ bound
    /\ HandleClose("idle")
    /\ UNCHANGED <<buffer, inbound, outbound, bound, fdOpen, listener, userVars,
                   socketVars, history>>

\* Handle when it has nothing to do: with bytes to send it leaves events other
\* than EventWrite to the next report, with none it wants EventRead.
HandleNothing ==
    /\ "err" \notin events /\ Dispatch /\ bound
    /\ IF outbound # <<>> THEN "write" \notin events ELSE "read" \notin events
    /\ UNCHANGED <<connVars, bindVars, listener, userVars, loopPc, back, socketVars, history>>

\* A handleWrite that leaves EventWrite on.
HandleWriteKeepingInterest ==
    /\ "write" \in events /\ Dispatch /\ bound /\ outbound # <<>>
    /\ IF reset
       THEN NoWrite /\ HandleClose("idle")
       ELSE /\ Transmit(outbound, Fitting(outbound))
            /\ UNCHANGED <<connected, interest, loopPc, back, accepted, enableFailed>>
    /\ UNCHANGED <<buffer, inbound, bound, fdOpen, listener, userVars,
                   rcv, peerSent, eof, reset, delivered, onCloses>>

\* handleWrite; its writes of the head and of the tail send what fits.
HandleWrite ==
    /\ "write" \in events /\ Dispatch /\ bound /\ outbound # <<>>
    /\ IF reset
       THEN NoWrite /\ HandleClose("idle")
       ELSE /\ Transmit(outbound, Fitting(outbound))
            /\ interest' = IF outbound' = <<>> THEN "read" ELSE interest
            /\ UNCHANGED <<connected, loopPc, back, accepted, enableFailed>>
    /\ UNCHANGED <<buffer, inbound, bound, fdOpen, listener, userVars,
                   rcv, peerSent, eof, reset, delivered, onCloses>>

\* A handleRead that takes a read of 0 bytes for an empty socket.
ReadFailsOnError == reset

\* read(2) returns 0 or an error other than EAGAIN.
ReadFails == eof \/ reset

\* handleRead, up to its first call of unPacket
HandleRead ==
    /\ "read" \in events /\ Dispatch /\ bound /\ outbound = <<>>
    /\ LET n == IF Len(rcv) < PacketSize THEN Len(rcv) ELSE PacketSize
       IN  IF n > 0
           THEN /\ buffer' = SubSeq(rcv, 1, n)
                /\ rcv' = SubSeq(rcv, n + 1, Len(rcv))
                /\ loopPc' = "unpack"
                /\ UNCHANGED <<connected, interest, back>>
           ELSE /\ IF ReadFails
                   THEN HandleClose("idle")
                   ELSE UNCHANGED <<connected, interest, loopPc, back>>
                /\ UNCHANGED <<buffer, rcv>>
    /\ UNCHANGED <<inbound, outbound, bound, fdOpen, listener, userVars,
                   peerSent, eof, reset, room, history>>

\* A ShiftN that overlooks what earlier reads left.
ShiftNBufferOnly(n) ==
    /\ inbound' = inbound
    /\ buffer' = SubSeq(buffer, n + 1, Len(buffer))

\* ShiftN of n of the unpacked bytes, n > 0: from the ring buffer first.  With
\* all of them, it is also what ResetBuffer does.
ShiftN(n) ==
    IF n <= Len(inbound)
    THEN inbound' = SubSeq(inbound, n + 1, Len(inbound)) /\ UNCHANGED buffer
    ELSE /\ inbound' = <<>>
         /\ buffer' = SubSeq(buffer, n - Len(inbound) + 1, Len(buffer))

\* unPacket finds a packet of n bytes, and OnPacket returns out or nothing.
Packet(n) ==
    /\ loopPc = "unpack" /\ connected
    /\ delivered' = delivered \o SubSeq(inbound \o buffer, 1, n)
    /\ ShiftN(n)
    /\ \/ /\ \E m \in Replies :
               /\ \A i \in DOMAIN accepted : accepted[i][1] # m
               /\ WriteOut(Bytes(m), "unpack")
       \/ /\ NoWrite
          /\ UNCHANGED <<connected, interest, loopPc, back>>
    /\ UNCHANGED <<bound, fdOpen, listener, userVars, events,
                   rcv, peerSent, eof, reset, onCloses>>

\* unPacket finds no packet, and the rest is kept; or the connection was closed
\* by a failed write: Read has nothing then, and neither has the ring buffer.
\* (An unPacket that calls ReadN on the released connection panics, with the
\* same effect here.)
NoPacket ==
    /\ loopPc = "unpack"
    /\ inbound' = IF connected THEN inbound \o buffer ELSE inbound
    /\ loopPc' = "idle"
    /\ UNCHANGED <<connected, buffer, outbound, bindVars, listener, userVars, back, events,
                   socketVars, history>>

RunJob ==
    /\ loopPc = "idle" /\ pending # <<>>
    /\ Queue!Execute
    /\ \/ /\ Head(pending) \in Writes
          /\ WriteOut(Bytes(Head(pending)), "idle")
       \/ /\ Head(pending) \in Closes
          /\ HandleClose("idle")
          /\ NoWrite
    /\ UNCHANGED <<buffer, inbound, bound, fdOpen, listener, call, events,
                   rcv, peerSent, eof, reset, delivered, onCloses>>

----------------------------------------------------------------------------
(* The peer *)

PeerSend ==
    /\ peerSent < MaxIn /\ ~eof /\ ~reset /\ fdOpen
    /\ peerSent' = peerSent + 1
    /\ rcv' = Append(rcv, peerSent')
    /\ UNCHANGED <<connVars, bindVars, listener, userVars, loopVars, eof, reset, room, history>>

PeerShutdown ==
    /\ ~eof /\ ~reset /\ fdOpen
    /\ eof' = TRUE
    /\ UNCHANGED <<connVars, bindVars, listener, userVars, loopVars, rcv, peerSent, reset,
                   room, history>>

PeerReset ==
    /\ ~reset /\ fdOpen
    /\ reset' = TRUE
    /\ UNCHANGED <<connVars, bindVars, listener, userVars, loopVars, rcv, peerSent, eof,
                   room, history>>

\* The peer reads all that was sent.
PeerReads ==
    /\ room < Room /\ ~reset /\ fdOpen
    /\ room' = Room
    /\ UNCHANGED <<connVars, bindVars, listener, userVars, loopVars, rcv, peerSent, eof,
                   reset, history>>

----------------------------------------------------------------------------
ListenerNext == Store \/ AddRead \/ DeleteHandler

LoopNext ==
    \/ EpollWait \/ NoHandler \/ HandleErr \/ HandleNothing
    \/ HandleWrite \/ HandleRead
    \/ \E n \in 1..Len(inbound) + Len(buffer) : Packet(n)
    \/ NoPacket
    \/ Unbind \/ OnClose \/ CloseFd

PeerNext == PeerSend \/ PeerShutdown \/ PeerReset \/ PeerReads

Next ==
    \/ ListenerNext \/ LoopNext \/ RunJob
    \/ \E j \in Calls : Check(j) \/ Trigger(j)
    \/ PeerNext

Spec == Init /\ [][Next]_vars

\* Goroutines that can run do; the loop runs every job, however busy its
\* descriptors keep it (EventLoop!JobsRun); the peer goes on reading.
Fairness ==
    /\ WF_vars(ListenerNext)
    /\ WF_vars(LoopNext)
    /\ SF_vars(RunJob)
    /\ \A j \in Calls : WF_vars(Trigger(j))
    /\ WF_vars(PeerReads)

FairSpec == Spec /\ Fairness

----------------------------------------------------------------------------
\* Every variable has a value the code can give it, and a closed descriptor is
\* not registered and its connection holds no bytes.
TypeOK ==
    /\ connected \in BOOLEAN /\ bound \in BOOLEAN /\ fdOpen \in BOOLEAN
    /\ interest \in {"none", "read", "readwrite"}
    /\ listener \in {"store", "add", "delete", "done"}
    /\ call \in [Calls -> {"idle", "checked", "refused", "queued"}]
    /\ pending \in Seq(Calls) /\ executed \in Seq(Calls)
    /\ loopPc \in {"idle", "unpack", "unbind", "onclose", "closefd"}
    /\ back \in {"idle", "unpack"}
    /\ events \subseteq {"read", "write", "err"}
    /\ buffer \in Seq(1..MaxIn) /\ inbound \in Seq(1..MaxIn) /\ rcv \in Seq(1..MaxIn)
    /\ delivered \in Seq(1..MaxIn)
    /\ LET Sendable == (Writes \cup Replies) \X (1..MsgLen)
       IN  outbound \in Seq(Sendable) /\ accepted \in Seq(Sendable) /\ sent \in Seq(Sendable)
    /\ peerSent \in 0..MaxIn /\ eof \in BOOLEAN /\ reset \in BOOLEAN /\ room \in 0..Room
    /\ onCloses \in Nat /\ enableFailed \in BOOLEAN
    /\ ~fdOpen => interest = "none" /\ buffer = <<>> /\ inbound = <<>> /\ outbound = <<>>

\* The bytes read from the socket and in no packet yet.  Between two events
\* they are in the ring buffer; buffer still holds the end of them too.
Unpacked == IF loopPc = "unpack" THEN inbound \o buffer ELSE inbound

\* What the peer sends is cut into packets in order, whole: no byte is lost,
\* repeated or moved between buffer, ring buffer and packets, over several
\* reads and packets that span them.
InboundStream ==
    LET stream == [i \in 1..peerSent |-> i]
    IN  /\ connected => delivered \o Unpacked \o rcv = stream
        /\ IsPrefix(delivered, stream)

\* The bytes of writes reach the kernel in the order write took them, partial
\* writes and full send buffers included; a closed connection has sent a
\* prefix.
OutboundStream ==
    /\ connected => sent \o outbound = accepted
    /\ IsPrefix(sent, accepted)

\* While bytes wait to be sent, and only then, the poller reports that the
\* socket can be written: otherwise the bytes would stay, or the loop would
\* spin.  Where EnableReadWrite failed, nothing is claimed.
InterestMatchesOutbound ==
    connected /\ ~enableFailed => (interest = "readwrite" <=> outbound # <<>>)

\* handleClose runs once, whichever of the peer, a failed write and several
\* Close jobs ask for it.
OnCloseOnce == onCloses <= 1

\* From OnClose on, no packet arrives and nothing is written to the descriptor,
\* which may belong to another connection by then.
QuietAfterOnClose == [][onCloses > 0 => UNCHANGED <<delivered, sent>>]_vars

\* A Close that was not refused closes the connection, whatever the users, the
\* listener and the peer do, on a loop that runs its jobs: one that Stop ends, or
\* whose jobs a panic drops, is EventLoop's and Server's concern.
CloseCompletes == \A j \in Closes : call[j] = "queued" ~> onCloses > 0 /\ ~fdOpen

\* The end of the peer's stream closes a registered connection, once what
\* waits to be sent is out.
EofCloses == eof /\ interest # "none" ~> ~connected \/ enableFailed

\* Bytes kept in the ring buffer are sent when the socket has room again,
\* unless the registration failed.
FlushedOrFailed == outbound # <<>> ~> outbound = <<>> \/ enableFailed

\* The comment of write: what is kept in the ring buffer is really written at
\* the next event.
Flushed == outbound # <<>> ~> outbound = <<>>
=============================================================================
