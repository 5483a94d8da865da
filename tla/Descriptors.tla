---------------------------- MODULE Descriptors ----------------------------
(***************************************************************************)
(* The descriptors of one event loop: several connections whose numbers    *)
(* the kernel gives out again, the handlers map of the loop, the kernel's  *)
(* registrations, and a batch of events that is handled one by one while   *)
(* jobs close connections, the listener binds new ones and somebody else   *)
(* in the process opens and closes descriptors.                            *)
(*                                                                         *)
(* poller is "epoll" (epoll.go) or "kqueue" (kqueue.go, which keeps its    *)
(* own note of each interest in sockets).  What is read and written is     *)
(* TCPConn's subject: here a connection has unread bytes, or bytes to      *)
(* send, or not.                                                           *)
(***************************************************************************)
CONSTANTS
    Conns, Fds,
    None,        \* no owner, no handler, no connection
    Other,       \* an owner that is not a connection: a file, a WebSocket
    Pollers      \* the builds considered

ASSUME OwnerAssumption ==
    {None, Other} \cap Conns = {} /\ None # Other /\ None \notin Fds

ASSUME PollerAssumption == Pollers \subseteq {"epoll", "kqueue"}

VARIABLES
    poller,
    owner,           \* owner[f]: whose descriptor has the number f
    handlers,        \* EventLoop.handlers
    reg,             \* reg[f]: the kernel's interest in f
    sockets,         \* Poller.sockets of kqueue.go
    listener,        \* [pc, c]: where the binding of c stands
    loop,            \* [pc, c]: "idle", or where the closing of c stands
    batch,           \* events reported and not handled yet
    fd, connected,
    backlog,         \* outboundBuffer is not empty
    unread, peer,    \* the socket: bytes to read; "open", "fin" or "rst"
    (* history *)
    closeAsked, staleErr, enableFailed,
    storedDead,      \* connections that were closed when Store came
    deadEvent        \* connections that were handed an event when released

pollVars == <<reg, sockets>>
connVars == <<fd, connected, backlog>>
peerVars == <<unread, peer>>
history == <<closeAsked, staleErr, enableFailed, storedDead, deadEvent>>
vars == <<poller, owner, handlers, pollVars, listener, loop, batch, connVars, peerVars, history>>

Idle == [pc |-> "idle", c |-> None]

Init ==
    /\ poller \in Pollers
    /\ owner = [f \in Fds |-> None] /\ handlers = [f \in Fds |-> None]
    /\ reg = [f \in Fds |-> {}] /\ sockets = [f \in Fds |-> {}]
    /\ listener = Idle /\ loop = Idle /\ batch = {}
    /\ fd = [c \in Conns |-> None]
    /\ connected = [c \in Conns |-> FALSE] /\ backlog = [c \in Conns |-> FALSE]
    /\ unread = [c \in Conns |-> FALSE] /\ peer = [c \in Conns |-> "open"]
    /\ closeAsked = {} /\ staleErr = {} /\ enableFailed = {}
    /\ storedDead = {} /\ deadEvent = {}

----------------------------------------------------------------------------
(* The poller's changes of interest.  Failed is what its return says.      *)

\* kqueue: the changes from the noted interest to new; deleting a filter that
\* the kernel does not have fails.
KEvents(f, new) ==
    [fails |-> ~(sockets[f] \ new \subseteq reg[f]),
     reg   |-> (reg[f] \ (sockets[f] \ new)) \cup (new \ sockets[f])]

\* EnableReadWrite and EnableRead; EPOLL_CTL_MOD needs a registration, kqueue a
\* note, which is updated only when kevent fails.
CannotEnable(f) == IF poller = "epoll" THEN reg[f] = {} ELSE sockets[f] = {}

Enable(f, new) ==
    IF CannotEnable(f) THEN UNCHANGED pollVars
    ELSE IF poller = "epoll" THEN reg' = [reg EXCEPT ![f] = new] /\ UNCHANGED sockets
    ELSE LET k == KEvents(f, new)
         IN  IF k.fails THEN sockets' = [sockets EXCEPT ![f] = new] /\ UNCHANGED reg
                        ELSE reg' = [reg EXCEPT ![f] = k.reg] /\ UNCHANGED sockets

\* Del: kqueue drops its note only when kevent fails.
Del(f) ==
    IF poller = "epoll" THEN reg' = [reg EXCEPT ![f] = {}] /\ UNCHANGED sockets
    ELSE IF KEvents(f, {}).fails THEN sockets' = [sockets EXCEPT ![f] = {}] /\ UNCHANGED reg
    ELSE reg' = [reg EXCEPT ![f] = KEvents(f, {}).reg] /\ UNCHANGED sockets

----------------------------------------------------------------------------
(* The listener, and other users of descriptors                            *)

\* accept and NewTCPConn; the application has the connection from OnConnect on.
Accept(c, f) ==
    /\ listener = Idle /\ fd[c] = None /\ owner[f] = None
    /\ owner' = [owner EXCEPT ![f] = c]
    /\ fd' = [fd EXCEPT ![c] = f]
    /\ connected' = [connected EXCEPT ![c] = TRUE]
    /\ listener' = [pc |-> "store", c |-> c]
    /\ UNCHANGED <<poller, handlers, pollVars, loop, batch, backlog, peerVars, history>>

Store ==
    /\ listener.pc = "store"
    /\ handlers' = [handlers EXCEPT ![fd[listener.c]] = listener.c]
    /\ listener' = [listener EXCEPT !.pc = "add"]
    /\ storedDead' = IF connected[listener.c] THEN storedDead ELSE storedDead \cup {listener.c}
    /\ UNCHANGED <<poller, owner, pollVars, loop, batch, connVars, peerVars,
                   closeAsked, staleErr, enableFailed, deadEvent>>

\* AddRead; it fails for a number that is closed.
AddRead ==
    /\ listener.pc = "add"
    /\ LET f == fd[listener.c]
       IN  /\ sockets' = IF poller = "kqueue" THEN [sockets EXCEPT ![f] = {"read"}] ELSE sockets
           /\ IF owner[f] = None
              THEN listener' = [listener EXCEPT !.pc = "delete"] /\ UNCHANGED reg
              ELSE /\ listener' = Idle
                   /\ reg' = [reg EXCEPT ![f] = @ \cup {"read"}]
    /\ UNCHANGED <<poller, owner, handlers, loop, batch, connVars, peerVars, history>>

DeleteHandler ==
    /\ listener.pc = "delete"
    /\ handlers' = [handlers EXCEPT ![fd[listener.c]] = None]
    /\ listener' = Idle
    /\ UNCHANGED <<poller, owner, pollVars, loop, batch, connVars, peerVars, history>>

OtherOpens(f) ==
    /\ owner[f] = None
    /\ owner' = [owner EXCEPT ![f] = Other]
    /\ UNCHANGED <<poller, handlers, pollVars, listener, loop, batch, connVars, peerVars, history>>

OtherCloses(f) ==
    /\ owner[f] = Other
    /\ owner' = [owner EXCEPT ![f] = None]
    /\ reg' = [reg EXCEPT ![f] = {}]
    /\ UNCHANGED <<poller, handlers, sockets, listener, loop, batch, connVars, peerVars, history>>

----------------------------------------------------------------------------
(* handleClose: the test of connected and Del, then the handlers map, then *)
(* unix.Close and release.                                                 *)

\* A handleClose that does not test connected.
HandleCloseUnchecked(c) ==
    /\ connected' = [connected EXCEPT ![c] = FALSE]
    /\ Del(fd[c])
    /\ loop' = [pc |-> "unbind", c |-> c]

HandleClose(c) ==
    IF connected[c]
    THEN /\ connected' = [connected EXCEPT ![c] = FALSE]
         /\ Del(fd[c])
         /\ loop' = [pc |-> "unbind", c |-> c]
    ELSE UNCHANGED <<connected, pollVars, loop>>

\* DeleteFdInLoop that only tells the poller.
UnbindNothing ==
    /\ loop.pc = "unbind"
    /\ loop' = [loop EXCEPT !.pc = "closefd"]
    /\ UNCHANGED <<poller, owner, handlers, pollVars, listener, batch, connVars, peerVars, history>>

Unbind ==
    /\ loop.pc = "unbind"
    /\ handlers' = [handlers EXCEPT ![fd[loop.c]] = None]
    /\ loop' = [loop EXCEPT !.pc = "closefd"]
    /\ UNCHANGED <<poller, owner, pollVars, listener, batch, connVars, peerVars, history>>

\* Closing the descriptor ends its registration.
CloseFd ==
    /\ loop.pc = "closefd"
    /\ owner' = [owner EXCEPT ![fd[loop.c]] = None]
    /\ reg' = [reg EXCEPT ![fd[loop.c]] = {}]
    /\ backlog' = [backlog EXCEPT ![loop.c] = FALSE]
    /\ loop' = Idle
    /\ UNCHANGED <<poller, handlers, sockets, listener, batch, fd, connected, peerVars, history>>

----------------------------------------------------------------------------
(* write, handleRead and handleWrite                                       *)

\* A write that does not ask for EventWrite.
WriteOnly(c) ==
    /\ backlog' = [backlog EXCEPT ![c] = TRUE]
    /\ UNCHANGED <<connected, pollVars, loop, enableFailed>>

\* write, when the socket does not take all of it or fails
Write(c) ==
    IF ~backlog[c] /\ peer[c] = "rst" THEN HandleClose(c) /\ UNCHANGED <<backlog, enableFailed>>
    ELSE /\ backlog' = [backlog EXCEPT ![c] = TRUE]
         /\ UNCHANGED <<connected, loop>>
         /\ IF backlog[c] THEN UNCHANGED <<pollVars, enableFailed>>
            ELSE /\ Enable(fd[c], {"read", "write"})
                 /\ enableFailed' = IF CannotEnable(fd[c]) THEN enableFailed \cup {c}
                                                           ELSE enableFailed

Stay == UNCHANGED <<connected, pollVars, loop, backlog, enableFailed>>

\* A handleRead that takes EAGAIN for the end of the stream.
HandleReadNoEagain(c) ==
    IF peer[c] # "rst" /\ unread[c]
    THEN unread' = [unread EXCEPT ![c] = FALSE] /\ (Stay \/ Write(c))
    ELSE UNCHANGED <<unread, backlog, enableFailed>> /\ HandleClose(c)

\* handleRead reads what there is and may reply; read(2) returns 0 or an error
\* after that.
HandleRead(c) ==
    IF peer[c] # "rst" /\ unread[c]
    THEN unread' = [unread EXCEPT ![c] = FALSE] /\ (Stay \/ Write(c))
    ELSE /\ UNCHANGED unread
         /\ IF peer[c] = "open" THEN Stay
            ELSE HandleClose(c) /\ UNCHANGED <<backlog, enableFailed>>

\* handleWrite sends some of the bytes or the rest of them.
HandleWrite(c) ==
    IF peer[c] = "rst" THEN HandleClose(c) /\ UNCHANGED <<backlog, enableFailed>>
    ELSE \/ Stay
         \/ /\ backlog' = [backlog EXCEPT ![c] = FALSE]
            /\ Enable(fd[c], {"read"})
            /\ UNCHANGED <<connected, loop, enableFailed>>

----------------------------------------------------------------------------
(* The loop goroutine                                                      *)

\* The events of f that the poller reports: of epoll in one entry, of kqueue in
\* one per filter.  epoll reports a reset as readable and writable, or as a
\* hang-up; kqueue sets EV_EOF from the end of the stream on, unread bytes or
\* not.  The descriptor of somebody else may report anything.
Entries(f) ==
    LET c == owner[f]
        Entry(evs) == [fd |-> f, evs |-> evs, of |-> c]
        EofIf(b) == IF b THEN {"err"} ELSE {}
        ready == {e \in reg[f] : \/ e = "write"
                                 \/ c \notin Conns
                                 \/ unread[c] \/ peer[c] # "open"}
    IN  IF c \notin Conns
        THEN {{Entry(evs)} : evs \in {{"read"}, {"err"}}}
        ELSE IF poller = "epoll"
        THEN (IF ready = {} THEN {{}} ELSE {{Entry(ready)}})
               \cup (IF peer[c] = "rst" THEN {{Entry({"read", "write"})}, {Entry({"err"})}} ELSE {})
        ELSE {{Entry({e} \cup EofIf(peer[c] = "rst" \/ (e = "read" /\ peer[c] = "fin"))) :
                 e \in ready}}

\* Poll: a batch of all that is ready.
Poll ==
    /\ loop = Idle /\ batch = {}
    /\ \E report \in [{f \in Fds : reg[f] # {}} -> UNION {Entries(f) : f \in Fds}] :
         /\ \A f \in DOMAIN report : report[f] \in Entries(f)
         /\ batch' = UNION {report[f] : f \in DOMAIN report}
         /\ batch' # {}
    /\ UNCHANGED <<poller, owner, handlers, pollVars, listener, loop, connVars, peerVars, history>>

\* Handle of the connection that handlers has under the number now.
Handle(c, e) ==
    \/ /\ "err" \in e.evs
       /\ HandleClose(c)
       /\ UNCHANGED <<unread, backlog, enableFailed>>
    \/ /\ "err" \notin e.evs /\ backlog[c]
       /\ UNCHANGED unread
       /\ IF "write" \in e.evs THEN HandleWrite(c) ELSE Stay
    \/ /\ "err" \notin e.evs /\ ~backlog[c]
       /\ IF "read" \in e.evs THEN HandleRead(c) ELSE Stay /\ UNCHANGED unread

HandleEvent ==
    /\ loop = Idle
    /\ \E e \in batch :
         LET c == handlers[e.fd]
         IN  /\ batch' = batch \ {e}
             /\ staleErr' = IF c \notin {None, e.of} /\ "err" \in e.evs THEN staleErr \cup {c}
                                                                       ELSE staleErr
             /\ deadEvent' = IF c # None /\ ~connected[c] THEN deadEvent \cup {c} ELSE deadEvent
             /\ IF c # None /\ connected[c]
                THEN Handle(c, e)
                ELSE Stay /\ UNCHANGED unread
    /\ UNCHANGED <<poller, owner, handlers, listener, fd, peer, closeAsked, storedDead>>

\* Write's job, and Close's, between any two events of the batch
WriteJob(c) ==
    /\ loop = Idle /\ connected[c]
    /\ Write(c)
    /\ UNCHANGED <<poller, owner, handlers, listener, batch, fd, peerVars,
                   closeAsked, staleErr, storedDead, deadEvent>>

CloseJob(c) ==
    /\ loop = Idle /\ c \in closeAsked
    /\ HandleClose(c)
    /\ UNCHANGED <<poller, owner, handlers, listener, batch, fd, backlog, peerVars, history>>

Close(c) ==
    /\ connected[c]
    /\ closeAsked' = closeAsked \cup {c}
    /\ UNCHANGED <<poller, owner, handlers, pollVars, listener, loop, batch, connVars, peerVars,
                   staleErr, enableFailed, storedDead, deadEvent>>

\* The peer sends, ends its stream, or resets the connection.
Peer(c) ==
    /\ connected[c] /\ peer[c] # "rst"
    /\ \/ peer[c] = "open" /\ unread' = [unread EXCEPT ![c] = TRUE] /\ UNCHANGED peer
       \/ /\ peer' \in {[peer EXCEPT ![c] = p] : p \in {"fin", "rst"}}
          /\ UNCHANGED unread
    /\ UNCHANGED <<poller, owner, handlers, pollVars, listener, loop, batch, connVars, history>>

----------------------------------------------------------------------------
ListenerNext == (\E c \in Conns, f \in Fds : Accept(c, f)) \/ Store \/ AddRead \/ DeleteHandler

LoopNext == Poll \/ HandleEvent \/ Unbind \/ CloseFd

Next ==
    \/ ListenerNext
    \/ LoopNext
    \/ \E f \in Fds : OtherOpens(f) \/ OtherCloses(f)
    \/ \E c \in Conns : WriteJob(c) \/ CloseJob(c) \/ Close(c) \/ Peer(c)

Spec == Init /\ [][Next]_vars

----------------------------------------------------------------------------
\* Every variable has a value the code can give it; only an open descriptor is
\* registered; and kqueue's note of an interest is never more than "read".
TypeOK ==
    /\ poller \in {"epoll", "kqueue"}
    /\ owner \in [Fds -> Conns \cup {None, Other}]
    /\ handlers \in [Fds -> Conns \cup {None}]
    /\ reg \in [Fds -> SUBSET {"read", "write"}] /\ sockets \in [Fds -> {{}, {"read"}}]
    /\ \A f \in Fds : reg[f] # {} => owner[f] # None
    /\ listener.pc \in {"idle", "store", "add", "delete"} /\ listener.c \in Conns \cup {None}
    /\ loop.pc \in {"idle", "unbind", "closefd"} /\ loop.c \in Conns \cup {None}
    /\ fd \in [Conns -> Fds \cup {None}]
    /\ connected \in [Conns -> BOOLEAN] /\ backlog \in [Conns -> BOOLEAN]
    /\ unread \in [Conns -> BOOLEAN] /\ peer \in [Conns -> {"open", "fin", "rst"}]
    /\ UNION {closeAsked, staleErr, enableFailed, storedDead, deadEvent} \subseteq Conns

\* The number a connection reads, writes and closes is its own, however often
\* it has been closed and given out again and whoever asks for the close.
OwnDescriptor ==
    /\ \A c \in Conns : connected[c] => owner[fd[c]] = c
    /\ loop # Idle => owner[fd[loop.c]] = loop.c

\* A connection is closed by a Close, by its peer, or by the error event of the
\* connection that had its number before it, and by nothing else; and the end
\* of the peer's stream closes it only when all has been read, but with kqueue,
\* where the end is reported as an error.
ClosedForAReason ==
    \A c \in Conns : fd[c] # None /\ ~connected[c] /\ c \notin closeAsked \cup staleErr =>
        /\ peer[c] # "open"
        /\ peer[c] = "fin" /\ unread[c] => poller = "kqueue"

\* A released connection, whose buffers are gone, is handed no event, unless its
\* Store came after its close and left it in the handlers map: there it gets
\* what the batch still has for its number, or what a later owner of the number
\* is reported for.
NoEventToTheDead == deadEvent \subseteq storedDead

\* While a connection has bytes to send its socket is watched for room, unless
\* the write came before AddRead; and a socket watched for nothing, which keeps
\* the loop spinning, is one of kqueue, whose EnableRead removes no filter.
WriteInterest ==
    \A c \in Conns : connected[c] =>
        /\ backlog[c] /\ "write" \notin reg[fd[c]] => c \in enableFailed
        /\ ~backlog[c] /\ "write" \in reg[fd[c]] => poller = "kqueue"
=============================================================================
