------------------------------- MODULE Server -------------------------------
(***************************************************************************)
(* LIMNet as a whole: Run starts the WebSocket server, the connect loops   *)
(* and the listener loop, which accepts connections and hands them round   *)
(* the connect loops; Stop asks the listener loop to close its descriptor, *)
(* stops the WebSocket server and each loop, and waits for that job.       *)
(* TCPServer.Stop, which applications reach by GetTCPServer, may be called *)
(* besides.                                                                *)
(*                                                                         *)
(* A loop is what EventLoop shows of it: it takes the jobs pushed so far   *)
(* after an event or a wake-up, runs them, and after a wake-up ends if     *)
(* running has been cleared.  OnClose, which the jobs of Close and Write    *)
(* and the handlers of a connection call, may panic, as OnConnect and      *)
(* OnPacket may: the jobs taken after it are dropped, and the loop ends if *)
(* the value is not an error.                                              *)
(***************************************************************************)
EXTENDS Naturals

CONSTANTS
    N,           \* ConnEventLoopNum
    Conns,       \* numbered in the order in which they are accepted
    StopCall,    \* the call of LIMNet.Stop, which calls TCPServer.Stop
    TcpStops     \* calls of TCPServer.Stop by others

ASSUME ServerAssumption ==
    /\ N \in Nat \ {0} /\ Conns \subseteq Nat
    /\ StopCall \notin TcpStops /\ Conns \cap (TcpStops \cup {StopCall}) = {}

Listener == N
ConnectLoops == 0..N - 1
Loops == 0..N
Stoppers == TcpStops \cup {StopCall}

VARIABLES
    (* Run *)
    wsStarted,       \* WSServer.srv is set
    spawned,         \* how many loops are
    (* the loops *)
    loop,            \* "off", "spawned", "polling", running jobs after an "event" or
                     \* a "wakeup", in "accept"; "ended", or "died" of a panic
    running, woken, jobs, taken,
    eventHandling,   \* is set: by a handler, or by one that has panicked
    (* the listener *)
    acceptFd,        \* "open"; "closed", or the number is "taken" by others
    stopped,         \* the channel Stopped is closed
    nextLoop,        \* nextLoopIndex
    conn,            \* conn[c]: "new", "accepted", "open" (bound), or "gone": closed, or
                     \* left by a panic of OnConnect or OnClose
    home,            \* the loop of a connection
    (* Stop *)
    stopPc, k,       \* where LIMNet.Stop is, and the loop it stops
    tcpCalls,        \* calls of TCPServer.Stop so far
    (* history *)
    ranged,          \* loops whose handlers Stop has closed
    refused,         \* loops whose Close found them not running
    doubleClose,     \* a second job closed Stopped, and panicked
    dropped          \* connections with a Close job that a panic dropped, since
                     \* Stop asked them to close

runVars == <<wsStarted, spawned>>
loopVars == <<loop, running, woken, jobs, taken, eventHandling>>
acceptVars == <<acceptFd, stopped, nextLoop, conn, home>>
stopVars == <<stopPc, k, tcpCalls>>
history == <<ranged, refused, doubleClose, dropped>>
vars == <<runVars, loopVars, acceptVars, stopVars, history>>

Each(v) == [l \in Loops |-> v]

Init ==
    /\ wsStarted = FALSE /\ spawned = 0
    /\ loop = Each("off") /\ running = Each(FALSE) /\ woken = Each(FALSE)
    /\ jobs = Each({}) /\ taken = Each({}) /\ eventHandling = Each(FALSE)
    /\ acceptFd = "open" /\ stopped = FALSE /\ nextLoop = 0
    /\ conn = [c \in Conns |-> "new"] /\ home = [c \in Conns |-> 0]
    /\ stopPc = "idle" /\ k = 0 /\ tcpCalls = {}
    /\ ranged = {} /\ refused = {} /\ doubleClose = FALSE /\ dropped = {}

----------------------------------------------------------------------------
(* Run: the WebSocket server, the connect loops, the listener loop *)

StartWs ==
    /\ ~wsStarted
    /\ wsStarted' = TRUE
    /\ UNCHANGED <<spawned, loopVars, acceptVars, stopVars, history>>

Spawn ==
    /\ wsStarted /\ spawned \in Loops
    /\ loop' = [loop EXCEPT ![spawned] = "spawned"]
    /\ spawned' = spawned + 1
    /\ UNCHANGED <<wsStarted, running, woken, jobs, taken, eventHandling, acceptVars,
                   stopVars, history>>

----------------------------------------------------------------------------
(* The loops *)

\* Trigger wakes the loop, but not while eventHandling is set, which a handler
\* that has panicked leaves for good.
Push(l, S) ==
    /\ jobs' = [jobs EXCEPT ![l] = @ \cup S]
    /\ woken' = [woken EXCEPT ![l] = @ \/ ~eventHandling[l]]

\* The connections of a loop that are open.
OpenOn(l) == {c \in Conns : conn[c] = "open" /\ home[c] = l}

\* Where a panic leaves a loop: recover asserts that the value is an error.
AfterPanic(l, next) == loop' \in {[loop EXCEPT ![l] = x] : x \in {next, "died"}}

\* Close from any goroutine.  (One that comes before Bind is the subject of
\* Descriptors; of Write's jobs only what they close is seen here, in Event,
\* and a panic, in JobPanics.)
Trigger(c) ==
    /\ conn[c] = "open"
    /\ Push(home[c], {c})
    /\ UNCHANGED <<runVars, loop, running, taken, eventHandling, acceptVars, stopVars, history>>

EnterPoll(l) ==
    /\ loop[l] = "spawned"
    /\ loop' = [loop EXCEPT ![l] = "polling"]
    /\ running' = [running EXCEPT ![l] = TRUE]
    /\ UNCHANGED <<runVars, woken, jobs, taken, eventHandling, acceptVars, stopVars, history>>

\* The flag is cleared and the queue taken.
Take(l, after) ==
    /\ loop' = [loop EXCEPT ![l] = after]
    /\ eventHandling' = [eventHandling EXCEPT ![l] = FALSE]
    /\ taken' = [taken EXCEPT ![l] = jobs[l]]
    /\ jobs' = [jobs EXCEPT ![l] = {}]

\* handleEvent of a connection's event, which may close the connection, ends
\* with ExecuteJobs.
Event(l) ==
    /\ l \in ConnectLoops /\ loop[l] = "polling"
    /\ \/ jobs[l] # {} /\ UNCHANGED conn
       \/ \E c \in OpenOn(l) : conn' = [conn EXCEPT ![c] = "gone"]
    /\ Take(l, "event")
    /\ UNCHANGED <<runVars, running, woken, acceptFd, stopped, nextLoop, home, stopVars, history>>

\* OnPacket panics, or OnClose, which leaves the descriptor open but handles
\* the connection no more: ExecuteJobs is not called.
HandlerPanics(l) ==
    /\ loop[l] = "polling"
    /\ \E c \in OpenOn(l) : conn' \in {conn, [conn EXCEPT ![c] = "gone"]}
    /\ AfterPanic(l, "polling")
    /\ eventHandling' = [eventHandling EXCEPT ![l] = TRUE]
    /\ UNCHANGED <<runVars, running, woken, jobs, taken, acceptFd, stopped, nextLoop, home,
                   stopVars, history>>

Wakeup(l) ==
    /\ loop[l] = "polling" /\ woken[l]
    /\ woken' = [woken EXCEPT ![l] = FALSE]
    /\ Take(l, "wakeup")
    /\ UNCHANGED <<runVars, running, acceptVars, stopVars, history>>

\* The job of TCPServer.Stop when it does not look at the error of unix.Close.
TcpStopJobUnchecked ==
    /\ acceptFd' = "closed"
    /\ stopped' = TRUE
    /\ doubleClose' = (doubleClose \/ stopped)

\* The job of TCPServer.Stop that leaves Stopped to somebody else.
TcpStopJobSilent ==
    /\ acceptFd' = "closed"
    /\ UNCHANGED <<stopped, doubleClose>>

\* The job of TCPServer.Stop: the second time unix.Close fails, unless the
\* number has been given out again.
TcpStopJob ==
    IF acceptFd = "closed"
    THEN UNCHANGED <<acceptFd, stopped, doubleClose>>
    ELSE /\ acceptFd' = "closed"
         /\ stopped' = TRUE
         /\ doubleClose' = (doubleClose \/ stopped)

\* A job: TCPServer.Stop's, of which one that panics drops those taken after
\* it, or the handleClose of a Close, which tests connected.
RunJob(l, j) ==
    /\ j \in taken[l]
    /\ \/ /\ j \in Stoppers
          /\ TcpStopJob
          /\ UNCHANGED conn
       \/ /\ j \in Conns
          /\ conn' = IF conn[j] = "open" THEN [conn EXCEPT ![j] = "gone"] ELSE conn
          /\ UNCHANGED <<acceptFd, stopped, doubleClose>>
    /\ taken' = [taken EXCEPT ![l] = IF doubleClose' # doubleClose THEN {} ELSE @ \ {j}]
    /\ UNCHANGED <<runVars, loop, running, woken, jobs, eventHandling, nextLoop, home,
                   stopVars, ranged, refused, dropped>>

\* OnClose panics in the job of a Close, or of a Write that fails, and drops
\* the jobs that were taken after it.
JobPanics(l) ==
    /\ loop[l] \in {"event", "wakeup"}
    /\ \E c \in OpenOn(l) : conn' = [conn EXCEPT ![c] = "gone"]
    /\ dropped' = dropped \cup (taken[l] \cap Conns)
    /\ taken' = [taken EXCEPT ![l] = {}]
    /\ AfterPanic(l, loop[l])
    /\ UNCHANGED <<runVars, running, woken, jobs, eventHandling, acceptFd, stopped, nextLoop,
                   home, stopVars, ranged, refused, doubleClose>>

EndTurn(l) ==
    /\ loop[l] \in {"event", "wakeup"} /\ taken[l] = {}
    /\ loop' = [loop EXCEPT ![l] = IF @ = "wakeup" /\ ~running[l] THEN "ended" ELSE "polling"]
    /\ UNCHANGED <<runVars, running, woken, jobs, taken, eventHandling, acceptVars, stopVars,
                   history>>

----------------------------------------------------------------------------
(* The listener loop: Handle and handleNewConnection *)

\* nextLoop
NextIndex(i) == (i + 1) % N

\* accept, nextLoop and NewTCPConn
Accept(c) ==
    /\ loop[Listener] = "polling" /\ acceptFd = "open"
    /\ conn[c] = "new" /\ \A d \in Conns : conn[d] = "new" => c <= d
    /\ loop' = [loop EXCEPT ![Listener] = "accept"]
    /\ eventHandling' = [eventHandling EXCEPT ![Listener] = TRUE]
    /\ conn' = [conn EXCEPT ![c] = "accepted"]
    /\ home' = [home EXCEPT ![c] = nextLoop]
    /\ nextLoop' = NextIndex(nextLoop)
    /\ UNCHANGED <<runVars, running, woken, jobs, taken, acceptFd, stopped, stopVars, history>>

\* The listener's whole handler for a connection besides Conns, of which only
\* nextLoopIndex is seen: it decides where the next of Conns goes.  (Bound: the
\* first of Conns comes before it.)
AcceptAnother ==
    /\ loop[Listener] = "polling" /\ acceptFd = "open"
    /\ \E c, d \in Conns : conn[c] = "new" /\ conn[d] # "new"
    /\ nextLoop' = NextIndex(nextLoop)
    /\ Take(Listener, "event")
    /\ UNCHANGED <<runVars, running, woken, acceptFd, stopped, conn, home, stopVars, history>>

\* BindHandler, and ExecuteJobs at the end of the listener's handleEvent
Bind(c) ==
    /\ conn[c] = "accepted"
    /\ conn' = [conn EXCEPT ![c] = "open"]
    /\ Take(Listener, "event")
    /\ UNCHANGED <<runVars, running, woken, acceptFd, stopped, nextLoop, home, stopVars, history>>

\* OnConnect panics: the connection is never bound.  The listener loop ends if
\* the value is not an error.
OnConnectPanics(c) ==
    /\ conn[c] = "accepted"
    /\ conn' = [conn EXCEPT ![c] = "gone"]
    /\ AfterPanic(Listener, "polling")
    /\ UNCHANGED <<runVars, running, woken, jobs, taken, eventHandling, acceptFd, stopped,
                   nextLoop, home, stopVars, history>>

\* Somebody opens a descriptor and gets the number of the closed one, which
\* nobody looks at before the listener loop has another job in hand.
TakeNumber ==
    /\ acceptFd = "closed" /\ taken[Listener] # {}
    /\ acceptFd' = "taken"
    /\ UNCHANGED <<runVars, loopVars, stopped, nextLoop, conn, home, stopVars, history>>

----------------------------------------------------------------------------
(* Stop *)

TcpStop(s) ==
    /\ s \notin tcpCalls /\ (s = StopCall => stopPc = "idle")
    /\ tcpCalls' = tcpCalls \cup {s}
    /\ Push(Listener, {s})
    /\ stopPc' = IF s = StopCall THEN "ws" ELSE stopPc
    /\ UNCHANGED <<runVars, loop, running, taken, eventHandling, acceptVars, k, history>>

\* A Stop that stops the connect loops first.
WsStopConnectFirst ==
    /\ stopPc = "ws"
    /\ IF ~wsStarted THEN stopPc' = "panicked" /\ UNCHANGED k
       ELSE stopPc' = "range" /\ k' = 0
    /\ UNCHANGED <<runVars, loopVars, acceptVars, tcpCalls, history>>

\* WSServer.Stop: a nil server before Run; Shutdown may run out of time.
WsStop ==
    /\ stopPc = "ws"
    /\ IF ~wsStarted THEN stopPc' = "panicked" /\ UNCHANGED k
       ELSE \/ stopPc' = "range" /\ k' = Listener
            \/ stopPc' = "failed" /\ UNCHANGED k
    /\ UNCHANGED <<runVars, loopVars, acceptVars, tcpCalls, history>>

\* EventLoop.Stop of loop k: Close of each handler
Range ==
    /\ stopPc = "range"
    /\ IF OpenOn(k) = {} THEN UNCHANGED <<jobs, woken>> ELSE Push(k, OpenOn(k))
    /\ ranged' = ranged \cup {k} /\ dropped' = dropped \ OpenOn(k)
    /\ stopPc' = "close"
    /\ UNCHANGED <<runVars, loop, running, taken, eventHandling, acceptVars, k, tcpCalls,
                   refused, doubleClose>>

\* The listener loop comes first, and the first connect loop after it.
Following == IF k = Listener THEN 0 ELSE k + 1

\* Stop goes on to the next loop.
GoOn ==
    IF k = N - 1 THEN stopPc' = "wait" /\ UNCHANGED k
    ELSE stopPc' = "range" /\ k' = Following

\* Poller.Close: only the listener loop's refusal is returned.
PollerClose ==
    /\ stopPc = "close"
    /\ IF running[k]
       THEN /\ running' = [running EXCEPT ![k] = FALSE]
            /\ woken' = [woken EXCEPT ![k] = TRUE]
            /\ stopPc' = "waitDone"
            /\ UNCHANGED <<k, refused>>
       ELSE /\ refused' = refused \cup {k}
            /\ IF k = Listener THEN stopPc' = "failed" /\ UNCHANGED k ELSE GoOn
            /\ UNCHANGED <<running, woken>>
    /\ UNCHANGED <<runVars, loop, jobs, taken, eventHandling, acceptVars, tcpCalls, ranged,
                   doubleClose, dropped>>

\* A Close that does not wait for the loop.
WaitDoneNot ==
    /\ stopPc = "waitDone"
    /\ GoOn
    /\ UNCHANGED <<runVars, loopVars, acceptVars, tcpCalls, history>>

WaitDone ==
    /\ stopPc = "waitDone" /\ loop[k] \in {"ended", "died"}
    /\ GoOn
    /\ UNCHANGED <<runVars, loopVars, acceptVars, tcpCalls, history>>

\* <-Stopped
WaitStopped ==
    /\ stopPc = "wait" /\ stopped
    /\ stopPc' = "stopped"
    /\ UNCHANGED <<runVars, loopVars, acceptVars, k, tcpCalls, history>>

----------------------------------------------------------------------------
RunNext == StartWs \/ Spawn

LoopNext(l) ==
    \/ EnterPoll(l) \/ Wakeup(l) \/ EndTurn(l)
    \/ \E j \in taken[l] : RunJob(l, j)
    \/ JobPanics(l)
    \/ l = Listener /\ \E c \in Conns : Bind(c) \/ OnConnectPanics(c)

StopNext == WsStop \/ Range \/ PollerClose \/ WaitDone \/ WaitStopped

Next ==
    \/ RunNext \/ StopNext \/ AcceptAnother \/ TakeNumber
    \/ \E l \in Loops : LoopNext(l) \/ Event(l) \/ HandlerPanics(l)
    \/ \E c \in Conns : Accept(c) \/ Trigger(c)
    \/ \E s \in Stoppers : TcpStop(s)

Spec == Init /\ [][Next]_vars

\* Goroutines that can run do; clients and events need not come.
Fairness ==
    /\ WF_vars(RunNext) /\ WF_vars(StopNext)
    /\ \A l \in Loops : WF_vars(LoopNext(l))

FairSpec == Spec /\ Fairness

----------------------------------------------------------------------------
\* Every variable has a value the code can give it: nextLoopIndex is an index
\* of connectLoops, a loop that is not serving has no jobs in hand, and the
\* listener holds one connection at a time.
TypeOK ==
    /\ wsStarted \in BOOLEAN /\ spawned \in 0..N + 1
    /\ loop \in [Loops -> {"off", "spawned", "polling", "event", "wakeup", "accept",
                           "ended", "died"}]
    /\ running \in [Loops -> BOOLEAN] /\ woken \in [Loops -> BOOLEAN]
    /\ eventHandling \in [Loops -> BOOLEAN]
    /\ jobs \in [Loops -> SUBSET (Stoppers \cup Conns)]
    /\ taken \in [Loops -> SUBSET (Stoppers \cup Conns)]
    /\ \A l \in Loops : taken[l] # {} => loop[l] \in {"event", "wakeup"}
    /\ acceptFd \in {"open", "closed", "taken"} /\ stopped \in BOOLEAN
    /\ nextLoop \in ConnectLoops
    /\ conn \in [Conns -> {"new", "accepted", "open", "gone"}]
    /\ home \in [Conns -> ConnectLoops]
    /\ \A c \in Conns : conn[c] = "accepted" => loop[Listener] = "accept"
    /\ stopPc \in {"idle", "ws", "range", "close", "waitDone", "wait", "stopped", "failed",
                   "panicked"}
    /\ k \in Loops /\ tcpCalls \subseteq Stoppers
    /\ ranged \subseteq Loops /\ refused \subseteq Loops /\ doubleClose \in BOOLEAN
    /\ dropped \subseteq Conns

\* Stop returns, with or without an error, although it waits for a job of a
\* loop that it has ended itself: the job is in the queue before the loop can
\* see that it is to end.  Only a listener loop that a panic of OnConnect has
\* ended leaves it waiting.
StopReturns ==
    stopPc = "ws" ~> stopPc \in {"stopped", "failed", "panicked"} \/ loop[Listener] = "died"

\* When Stop returns without an error no loop runs any more, but those that had
\* not entered Poll when it came to them: they will run for good.
LoopsEnd ==
    stopPc = "stopped" => \A l \in Loops : loop[l] \in {"ended", "died"} \/ l \in refused

\* Stop misses no connection: one that is open on a loop whose handlers it has
\* closed has its Close job there, run or not, however accepting and stopping
\* interleave.  Only a panic of OnClose in a job that was taken with it can
\* have dropped the job since.
CloseAsked ==
    \A c \in Conns : conn[c] = "open" /\ home[c] \in ranged =>
        c \in jobs[home[c]] \cup taken[home[c]] \cup dropped

\* A second TCPServer.Stop does nothing, unless the number of the descriptor it
\* closes has been given out again: then it closes a stranger's and panics.
SecondStopIsHarmless == [][doubleClose' # doubleClose => acceptFd = "taken"]_vars
=============================================================================
