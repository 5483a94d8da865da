---------------------------- MODULE ServerProofs ----------------------------
(***************************************************************************)
(* What Stop leaves behind, for any number of connect loops, connections   *)
(* and calls of TCPServer.Stop.                                            *)
(***************************************************************************)
EXTENDS Server, TLAPS

Gone(l) == loop[l] \in {"ended", "died"}

\* Run spawns the loops in order.
SpawnInv == \A l \in Loops : l >= spawned => loop[l] = "off"

\* The listener binds one connection before it accepts the next.
OneAccepted == \A c, d \in Conns : conn[c] = "accepted" /\ conn[d] = "accepted" => c = d

\* Only the listener loop is given jobs of TCPServer.Stop, one of which may panic
\* and drop the jobs behind it, which are no connection's.
QueueInv == \A l \in ConnectLoops : (jobs[l] \cup taken[l]) \cap Stoppers = {}

\* Stop is past the loops before k, and past the listener loop, which must have
\* ended, before it closes any connection.
PassInv ==
    /\ stopPc \in {"range", "close", "waitDone"} /\ k # Listener =>
         Gone(Listener) /\ \A l \in 0..k - 1 : Gone(l) \/ l \in refused
    /\ stopPc \in {"wait", "stopped"} => \A l \in Loops : Gone(l) \/ l \in refused
    /\ \A l \in ConnectLoops : l \in ranged => Gone(Listener)

StoppedInv == stopped => acceptFd # "open"

Inv ==
    /\ TypeOK /\ SpawnInv /\ OneAccepted /\ QueueInv /\ PassInv /\ StoppedInv
    /\ CloseAsked

LEMMA InitInv == Init => Inv
<1> USE ServerAssumption
    DEF Each, Loops, ConnectLoops, Listener
<1> SUFFICES ASSUME Init PROVE Inv  OBVIOUS
<1>1. TypeOK
  <2>1. 0 \in 0..N - 1 /\ 0 \in 0..N /\ 0 \in 0..N + 1  OBVIOUS
  <2>2. /\ loop \in [0..N -> {"off"}] /\ taken \in [0..N -> {{}}] /\ jobs \in [0..N -> {{}}]
        /\ running \in [0..N -> BOOLEAN] /\ woken \in [0..N -> BOOLEAN]
        /\ eventHandling \in [0..N -> BOOLEAN]
    BY DEF Init
  <2>3. conn \in [Conns -> {"new"}] /\ home \in [Conns -> 0..N - 1]  BY <2>1 DEF Init
  <2> QED  BY <2>1, <2>2, <2>3 DEF Init, TypeOK
<1>2. SpawnInv /\ OneAccepted /\ StoppedInv  BY DEF Init, SpawnInv, OneAccepted, StoppedInv
<1>3. QueueInv  BY DEF Init, QueueInv
<1>4. PassInv /\ CloseAsked  BY DEF Init, PassInv, CloseAsked
<1> QED  BY <1>1, <1>2, <1>3, <1>4 DEF Inv

\* A loop that is gone stays gone.
LEMMA GoneStays ==
    ASSUME Inv, [Next]_vars, NEW l \in Loops, Gone(l)
    PROVE  Gone(l)'
<1> USE DEF Inv, TypeOK, SpawnInv, Gone, loopVars, Loops, Listener, ConnectLoops
<1>1. CASE Spawn  BY <1>1, ServerAssumption DEF Spawn
<1>2. ASSUME NEW m \in Loops, LoopNext(m) \/ Event(m) \/ HandlerPanics(m)
      PROVE  Gone(l)'
  <2>1. ASSUME NEW c \in Conns, Bind(c) \/ OnConnectPanics(c)
        PROVE  Gone(l)'
    BY <2>1, ServerAssumption DEF Bind, OnConnectPanics, AfterPanic, Take
  <2>2. CASE \E j \in taken[m] : RunJob(m, j)  BY <2>2 DEF RunJob
  <2>3. CASE EnterPoll(m) \/ Wakeup(m) \/ EndTurn(m) \/ Event(m)
    BY <2>3 DEF EnterPoll, Wakeup, EndTurn, Event, Take
  <2>4. CASE JobPanics(m) \/ HandlerPanics(m)
    BY <2>4 DEF JobPanics, HandlerPanics, AfterPanic
  <2> QED  BY <1>2, <2>1, <2>2, <2>3, <2>4 DEF LoopNext
<1>3. ASSUME NEW c \in Conns, Accept(c)
      PROVE  Gone(l)'
  BY <1>3, ServerAssumption DEF Accept
<1>4. CASE UNCHANGED loop  BY <1>4
<1>5. CASE AcceptAnother
  BY <1>5, ServerAssumption DEF AcceptAnother, Take
<1> QED
  BY <1>1, <1>2, <1>3, <1>4, <1>5
  DEF Next, vars, RunNext, StopNext, StartWs, TakeNumber, Trigger, TcpStop, WsStop, Range,
      PollerClose, WaitDone, WaitStopped

\* What a step that leaves Stop where it is may do.
LEMMA PassStays ==
    ASSUME Inv, [Next]_vars, stopPc' \in {stopPc, "ws"}, UNCHANGED <<k, refused, ranged>>
    PROVE  PassInv'
<1>1. \A l \in Loops : Gone(l) => Gone(l)'  BY GoneStays
<1>2. Listener \in Loops /\ ConnectLoops \subseteq Loops
  BY ServerAssumption DEF Listener, Loops, ConnectLoops
<1>3. k \in Loops /\ \A l \in 0..k - 1 : l \in Loops
  BY ServerAssumption DEF Inv, TypeOK, Loops
<1> QED  BY <1>1, <1>2, <1>3 DEF Inv, PassInv

LEMMA RunInv ==
    ASSUME Inv, RunNext
    PROVE  Inv'
<1>1. CASE StartWs
  BY <1>1 DEF StartWs, Inv, TypeOK, SpawnInv, OneAccepted, QueueInv, PassInv, StoppedInv,
              CloseAsked, Gone, loopVars, acceptVars, stopVars, history
<1>2. CASE Spawn
  <2> USE <1>2, ServerAssumption DEF Spawn, Inv, acceptVars, stopVars, history
  <2>1. loop[spawned] = "off"  BY DEF TypeOK, SpawnInv
  <2>2. TypeOK'  BY <2>1 DEF TypeOK, Loops, Listener
  <2>3. SpawnInv'  BY DEF TypeOK, SpawnInv, Loops
  <2>4. PassInv'  BY PassStays DEF Next, RunNext
  <2>5. (OneAccepted /\ QueueInv /\ StoppedInv /\ CloseAsked)'
    BY DEF OneAccepted, QueueInv, StoppedInv, CloseAsked
  <2> QED  BY <2>2, <2>3, <2>4, <2>5
<1> QED  BY <1>1, <1>2 DEF RunNext

\* More jobs, of connections or for the listener loop, disturb nothing.
LEMMA PushInv ==
    ASSUME Inv, NEW l \in Loops, NEW S, Push(l, S),
           S \subseteq Stoppers \cup Conns, l \in ConnectLoops => S \subseteq Conns,
           UNCHANGED <<runVars, loop, running, taken, eventHandling, acceptVars>>
    PROVE  /\ jobs' \in [Loops -> SUBSET (Stoppers \cup Conns)]
           /\ woken' \in [Loops -> BOOLEAN]
           /\ (SpawnInv /\ OneAccepted /\ QueueInv /\ StoppedInv)'
           /\ \A m \in Loops : jobs[m] \subseteq jobs'[m]
           /\ S \subseteq jobs'[l]
<1>1. Conns \cap Stoppers = {}  BY ServerAssumption DEF Stoppers
<1>2. jobs' \in [Loops -> SUBSET (Stoppers \cup Conns)]
  BY DEF Push, Inv, TypeOK
<1>3. woken' \in [Loops -> BOOLEAN]
  <2>1. (woken[l] \/ ~eventHandling[l]) \in BOOLEAN  OBVIOUS
  <2>2. woken \in [Loops -> BOOLEAN]  BY DEF Inv, TypeOK
  <2> QED  BY <2>1, <2>2, Zenon DEF Push
<1>4. (SpawnInv /\ OneAccepted /\ StoppedInv)'
  BY DEF Inv, SpawnInv, OneAccepted, StoppedInv, runVars, acceptVars
<1>5. /\ \A m \in Loops : jobs[m] \subseteq jobs'[m]
      /\ S \subseteq jobs'[l]
  BY DEF Push, Inv, TypeOK
<1>6. QueueInv'
  <2> SUFFICES ASSUME NEW m \in ConnectLoops
               PROVE  (jobs'[m] \cup taken[m]) \cap Stoppers = {}
    BY DEF QueueInv
  <2>1. m \in Loops  BY ServerAssumption DEF ConnectLoops, Loops
  <2>2. jobs'[m] \subseteq jobs[m] \cup Conns
    BY <2>1 DEF Push, Inv, TypeOK
  <2> QED  BY <2>2, <1>1 DEF Inv, QueueInv
<1> QED  BY <1>2, <1>3, <1>4, <1>5, <1>6

LEMMA HomeIsLoop == ConnectLoops \subseteq Loops /\ Listener \in Loops /\ Listener \notin ConnectLoops
BY ServerAssumption DEF ConnectLoops, Loops, Listener

LEMMA TriggerInv ==
    ASSUME Inv, NEW c \in Conns, Trigger(c)
    PROVE  Inv'
<1>0. home[c] \in Loops /\ home[c] \in ConnectLoops  BY HomeIsLoop DEF Inv, TypeOK
<1>1. Push(home[c], {c})  BY DEF Trigger
<1>2. UNCHANGED <<runVars, loop, running, taken, eventHandling, acceptVars, stopVars, history>>
  BY DEF Trigger
<1>3. /\ jobs' \in [Loops -> SUBSET (Stoppers \cup Conns)]
      /\ woken' \in [Loops -> BOOLEAN]
      /\ (SpawnInv /\ OneAccepted /\ QueueInv /\ StoppedInv)'
      /\ \A m \in Loops : jobs[m] \subseteq jobs'[m]
  BY <1>0, <1>1, <1>2, PushInv, Zenon
<1>4. TypeOK'
  BY <1>2, <1>3 DEF Inv, TypeOK, runVars, acceptVars, stopVars, history
<1>5. PassInv'  BY <1>2, PassStays DEF Next, stopVars, history
<1>6. CloseAsked'
  BY <1>2, <1>3, HomeIsLoop DEF Inv, TypeOK, CloseAsked, acceptVars, history
<1> QED  BY <1>3, <1>4, <1>5, <1>6 DEF Inv

LEMMA TcpStopInv ==
    ASSUME Inv, NEW s \in Stoppers, TcpStop(s)
    PROVE  Inv'
<1>1. Push(Listener, {s})  BY DEF TcpStop
<1>2. UNCHANGED <<runVars, loop, running, taken, eventHandling, acceptVars, k, history>>
  BY DEF TcpStop
<1>3. /\ jobs' \in [Loops -> SUBSET (Stoppers \cup Conns)]
      /\ woken' \in [Loops -> BOOLEAN]
      /\ (SpawnInv /\ OneAccepted /\ QueueInv /\ StoppedInv)'
      /\ \A m \in Loops : jobs[m] \subseteq jobs'[m]
  BY <1>1, <1>2, PushInv, HomeIsLoop, Zenon
<1>4. TypeOK'
  BY <1>2, <1>3 DEF TcpStop, Inv, TypeOK, runVars, acceptVars, history
<1>5. PassInv'
  BY <1>2, PassStays DEF TcpStop, Next, history
<1>6. CloseAsked'
  BY <1>2, <1>3, HomeIsLoop DEF Inv, TypeOK, CloseAsked, acceptVars, history
<1> QED  BY <1>3, <1>4, <1>5, <1>6 DEF Inv

LEMMA EnterPollInv ==
    ASSUME Inv, NEW l \in Loops, EnterPoll(l)
    PROVE  Inv'
<1> USE DEF EnterPoll, Inv, runVars, acceptVars, stopVars, history
<1>1. TypeOK'  BY DEF TypeOK
<1>2. SpawnInv'  BY DEF TypeOK, SpawnInv
<1>3. PassInv'  BY PassStays DEF Next, LoopNext
<1>4. (OneAccepted /\ QueueInv /\ StoppedInv /\ CloseAsked)'
  BY DEF OneAccepted, QueueInv, StoppedInv, CloseAsked
<1> QED  BY <1>1, <1>2, <1>3, <1>4

\* A loop without jobs in hand takes its queue.
LEMMA TakeInv ==
    ASSUME Inv, NEW l \in Loops, NEW after \in {"event", "wakeup"}, Take(l, after),
           loop[l] \in {"polling", "accept"},
           spawned' = spawned
    PROVE  /\ loop' \in [Loops -> {"off", "spawned", "polling", "event", "wakeup", "accept",
                                   "ended", "died"}]
           /\ jobs' \in [Loops -> SUBSET (Stoppers \cup Conns)]
           /\ taken' \in [Loops -> SUBSET (Stoppers \cup Conns)]
           /\ eventHandling' \in [Loops -> BOOLEAN]
           /\ \A m \in Loops : taken'[m] # {} => loop'[m] \in {"event", "wakeup"}
           /\ \A m \in Loops : m # l => loop'[m] = loop[m]
           /\ \A m \in Loops : jobs'[m] \cup taken'[m] = jobs[m] \cup taken[m]
           /\ SpawnInv' /\ QueueInv'
<1>1. taken[l] = {}  BY DEF Inv, TypeOK
<1>2. /\ loop' \in [Loops -> {"off", "spawned", "polling", "event", "wakeup", "accept",
                              "ended", "died"}]
      /\ jobs' \in [Loops -> SUBSET (Stoppers \cup Conns)]
      /\ taken' \in [Loops -> SUBSET (Stoppers \cup Conns)]
      /\ eventHandling' \in [Loops -> BOOLEAN]
  BY DEF Take, Inv, TypeOK
<1>3. \A m \in Loops : m # l => loop'[m] = loop[m]  BY DEF Take, Inv, TypeOK
<1>4. \A m \in Loops : taken'[m] # {} => loop'[m] \in {"event", "wakeup"}
  BY DEF Take, Inv, TypeOK
<1>5. \A m \in Loops : jobs'[m] \cup taken'[m] = jobs[m] \cup taken[m]
  BY <1>1 DEF Take, Inv, TypeOK
<1>6. SpawnInv'  BY DEF Take, Inv, TypeOK, SpawnInv
<1>7. QueueInv'  BY <1>5, HomeIsLoop DEF Inv, QueueInv
<1> QED  BY <1>2, <1>3, <1>4, <1>5, <1>6, <1>7

LEMMA TurnInv ==
    ASSUME Inv, NEW l \in Loops, Event(l) \/ Wakeup(l)
    PROVE  Inv'
<1>1. PICK after \in {"event", "wakeup"} : Take(l, after)
  BY DEF Event, Wakeup
<1>2. /\ loop[l] = "polling"
      /\ UNCHANGED <<runVars, running, acceptFd, stopped, nextLoop, home, stopVars, history>>
      /\ woken' \in [Loops -> BOOLEAN]
  BY DEF Event, Wakeup, Inv, TypeOK, acceptVars
<1>3. /\ conn' \in [Conns -> {"new", "accepted", "open", "gone"}]
      /\ \A c \in Conns : conn'[c] \in {conn[c], "gone"}
  BY DEF Event, Wakeup, OpenOn, Inv, TypeOK, acceptVars
<1>4. /\ loop' \in [Loops -> {"off", "spawned", "polling", "event", "wakeup", "accept",
                              "ended", "died"}]
      /\ jobs' \in [Loops -> SUBSET (Stoppers \cup Conns)]
      /\ taken' \in [Loops -> SUBSET (Stoppers \cup Conns)]
      /\ eventHandling' \in [Loops -> BOOLEAN]
      /\ \A m \in Loops : taken'[m] # {} => loop'[m] \in {"event", "wakeup"}
      /\ \A m \in Loops : m # l => loop'[m] = loop[m]
      /\ \A m \in Loops : jobs'[m] \cup taken'[m] = jobs[m] \cup taken[m]
      /\ SpawnInv' /\ QueueInv'
  <2>1. spawned' = spawned  BY <1>2 DEF runVars
  <2> QED  BY <1>1, <1>2, <2>1, TakeInv
<1>5. \A c \in Conns : conn'[c] = "accepted" => loop'[Listener] = "accept"
  BY <1>2, <1>3, <1>4, HomeIsLoop DEF Inv, TypeOK
<1>6. TypeOK'
  BY <1>2, <1>3, <1>4, <1>5 DEF Inv, TypeOK, runVars, stopVars, history
<1>7. (OneAccepted /\ StoppedInv)'
  BY <1>2, <1>3 DEF Inv, OneAccepted, StoppedInv
<1>8. PassInv'  BY <1>2, PassStays DEF Next, LoopNext, stopVars, history
<1>9. CloseAsked'
  BY <1>2, <1>3, <1>4, HomeIsLoop DEF Inv, TypeOK, CloseAsked, history
<1> QED  BY <1>4, <1>6, <1>7, <1>8, <1>9 DEF Inv

\* A handler that panics leaves jobs and taken alone.
LEMMA HandlerPanicsInv ==
    ASSUME Inv, NEW l \in Loops, HandlerPanics(l)
    PROVE  Inv'
<1> USE DEF HandlerPanics, AfterPanic, OpenOn, Inv, runVars, stopVars, history
<1>1. \A c \in Conns : conn'[c] \in {conn[c], "gone"} /\ (conn[c] = "accepted" => l # Listener)
  BY DEF TypeOK
<1>2. TypeOK'  BY <1>1, HomeIsLoop DEF TypeOK
<1>3. SpawnInv'  BY DEF TypeOK, SpawnInv
<1>4. PassInv'  BY PassStays DEF Next
<1>5. (OneAccepted /\ QueueInv /\ StoppedInv)'
  BY <1>1 DEF OneAccepted, QueueInv, StoppedInv
<1>6. CloseAsked'  BY <1>1 DEF CloseAsked
<1> QED  BY <1>2, <1>3, <1>4, <1>5, <1>6

\* A job that panics drops jobs of one loop, and dropped remembers whose.
LEMMA JobPanicsInv ==
    ASSUME Inv, NEW l \in Loops, JobPanics(l)
    PROVE  Inv'
<1> USE DEF JobPanics, AfterPanic, OpenOn, Inv, runVars, stopVars, history
<1>1. \A c \in Conns : conn'[c] \in {conn[c], "gone"} /\ (conn[c] = "accepted" => l # Listener)
  BY DEF TypeOK
<1>2. /\ taken' \in [Loops -> SUBSET (Stoppers \cup Conns)]
      /\ \A m \in Loops : taken'[m] = {} \/ (m # l /\ taken'[m] = taken[m])
  BY DEF TypeOK
<1>3. /\ loop' \in [Loops -> {"off", "spawned", "polling", "event", "wakeup", "accept",
                              "ended", "died"}]
      /\ \A m \in Loops : m # l => loop'[m] = loop[m]
  BY DEF TypeOK
<1>4. TypeOK'
  <2>1. \A m \in Loops : taken'[m] # {} => loop'[m] \in {"event", "wakeup"}
    BY <1>2, <1>3 DEF TypeOK
  <2>2. \A c \in Conns : conn'[c] = "accepted" => loop'[Listener] = "accept"
    BY <1>1, <1>3, HomeIsLoop DEF TypeOK
  <2>3. conn' \in [Conns -> {"new", "accepted", "open", "gone"}]  BY DEF TypeOK
  <2> QED  BY <1>2, <1>3, <2>1, <2>2, <2>3 DEF TypeOK
<1>5. SpawnInv'  BY DEF TypeOK, SpawnInv
<1>6. PassInv'  BY PassStays DEF Next, LoopNext
<1>7. (OneAccepted /\ StoppedInv)'  BY <1>1 DEF OneAccepted, StoppedInv
<1>8. QueueInv'  BY <1>2, HomeIsLoop DEF QueueInv
<1>9. CloseAsked'
  <2> SUFFICES ASSUME NEW c \in Conns, conn'[c] = "open", home[c] \in ranged
               PROVE  c \in jobs[home[c]] \cup taken'[home[c]] \cup dropped'
    BY DEF CloseAsked
  <2>1. c \in jobs[home[c]] \cup taken[home[c]] \cup dropped  BY <1>1 DEF CloseAsked
  <2>2. home[c] \in Loops  BY HomeIsLoop DEF TypeOK
  <2>3. CASE home[c] = l  BY <2>1, <2>3
  <2>4. CASE home[c] # l
    <3>1. taken'[home[c]] = taken[home[c]]  BY <2>2, <2>4 DEF TypeOK
    <3> QED  BY <2>1, <3>1
  <2> QED  BY <2>3, <2>4
<1> QED  BY <1>4, <1>5, <1>6, <1>7, <1>8, <1>9

\* A panic on the listener loop drops no job of a connection's loop.
LEMMA RunJobInv ==
    ASSUME Inv, NEW l \in Loops, NEW j \in taken[l], RunJob(l, j)
    PROVE  Inv'
<1>1. Conns \cap Stoppers = {}  BY ServerAssumption DEF Stoppers
<1>2. UNCHANGED <<runVars, loop, running, woken, jobs, eventHandling, nextLoop, home, stopVars, ranged,
                refused, dropped>>
  BY DEF RunJob
<1>3. taken' = [taken EXCEPT ![l] = IF doubleClose' # doubleClose THEN {} ELSE @ \ {j}]
  BY DEF RunJob
<1>4. \/ /\ j \in Stoppers /\ TcpStopJob /\ conn' = conn
      \/ /\ j \in Conns
         /\ conn' = IF conn[j] = "open" THEN [conn EXCEPT ![j] = "gone"] ELSE conn
         /\ UNCHANGED <<acceptFd, stopped, doubleClose>>
  BY DEF RunJob
<1>5. taken' \in [Loops -> SUBSET (Stoppers \cup Conns)]
      /\ \A m \in Loops : taken'[m] \subseteq taken[m]
  BY <1>3 DEF Inv, TypeOK
<1>6. /\ conn' \in [Conns -> {"new", "accepted", "open", "gone"}]
      /\ \A c \in Conns : conn'[c] \in {conn[c], "gone"}
  BY <1>4 DEF Inv, TypeOK
<1>7. /\ acceptFd' \in {"open", "closed", "taken"} /\ stopped' \in BOOLEAN
      /\ doubleClose' \in BOOLEAN /\ StoppedInv'
  <2>1. CASE TcpStopJob /\ acceptFd # "closed"
    <3>1. acceptFd' = "closed" /\ stopped' = TRUE  BY <2>1 DEF TcpStopJob
    <3>2. doubleClose' = (doubleClose \/ stopped)  BY <2>1 DEF TcpStopJob
    <3>3. doubleClose' \in BOOLEAN  BY <3>2, Zenon
    <3> QED  BY <3>1, <3>3 DEF StoppedInv
  <2>2. CASE UNCHANGED <<acceptFd, stopped, doubleClose>>
    BY <2>2 DEF Inv, TypeOK, StoppedInv
  <2> QED  BY <1>4, <2>1, <2>2 DEF TcpStopJob
<1>8. TypeOK'
  <2>1. \A c \in Conns : conn'[c] = "accepted" => loop'[Listener] = "accept"
    BY <1>2, <1>6 DEF Inv, TypeOK
  <2>2. \A m \in Loops : taken'[m] # {} => loop'[m] \in {"event", "wakeup"}
    BY <1>2, <1>5 DEF Inv, TypeOK
  <2> QED
    BY <1>2, <1>5, <1>6, <1>7, <2>1, <2>2 DEF Inv, TypeOK, runVars, stopVars
<1>9. (SpawnInv /\ OneAccepted)'
  BY <1>2, <1>6 DEF Inv, SpawnInv, OneAccepted, runVars
<1>10. QueueInv'  BY <1>2, <1>5, HomeIsLoop DEF Inv, QueueInv
<1>11. PassInv'  BY <1>2, PassStays DEF Next, LoopNext, stopVars
<1>12. CloseAsked'
  <2> SUFFICES ASSUME NEW c \in Conns, conn'[c] = "open", home[c] \in ranged
               PROVE  c \in jobs[home[c]] \cup taken'[home[c]] \cup dropped
    BY <1>2 DEF CloseAsked
  <2>1. conn[c] = "open" /\ c # j
    BY <1>1, <1>4, <1>6 DEF Inv, TypeOK
  <2>2. home[c] \in Loops /\ home[c] \in ConnectLoops  BY HomeIsLoop DEF Inv, TypeOK
  <2>3. c \in jobs[home[c]] \cup taken[home[c]] \cup dropped  BY <2>1 DEF Inv, CloseAsked
  <2>4. CASE home[c] = l
    <3>1. j \notin Stoppers  BY <2>2, <2>4 DEF Inv, QueueInv
    <3>2. taken'[l] = taken[l] \ {j}  BY <1>3, <1>4, <3>1 DEF Inv, TypeOK
    <3> QED  BY <2>1, <2>3, <2>4, <3>2
  <2>5. CASE home[c] # l
    <3>1. taken'[home[c]] = taken[home[c]]  BY <1>3, <2>2, <2>5 DEF Inv, TypeOK
    <3> QED  BY <2>3, <3>1
  <2> QED  BY <2>4, <2>5
<1> QED  BY <1>7, <1>8, <1>9, <1>10, <1>11, <1>12 DEF Inv

LEMMA EndTurnInv ==
    ASSUME Inv, NEW l \in Loops, EndTurn(l)
    PROVE  Inv'
<1> USE DEF EndTurn, Inv, runVars, acceptVars, stopVars, history
<1>1. TypeOK'  BY DEF TypeOK
<1>2. SpawnInv'  BY DEF TypeOK, SpawnInv
<1>3. PassInv'  BY PassStays DEF Next, LoopNext
<1>4. (OneAccepted /\ QueueInv /\ StoppedInv /\ CloseAsked)'
  BY DEF OneAccepted, QueueInv, StoppedInv, CloseAsked
<1> QED  BY <1>1, <1>2, <1>3, <1>4

LEMMA AcceptInv ==
    ASSUME Inv, NEW c \in Conns, Accept(c)
    PROVE  Inv'
<1> USE DEF Accept, Inv, runVars, stopVars, history
<1>1. NextIndex(nextLoop) \in ConnectLoops
  BY ServerAssumption DEF TypeOK, NextIndex, ConnectLoops
<1>2. \A d \in Conns : conn[d] # "accepted"  BY DEF TypeOK
<1>3. TypeOK'  BY <1>1, HomeIsLoop DEF TypeOK
<1>4. (SpawnInv /\ OneAccepted)'  BY <1>2, HomeIsLoop DEF TypeOK, SpawnInv, OneAccepted
<1>5. PassInv'  BY PassStays DEF Next
<1>6. (QueueInv /\ StoppedInv)'  BY DEF QueueInv, StoppedInv
<1>7. CloseAsked'  BY DEF TypeOK, CloseAsked
<1> QED  BY <1>3, <1>4, <1>5, <1>6, <1>7

LEMMA BindInv ==
    ASSUME Inv, NEW c \in Conns, Bind(c)
    PROVE  Inv'
<1>1. /\ conn[c] = "accepted" /\ conn' = [conn EXCEPT ![c] = "open"]
      /\ Take(Listener, "event")
      /\ UNCHANGED <<runVars, running, woken, acceptFd, stopped, nextLoop, home, stopVars, history>>
  BY DEF Bind
<1>2. /\ loop[Listener] = "accept"
      /\ \A d \in Conns : conn[d] = "accepted" => d = c
  BY <1>1 DEF Inv, TypeOK, OneAccepted
<1>3. /\ loop' \in [Loops -> {"off", "spawned", "polling", "event", "wakeup", "accept",
                              "ended", "died"}]
      /\ jobs' \in [Loops -> SUBSET (Stoppers \cup Conns)]
      /\ taken' \in [Loops -> SUBSET (Stoppers \cup Conns)]
      /\ eventHandling' \in [Loops -> BOOLEAN]
      /\ \A m \in Loops : taken'[m] # {} => loop'[m] \in {"event", "wakeup"}
      /\ \A m \in Loops : jobs'[m] \cup taken'[m] = jobs[m] \cup taken[m]
      /\ SpawnInv' /\ QueueInv'
  <2>1. spawned' = spawned  BY <1>1 DEF runVars
  <2> QED  BY <1>1, <1>2, <2>1, HomeIsLoop, TakeInv
<1>4. \A d \in Conns : conn'[d] # "accepted"  BY <1>1, <1>2 DEF Inv, TypeOK
<1>5. TypeOK'
  BY <1>1, <1>3, <1>4 DEF Inv, TypeOK, runVars, stopVars, history
<1>6. (OneAccepted /\ StoppedInv)'  BY <1>1, <1>4 DEF Inv, OneAccepted, StoppedInv
<1>7. PassInv'  BY <1>1, HomeIsLoop, PassStays DEF Next, LoopNext, stopVars, history
<1>8. CloseAsked'
  <2> SUFFICES ASSUME NEW d \in Conns, conn'[d] = "open", home[d] \in ranged
               PROVE  d \in jobs'[home[d]] \cup taken'[home[d]] \cup dropped
    BY <1>1 DEF CloseAsked, history
  <2>1. home[d] \in ConnectLoops /\ home[d] \in Loops  BY HomeIsLoop DEF Inv, TypeOK
  <2>2. Gone(Listener)  BY <2>1 DEF Inv, PassInv
  <2> QED  BY <1>2, <2>2 DEF Gone
<1> QED  BY <1>3, <1>5, <1>6, <1>7, <1>8 DEF Inv

LEMMA OnConnectPanicsInv ==
    ASSUME Inv, NEW c \in Conns, OnConnectPanics(c)
    PROVE  Inv'
<1> USE DEF OnConnectPanics, AfterPanic, Inv, runVars, stopVars, history
<1>1. /\ loop[Listener] = "accept"
      /\ \A d \in Conns : conn'[d] # "accepted"
  BY DEF TypeOK, OneAccepted
<1>2. TypeOK'  BY <1>1, HomeIsLoop DEF TypeOK
<1>3. SpawnInv'  BY <1>1, HomeIsLoop DEF TypeOK, SpawnInv
<1>4. PassInv'  BY HomeIsLoop, PassStays DEF Next, LoopNext
<1>5. (OneAccepted /\ QueueInv /\ StoppedInv)'
  BY <1>1 DEF OneAccepted, QueueInv, StoppedInv
<1>6. CloseAsked'  BY DEF TypeOK, CloseAsked
<1> QED  BY <1>2, <1>3, <1>4, <1>5, <1>6

\* The listener's turn for a connection besides Conns.
LEMMA AcceptAnotherInv ==
    ASSUME Inv, AcceptAnother
    PROVE  Inv'
<1>1. /\ loop[Listener] = "polling" /\ nextLoop' = NextIndex(nextLoop) /\ Take(Listener, "event")
      /\ UNCHANGED <<runVars, running, woken, acceptFd, stopped, conn, home, stopVars, history>>
  BY DEF AcceptAnother
<1>2. NextIndex(nextLoop) \in ConnectLoops
  BY ServerAssumption DEF Inv, TypeOK, NextIndex, ConnectLoops
<1>3. /\ loop' \in [Loops -> {"off", "spawned", "polling", "event", "wakeup", "accept",
                              "ended", "died"}]
      /\ jobs' \in [Loops -> SUBSET (Stoppers \cup Conns)]
      /\ taken' \in [Loops -> SUBSET (Stoppers \cup Conns)]
      /\ eventHandling' \in [Loops -> BOOLEAN]
      /\ \A m \in Loops : taken'[m] # {} => loop'[m] \in {"event", "wakeup"}
      /\ \A m \in Loops : jobs'[m] \cup taken'[m] = jobs[m] \cup taken[m]
      /\ SpawnInv' /\ QueueInv'
  <2>1. spawned' = spawned  BY <1>1 DEF runVars
  <2> QED  BY <1>1, <2>1, HomeIsLoop, TakeInv
<1>4. \A c \in Conns : conn[c] # "accepted"  BY <1>1 DEF Inv, TypeOK
<1>5. TypeOK'
  BY <1>1, <1>2, <1>3, <1>4 DEF Inv, TypeOK, runVars, stopVars, history
<1>6. (OneAccepted /\ StoppedInv)'  BY <1>1 DEF Inv, OneAccepted, StoppedInv
<1>7. PassInv'  BY <1>1, PassStays DEF Next, stopVars, history
<1>8. CloseAsked'
  BY <1>1, <1>3, HomeIsLoop DEF Inv, TypeOK, CloseAsked, history
<1> QED  BY <1>3, <1>5, <1>6, <1>7, <1>8 DEF Inv

LEMMA TakeNumberInv ==
    ASSUME Inv, TakeNumber
    PROVE  Inv'
BY DEF TakeNumber, Inv, TypeOK, SpawnInv, OneAccepted, QueueInv, PassInv, StoppedInv, CloseAsked,
       Gone, runVars, loopVars, stopVars, history

\* Stop only looks at the loops, but in Range and PollerClose.
LEMMA StopOnlyLooks ==
    ASSUME Inv, UNCHANGED <<runVars, loopVars, acceptVars, tcpCalls, history>>,
           stopPc' \in {"range", "wait", "stopped", "failed", "panicked"}, k' \in Loops,
           PassInv'
    PROVE  Inv'
BY DEF Inv, TypeOK, SpawnInv, OneAccepted, QueueInv, StoppedInv, CloseAsked, Gone,
       runVars, loopVars, acceptVars, history

\* Going on from a loop that is done with keeps PassInv.
LEMMA GoOnInv ==
    ASSUME Inv, GoOn, UNCHANGED <<loop, ranged>>, stopPc \in {"close", "waitDone"},
           refused \subseteq refused',
           Gone(k) \/ (k \in refused' /\ k # Listener)
    PROVE  PassInv' /\ k' \in Loops /\ stopPc' \in {"range", "wait"}
<1> USE ServerAssumption
<1>1. k \in Loops  BY DEF Inv, TypeOK
<1>2. Gone(Listener)  BY DEF Inv, PassInv
<1>3. \A l \in ConnectLoops : l \in ranged' => Gone(Listener)'  BY <1>2 DEF Gone
<1>4. CASE k = N - 1
  <2>1. stopPc' = "wait" /\ k' = k  BY <1>4 DEF GoOn
  <2>2. k # Listener  BY <1>4 DEF Listener
  <2>3. \A l \in 0..k - 1 : Gone(l) \/ l \in refused  BY <2>2 DEF Inv, PassInv
  <2>4. \A l \in Loops : l = Listener \/ l = k \/ l \in 0..k - 1
    BY <1>4 DEF Loops, Listener
  <2>5. \A l \in Loops : Gone(l) \/ l \in refused'  BY <1>2, <2>3, <2>4
  <2> QED  BY <1>1, <1>3, <2>1, <2>5 DEF PassInv, Gone
<1>5. CASE k # N - 1 /\ k = Listener
  <2>1. stopPc' = "range" /\ k' = 0  BY <1>5 DEF GoOn, Following
  <2> QED  BY <1>2, <1>3, <2>1 DEF PassInv, Gone, Loops
<1>6. CASE k # N - 1 /\ k # Listener
  <2>1. stopPc' = "range" /\ k' = k + 1  BY <1>6 DEF GoOn, Following
  <2>2. k + 1 \in Loops  BY <1>1, <1>6 DEF Loops, Listener
  <2>3. \A l \in 0..k - 1 : Gone(l) \/ l \in refused  BY <1>6 DEF Inv, PassInv
  <2>4. \A l \in 0..k' - 1 : l = k \/ l \in 0..k - 1  BY <1>1, <2>1 DEF Loops
  <2>5. \A l \in 0..k' - 1 : Gone(l) \/ l \in refused'  BY <2>3, <2>4
  <2> QED  BY <1>2, <1>3, <2>1, <2>2, <2>5 DEF PassInv, Gone
<1> QED  BY <1>4, <1>5, <1>6

LEMMA WsStopInv ==
    ASSUME Inv, WsStop
    PROVE  Inv'
<1>1. PassInv'
  BY DEF WsStop, Inv, PassInv, Gone, loopVars, history
<1>2. k' \in Loops /\ stopPc' \in {"range", "failed", "panicked"}
  BY HomeIsLoop DEF WsStop, Inv, TypeOK
<1> QED  BY <1>1, <1>2, StopOnlyLooks DEF WsStop

LEMMA RangeInv ==
    ASSUME Inv, Range
    PROVE  Inv'
<1> DEFINE here == OpenOn(k)
<1>0. k \in Loops  BY DEF Inv, TypeOK
<1>1. /\ UNCHANGED <<runVars, loop, running, taken, eventHandling, acceptVars, k, tcpCalls,
                      refused, doubleClose>>
      /\ dropped' = dropped \ here
      /\ stopPc = "range" /\ stopPc' = "close" /\ ranged' = ranged \cup {k}
  BY DEF Range
<1>2. /\ jobs' \in [Loops -> SUBSET (Stoppers \cup Conns)]
      /\ woken' \in [Loops -> BOOLEAN]
      /\ (SpawnInv /\ OneAccepted /\ QueueInv /\ StoppedInv)'
      /\ \A m \in Loops : jobs[m] \subseteq jobs'[m]
      /\ here \subseteq jobs'[k]
  <2>1. CASE here = {}
    <3>1. UNCHANGED <<jobs, woken>>  BY <2>1 DEF Range
    <3> QED
      BY <1>1, <2>1, <3>1
      DEF Inv, TypeOK, SpawnInv, OneAccepted, QueueInv, StoppedInv, runVars, acceptVars
  <2>2. CASE here # {}
    <3>1. Push(k, here)  BY <2>2 DEF Range
    <3>2. here \subseteq Conns  BY DEF OpenOn
    <3> HIDE DEF here
    <3> QED  BY <1>0, <1>1, <3>1, <3>2, PushInv
  <2> QED  BY <2>1, <2>2
<1>3. TypeOK'
  BY <1>0, <1>1, <1>2 DEF Inv, TypeOK, runVars, acceptVars
<1>4. PassInv'
  BY <1>0, <1>1, HomeIsLoop DEF Inv, PassInv, Gone
<1>5. CloseAsked'
  BY <1>1, <1>2, HomeIsLoop DEF Inv, TypeOK, CloseAsked, OpenOn, acceptVars
<1> QED  BY <1>2, <1>3, <1>4, <1>5 DEF Inv

LEMMA PollerCloseInv ==
    ASSUME Inv, PollerClose
    PROVE  Inv'
<1>0. k \in Loops  BY DEF Inv, TypeOK
<1>1. /\ stopPc = "close"
      /\ UNCHANGED <<runVars, loop, jobs, taken, eventHandling, acceptVars, tcpCalls, ranged,
                      doubleClose, dropped>>
  BY DEF PollerClose
<1>2. CASE running[k]
  <2>1. /\ running' = [running EXCEPT ![k] = FALSE] /\ woken' = [woken EXCEPT ![k] = TRUE]
        /\ stopPc' = "waitDone" /\ UNCHANGED <<k, refused>>
    BY <1>2 DEF PollerClose
  <2>2. PassInv'  BY <1>1, <2>1 DEF Inv, PassInv, Gone
  <2>3. TypeOK'  BY <1>1, <2>1 DEF Inv, TypeOK, runVars, acceptVars
  <2> QED
    BY <1>1, <2>2, <2>3
    DEF Inv, SpawnInv, OneAccepted, QueueInv, StoppedInv, CloseAsked, runVars, acceptVars
<1>3. CASE ~running[k]
  <2>1. /\ refused' = refused \cup {k} /\ UNCHANGED <<running, woken>>
        /\ IF k = Listener THEN stopPc' = "failed" /\ UNCHANGED k ELSE GoOn
    BY <1>3 DEF PollerClose
  <2>2. PassInv' /\ k' \in Loops /\ stopPc' \in {"range", "wait", "failed"}
    <3>1. CASE k = Listener  BY <1>0, <1>1, <2>1, <3>1 DEF Inv, PassInv, Gone
    <3>2. CASE k # Listener  BY <1>1, <2>1, <3>2, GoOnInv
    <3> QED  BY <3>1, <3>2
  <2>3. TypeOK'  BY <1>0, <1>1, <2>1, <2>2 DEF Inv, TypeOK, runVars, acceptVars
  <2> QED
    BY <1>1, <2>2, <2>3
    DEF Inv, SpawnInv, OneAccepted, QueueInv, StoppedInv, CloseAsked, runVars, acceptVars
<1> QED  BY <1>2, <1>3

LEMMA WaitDoneInv ==
    ASSUME Inv, WaitDone
    PROVE  Inv'
<1>1. Gone(k) /\ GoOn /\ stopPc = "waitDone"  BY DEF WaitDone, Gone
<1>2. UNCHANGED <<runVars, loopVars, acceptVars, tcpCalls, history>>  BY DEF WaitDone
<1>3. PassInv' /\ k' \in Loops /\ stopPc' \in {"range", "wait"}
  BY <1>1, <1>2, GoOnInv DEF loopVars, history
<1> QED  BY <1>2, <1>3, StopOnlyLooks

LEMMA WaitStoppedInv ==
    ASSUME Inv, WaitStopped
    PROVE  Inv'
<1>1. PassInv'  BY DEF WaitStopped, Inv, PassInv, Gone, loopVars, history
<1>2. k' \in Loops /\ stopPc' = "stopped"  BY DEF WaitStopped, Inv, TypeOK
<1> QED  BY <1>1, <1>2, StopOnlyLooks DEF WaitStopped

LEMMA NextInv ==
    ASSUME Inv, [Next]_vars
    PROVE  Inv'
<1>1. CASE StopNext
  BY <1>1, WsStopInv, RangeInv, PollerCloseInv, WaitDoneInv, WaitStoppedInv DEF StopNext
<1>2. ASSUME NEW l \in Loops, LoopNext(l) \/ Event(l) \/ HandlerPanics(l)
      PROVE  Inv'
  BY <1>2, EnterPollInv, TurnInv, EndTurnInv, RunJobInv, JobPanicsInv, HandlerPanicsInv,
     BindInv, OnConnectPanicsInv
  DEF LoopNext
<1>3. CASE UNCHANGED vars
  BY <1>3 DEF Inv, TypeOK, SpawnInv, OneAccepted, QueueInv, PassInv, StoppedInv, CloseAsked,
              Gone, vars, runVars, loopVars, acceptVars, stopVars, history
<1> QED
  BY <1>1, <1>2, <1>3, RunInv, TakeNumberInv, AcceptInv, AcceptAnotherInv, TriggerInv,
     TcpStopInv
  DEF Next

LEMMA Invariance == Spec => []Inv
BY InitInv, NextInv, PTL DEF Spec

\* Every variable keeps a value that the code can give it, in particular
\* nextLoopIndex an index of connectLoops.
THEOREM TypeCorrect == Spec => []TypeOK
<1>1. Inv => TypeOK  BY DEF Inv
<1> QED  BY <1>1, Invariance, PTL

\* When Stop returns without an error, no loop runs any more that was in Poll
\* when Stop came to it.
THEOREM NoLoopLeft == Spec => []LoopsEnd
<1>1. Inv => LoopsEnd  BY DEF Inv, PassInv, LoopsEnd, Gone
<1> QED  BY <1>1, Invariance, PTL

\* Stop misses no connection: BindHandler on the listener loop comes before Stop
\* looks at the handlers of the connection's loop, or not at all, and only a
\* panic of OnClose in another job can drop the Close job that it pushes.
THEOREM EveryConnAsked == Spec => []CloseAsked
<1>1. Inv => CloseAsked  BY DEF Inv
<1> QED  BY <1>1, Invariance, PTL

\* Stopped is closed twice only if the number of the listening descriptor has
\* been given out again.
THEOREM SecondStop == Spec => SecondStopIsHarmless
<1>1. ASSUME Inv, [Next]_vars, doubleClose' # doubleClose
      PROVE  acceptFd = "taken"
  <2>1. PICK l \in Loops : \E j \in taken[l] : RunJob(l, j)
    BY <1>1
    DEF Next, vars, history, RunNext, StartWs, Spawn, StopNext, WsStop, Range, PollerClose,
        WaitDone, WaitStopped, TakeNumber, LoopNext, EnterPoll, Wakeup, EndTurn, Bind,
        OnConnectPanics, HandlerPanics, JobPanics, Event, Accept, AcceptAnother, Trigger, TcpStop
  <2>2. TcpStopJob  BY <1>1, <2>1 DEF RunJob
  <2>3. acceptFd # "closed" /\ doubleClose' = (doubleClose \/ stopped)
    BY <1>1, <2>2 DEF TcpStopJob
  <2>4. doubleClose \in BOOLEAN  BY <1>1 DEF Inv, TypeOK
  <2>5. stopped  BY <1>1, <2>3, <2>4, Zenon
  <2> QED  BY <1>1, <2>3, <2>5 DEF Inv, TypeOK, StoppedInv
<1>2. Inv /\ [Next]_vars => [doubleClose' # doubleClose => acceptFd = "taken"]_vars
  BY <1>1
<1> QED  BY <1>2, Invariance, PTL DEF Spec, SecondStopIsHarmless
=============================================================================
