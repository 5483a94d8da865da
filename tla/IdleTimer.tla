----------------------------- MODULE IdleTimer -----------------------------
(***************************************************************************)
(* The idle timer of a connection, closeTimeoutConn of conn.go and of      *)
(* conn_ws.go: a timer of the timing wheel that compares the wall clock    *)
(* with activeTime, the whole second of the last event, and closes the     *)
(* connection or arms itself again for the rest of ConnIdleTime.  Close of *)
(* a WSConn closes it there and then; that of a TCPConn only leaves a job  *)
(* to the event loop, which runs it when it gets to it, or never if a job  *)
(* before it panics.                                                       *)
(*                                                                         *)
(* now is real time.  time.Now() is compared with time.Unix(activeTime),   *)
(* which has no monotonic reading, so the difference is one of wall clocks *)
(* and follows every setting of the clock: it is at most MaxSkew off now.  *)
(***************************************************************************)
EXTENDS Integers

CONSTANTS
    Second,      \* clock units of a second
    Idle,        \* ConnIdleTime
    Jitter,      \* how early or late the timing wheel runs a function
    MaxSkew,     \* bound on what the wall clock is off
    MaxNow       \* bound on the time considered

ASSUME TimeAssumption ==
    /\ Second \in Nat \ {0} /\ Idle \in Nat \ {0}
    /\ Jitter \in Nat /\ MaxSkew \in Nat /\ MaxNow \in Nat

VARIABLES
    now, skew,
    kind,            \* "tcp" or "ws"
    connected,
    job,             \* the timer's Close job: "none", "queued", "dropped"
    activeTime,      \* c.activeTime, in clock units, a multiple of Second
    deadline,        \* when the timer is due
    pc,              \* "armed", or in closeTimeoutConn: "compare", "close"; "off"
    (* history *)
    lastActive,      \* when the last event was
    seenActive       \* lastActive when the timer compared

clock == <<now, skew>>
timer == <<deadline, pc, seenActive>>
conn == <<kind, connected, job>>
vars == <<clock, conn, activeTime, timer, lastActive>>

Wall == now + skew

\* time.Unix of time.Unix(): rounded down to a second.
Unix(t) == t - (t % Second)

Init ==
    /\ now = 0 /\ skew \in -MaxSkew..MaxSkew
    /\ kind \in {"tcp", "ws"}
    /\ connected = TRUE /\ job = "none"
    /\ activeTime = Unix(Wall)
    /\ deadline = Idle
    /\ pc = "armed"
    /\ lastActive = 0 /\ seenActive = 0

\* Handle, or a message of msgLoop.
Active ==
    /\ activeTime' = Unix(Wall)
    /\ lastActive' = now
    /\ UNCHANGED <<clock, conn, timer>>

\* Somebody else closes the connection.
CloseElsewhere ==
    /\ connected
    /\ connected' = FALSE
    /\ UNCHANGED <<clock, kind, job, activeTime, timer, lastActive>>

\* closeTimeoutConn looks at connected first.
Fire ==
    /\ pc = "armed" /\ now >= deadline - Jitter
    /\ pc' = IF connected THEN "compare" ELSE "off"
    /\ UNCHANGED <<clock, conn, activeTime, deadline, seenActive, lastActive>>

\* A timer that closes whenever it fires.
ExpiredOnFire(intervals) == TRUE

Expired(intervals) == intervals >= Idle

\* A re-arming for a whole ConnIdleTime.
RestWhole(intervals) == Idle

\* The rest of ConnIdleTime.
Rest(intervals) == Idle - intervals

Compare ==
    /\ pc = "compare"
    /\ seenActive' = lastActive
    /\ LET intervals == Wall - activeTime
       IN  IF Expired(intervals)
           THEN pc' = "close" /\ UNCHANGED deadline
           ELSE pc' = "armed" /\ deadline' = now + Rest(intervals)
    /\ UNCHANGED <<clock, conn, activeTime, lastActive>>

\* Close of a WSConn, whatever has happened since the comparison.
CloseAtOnce ==
    /\ kind = "ws"
    /\ connected' = FALSE
    /\ UNCHANGED <<kind, job>>

\* Close of a TCPConn tests connected and gives handleClose to the loop.
CloseByJob ==
    /\ kind = "tcp"
    /\ job' = IF connected THEN "queued" ELSE job
    /\ UNCHANGED <<kind, connected>>

\* The timer's function ends with Close, and no timer is left.
TimeoutClose ==
    /\ pc = "close"
    /\ CloseAtOnce \/ CloseByJob
    /\ pc' = "off"
    /\ UNCHANGED <<clock, activeTime, deadline, seenActive, lastActive>>

\* The loop runs the job, sooner or later.
CloseJob ==
    /\ job = "queued"
    /\ connected' = FALSE /\ job' = "none"
    /\ UNCHANGED <<clock, kind, activeTime, timer, lastActive>>

\* A job taken before it panics, and the rest of the batch goes with it.
DropJob ==
    /\ job = "queued"
    /\ job' = "dropped"
    /\ UNCHANGED <<clock, kind, connected, activeTime, timer, lastActive>>

\* Time passes; a timer has run to its end when it is Jitter late.
Tick ==
    /\ now < MaxNow
    /\ pc = "off" \/ now < deadline + Jitter
    /\ now' = now + 1
    /\ UNCHANGED <<skew, conn, activeTime, timer, lastActive>>

\* The wall clock is set.
SetClock ==
    /\ skew' \in -MaxSkew..MaxSkew
    /\ UNCHANGED <<now, conn, activeTime, timer, lastActive>>

Next ==
    \/ Active \/ CloseElsewhere
    \/ Fire \/ Compare \/ TimeoutClose
    \/ CloseJob \/ DropJob
    \/ Tick \/ SetClock

Spec == Init /\ [][Next]_vars

----------------------------------------------------------------------------
\* The timer decides to close a connection only after an idle time that is
\* short of ConnIdleTime by less than a second and what the clock was off at
\* both readings.  (An event between the decision and Close is not seen.)
NotWhileActive ==
    pc = "close" => now - seenActive > Idle - Second - 2 * MaxSkew

\* A connection that is still open, and that the timer has not asked its loop
\* to close, has been idle for ConnIdleTime at most, give or take the timing
\* wheel's lateness and what the clock was off: the timer is never lost, and
\* never armed for longer than what is left.  So a WSConn is closed by then.  A
\* TCPConn is closed or has its Close job with the loop by then; the job waits
\* for the loop without a bound, and if a panic drops it no timer is left.
IdleIsClosed ==
    connected /\ job = "none" =>
        now <= lastActive + Idle + Jitter + 2 * MaxSkew
=============================================================================
