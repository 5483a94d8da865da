-------------------------- MODULE IdleTimerProofs --------------------------
(***************************************************************************)
(* The bounds of the idle timer, for any clock unit, ConnIdleTime, error   *)
(* of the wall clock and jitter of the timing wheel.                       *)
(***************************************************************************)
EXTENDS IdleTimer, TLAPS

TypeInv ==
    /\ now \in Int /\ skew \in -MaxSkew..MaxSkew
    /\ activeTime \in Int /\ deadline \in Int
    /\ lastActive \in Int /\ seenActive \in Int
    /\ pc \in {"armed", "compare", "close", "off"}
    /\ kind \in {"tcp", "ws"} /\ connected \in BOOLEAN
    /\ job \in {"none", "queued", "dropped"}

\* activeTime is the last event's time, but for the second and the skew.
ActiveInv ==
    /\ activeTime <= lastActive + MaxSkew
    /\ activeTime > lastActive - MaxSkew - Second

\* An open connection has a timer, due when the idle time can be over, until
\* the timer has left its loop a job.  Only a TCPConn gets a job.
ArmedInv ==
    /\ connected /\ job = "none" => pc # "off"
    /\ kind = "ws" => job = "none"
    /\ pc # "off" => now <= deadline + Jitter
    /\ deadline <= lastActive + Idle + 2 * MaxSkew
    /\ lastActive <= now

Inv == TypeInv /\ ActiveInv /\ ArmedInv /\ NotWhileActive

\* Rounding to seconds loses less than a second.
LEMMA UnixRounds ==
    ASSUME NEW t \in Int
    PROVE  Unix(t) \in Int /\ Unix(t) <= t /\ Unix(t) > t - Second
BY TimeAssumption DEF Unix

LEMMA InitInv == Init => Inv
<1> SUFFICES ASSUME Init PROVE Inv  OBVIOUS
<1>1. Wall \in Int  BY TimeAssumption DEF Init, Wall
<1> QED
  BY <1>1, TimeAssumption, UnixRounds
  DEF Init, Wall, Inv, TypeInv, ActiveInv, ArmedInv, NotWhileActive

LEMMA NextInv ==
    ASSUME Inv, [Next]_vars
    PROVE  Inv'
<1> USE TimeAssumption
    DEF Inv, TypeInv, ActiveInv, ArmedInv, NotWhileActive, clock, timer, conn
<1>1. CASE Active
  <2>1. Wall \in Int /\ Wall <= now + MaxSkew /\ Wall >= now - MaxSkew  BY DEF Wall
  <2>2. activeTime' \in Int /\ activeTime' <= Wall /\ activeTime' > Wall - Second
    BY <1>1, <2>1, UnixRounds DEF Active
  <2> QED  BY <1>1, <2>1, <2>2 DEF Active
<1>2. CASE CloseElsewhere  BY <1>2 DEF CloseElsewhere
<1>3. CASE Fire  BY <1>3 DEF Fire
<1>4. CASE Compare
  <2>1. CASE Expired(Wall - activeTime)
    BY <1>4, <2>1 DEF Compare, Expired, Wall
  <2>2. CASE ~Expired(Wall - activeTime)
    BY <1>4, <2>2 DEF Compare, Expired, Rest, Wall
  <2> QED  BY <2>1, <2>2
<1>5. CASE TimeoutClose
  <2>1. CASE CloseAtOnce  BY <1>5, <2>1 DEF TimeoutClose, CloseAtOnce
  <2>2. CASE CloseByJob  BY <1>5, <2>2 DEF TimeoutClose, CloseByJob
  <2> QED  BY <1>5, <2>1, <2>2 DEF TimeoutClose
<1>6. CASE Tick  BY <1>6 DEF Tick
<1>7. CASE SetClock  BY <1>7 DEF SetClock
<1>8. CASE CloseJob  BY <1>8 DEF CloseJob
<1>9. CASE DropJob  BY <1>9 DEF DropJob
<1>10. CASE UNCHANGED vars  BY <1>10 DEF vars
<1> QED
  BY <1>1, <1>2, <1>3, <1>4, <1>5, <1>6, <1>7, <1>8, <1>9, <1>10 DEF Next

\* Both bounds below hold in every state of the timer's invariant.
LEMMA Invariance == Spec => []Inv
BY InitInv, NextInv, PTL DEF Spec

\* However often the connection is active and the clock is set, the timer
\* closes no connection that was active in the last ConnIdleTime but a second.
THEOREM ClosesOnlyIdle == Spec => []NotWhileActive
<1>1. Inv => NotWhileActive  BY DEF Inv
<1> QED  BY <1>1, Invariance, PTL

\* No connection stays open without an event for longer than ConnIdleTime and
\* the errors of the two clocks before the timer has called Close: a WSConn is
\* closed, and a TCPConn's loop has been given the job.
THEOREM IdleCloses == Spec => []IdleIsClosed
<1>1. Inv => IdleIsClosed
  BY TimeAssumption DEF Inv, TypeInv, ArmedInv, IdleIsClosed
<1> QED  BY <1>1, Invariance, PTL

\* A WSConn has that bound outright: its Close leaves nothing to a loop.
THEOREM IdleWSCloses ==
    Spec => [](kind = "ws" /\ connected =>
                   now <= lastActive + Idle + Jitter + 2 * MaxSkew)
<1>1. Inv => (kind = "ws" /\ connected =>
                  now <= lastActive + Idle + Jitter + 2 * MaxSkew)
  BY TimeAssumption DEF Inv, TypeInv, ArmedInv
<1> QED  BY <1>1, Invariance, PTL
=============================================================================
