----------------------------- MODULE EventLoop -----------------------------
(***************************************************************************)
(* pkg/eventloop and the epoll poller it runs on: one goroutine serves the *)
(* events of its file descriptors and the jobs that other goroutines hand  *)
(* it with Trigger; Stop shuts it down.                                    *)
(*                                                                         *)
(* The processes are the loop goroutine, one goroutine per Trigger call    *)
(* (or the loop itself, when a handler or a job calls Trigger), and the    *)
(* goroutine that calls Stop.  The job queue's spin lock, the              *)
(* eventHandling flag and the eventfd that wakes epoll_wait are the shared *)
(* state; each access to one of them is a step of its own.                 *)
(*                                                                         *)
(* Handlers are abstract here: Handle may or may not use up the readiness  *)
(* of its descriptor, may call Trigger, and, under FaultySpec, may panic.  *)
(***************************************************************************)
EXTENDS Naturals, Sequences

CONSTANTS
    Jobs,        \* one element per call of Trigger
    StopJobs,    \* the calls that Stop makes: Close of each registered handler
    Fds,         \* descriptors registered with the poller
    Loop,        \* the loop goroutine, as holder of the queue's lock
    WakeFd,      \* the poller's eventfd, and the -1 that handleEvent gets for it
    None         \* no job, no descriptor, nobody

ASSUME JobAssumption ==
    /\ StopJobs \subseteq Jobs
    /\ Loop \notin Jobs
    /\ None \notin Jobs
    /\ Loop # None

ASSUME FdAssumption ==
    /\ WakeFd \notin Fds
    /\ None \notin Fds
    /\ WakeFd # None

VARIABLES
    (* AsyncJobQueue *)
    lock,            \* holder of the spin lock: a Trigger call, Loop or None
    jobs,            \* queue.jobs
    seen,            \* seen[j]: queue.jobs as Push, holding the lock, read it
    (* Trigger *)
    pc,              \* pc[j]: where the call stands
    nested,          \* the call made by the loop goroutine itself, or None
    (* Poller *)
    eventfd,         \* the eventfd's counter
    running,         \* ep.running
    ready,           \* descriptors the kernel would report now
    (* Poll and handleEvent *)
    loopPc, batch, cur, wake, eventHandling, taken,
    (* Stop *)
    stopPc,
    (* history *)
    executed         \* the jobs run so far, in order

queueVars == <<lock, jobs, seen>>
callVars  == <<pc, nested>>
loopVars  == <<loopPc, batch, cur, wake, eventHandling, taken>>
vars == <<queueVars, callVars, eventfd, running, ready, loopVars, stopPc, executed>>

Elems(s) == {s[i] : i \in DOMAIN s}

Init ==
    /\ lock = None /\ jobs = <<>> /\ seen = [j \in Jobs |-> <<>>]
    /\ pc = [j \in Jobs |-> "idle"] /\ nested = None
    /\ eventfd = 0 /\ running = FALSE /\ ready = {}
    /\ loopPc = "init" /\ batch = {} /\ cur = None /\ wake = FALSE
    /\ eventHandling = FALSE /\ taken = <<>>
    /\ stopPc = "idle"
    /\ executed = <<>>

----------------------------------------------------------------------------
(* Trigger: Push the job under the queue's lock, then wake the poller      *)
(* unless an event is being handled.                                       *)

\* A handler or a job calls Trigger on its own loop, which waits for the call
\* to return.
TriggerFromLoop(j) ==
    /\ nested = None /\ pc[j] = "idle" /\ j \notin StopJobs
    /\ loopPc = "handle" \/ (loopPc = "run" /\ taken # <<>>)
    /\ nested' = j
    /\ UNCHANGED <<queueVars, pc, eventfd, running, ready, loopVars, stopPc, executed>>

\* Stop's Range closes the handlers one after the other.
MayCall(j) ==
    j \in StopJobs => /\ stopPc = "range"
                      /\ \A k \in StopJobs : pc[k] \in {"idle", "done"}

\* A Push that does not take the lock.
PushLockUnguarded(j) ==
    /\ pc[j] = "idle" /\ MayCall(j)
    /\ lock' = j
    /\ seen' = [seen EXCEPT ![j] = jobs]
    /\ pc' = [pc EXCEPT ![j] = "locked"]
    /\ UNCHANGED <<jobs, nested, eventfd, running, ready, loopVars, stopPc, executed>>

PushLock(j) ==
    /\ pc[j] = "idle" /\ MayCall(j)
    /\ lock = None
    /\ lock' = j
    /\ seen' = [seen EXCEPT ![j] = jobs]
    /\ pc' = [pc EXCEPT ![j] = "locked"]
    /\ UNCHANGED <<jobs, nested, eventfd, running, ready, loopVars, stopPc, executed>>

PushUnlock(j) ==
    /\ pc[j] = "locked"
    /\ jobs' = Append(seen[j], j)
    /\ seen' = [seen EXCEPT ![j] = <<>>]
    /\ lock' = None
    /\ pc' = [pc EXCEPT ![j] = "pushed"]
    /\ UNCHANGED <<nested, eventfd, running, ready, loopVars, stopPc, executed>>

\* The call returns to the goroutine that made it.
Returns(j) ==
    /\ pc' = [pc EXCEPT ![j] = "done"]
    /\ nested' = IF nested = j THEN None ELSE nested

CheckHandling(j) ==
    /\ pc[j] = "pushed"
    /\ IF eventHandling
       THEN Returns(j)
       ELSE pc' = [pc EXCEPT ![j] = "wake"] /\ UNCHANGED nested
    /\ UNCHANGED <<queueVars, eventfd, running, ready, loopVars, stopPc, executed>>

\* The write fails, with no effect, once Close has closed the eventfd.
Wake(j) ==
    /\ pc[j] = "wake"
    /\ eventfd' = IF stopPc = "done" THEN eventfd ELSE eventfd + 1
    /\ Returns(j)
    /\ UNCHANGED <<queueVars, running, ready, loopVars, stopPc, executed>>

----------------------------------------------------------------------------
(* The loop goroutine: Poll calls handleEvent for each reported event and, *)
(* when the eventfd was among them, once more with fd -1.  It is blocked   *)
(* while a Trigger call of its own is under way.                           *)

PollStart ==
    /\ loopPc = "init"
    /\ running' = TRUE
    /\ loopPc' = "wait"
    /\ UNCHANGED <<queueVars, callVars, eventfd, ready, batch, cur, wake,
                   eventHandling, taken, stopPc, executed>>

\* The order in which epoll_wait lists the descriptors is not specified, so
\* the batch is a set.
EpollWait ==
    /\ loopPc = "wait"
    /\ batch' = ready \cup (IF eventfd > 0 THEN {WakeFd} ELSE {})
    /\ batch' # {}
    /\ loopPc' = "next"
    /\ UNCHANGED <<queueVars, callVars, eventfd, running, ready, cur, wake,
                   eventHandling, taken, stopPc, executed>>

WakeHandlerRead ==
    /\ loopPc = "next" /\ WakeFd \in batch
    /\ batch' = batch \ {WakeFd}
    /\ eventfd' = 0
    /\ wake' = TRUE
    /\ UNCHANGED <<queueVars, callVars, running, ready, loopPc, cur,
                   eventHandling, taken, stopPc, executed>>

NextEvent(fd) ==
    /\ loopPc = "next" /\ fd \in batch
    /\ batch' = batch \ {fd}
    /\ cur' = fd
    /\ loopPc' = "enter"
    /\ UNCHANGED <<queueVars, callVars, eventfd, running, ready, wake,
                   eventHandling, taken, stopPc, executed>>

EndBatch ==
    /\ loopPc = "next" /\ batch = {}
    /\ IF wake
       THEN cur' = WakeFd /\ loopPc' = "enter"
       ELSE loopPc' = "wait" /\ UNCHANGED cur
    /\ UNCHANGED <<queueVars, callVars, eventfd, running, ready, batch, wake,
                   eventHandling, taken, stopPc, executed>>

\* handleEvent, up to the call of Handle
Enter ==
    /\ loopPc = "enter"
    /\ eventHandling' = TRUE
    /\ loopPc' = IF cur = WakeFd THEN "leave" ELSE "handle"
    /\ UNCHANGED <<queueVars, callVars, eventfd, running, ready, batch, cur,
                   wake, taken, stopPc, executed>>

Handle ==
    /\ loopPc = "handle" /\ nested = None
    /\ ready' \in {ready, ready \ {cur}}
    /\ loopPc' = "leave"
    /\ UNCHANGED <<queueVars, callVars, eventfd, running, batch, cur, wake,
                   eventHandling, taken, stopPc, executed>>

\* A handleEvent that never clears the flag.
LeaveWithFlagSet ==
    /\ loopPc = "leave"
    /\ loopPc' = "take"
    /\ UNCHANGED <<queueVars, callVars, eventfd, running, ready, batch, cur,
                   wake, eventHandling, taken, stopPc, executed>>

\* A handleEvent that runs the queue for a wake-up only.
LeaveTakingWhenWoken ==
    /\ loopPc = "leave"
    /\ eventHandling' = FALSE
    /\ loopPc' = IF cur = WakeFd THEN "take" ELSE "run"
    /\ UNCHANGED <<queueVars, callVars, eventfd, running, ready, batch, cur,
                   wake, taken, stopPc, executed>>

Leave ==
    /\ loopPc = "leave"
    /\ eventHandling' = FALSE
    /\ loopPc' = "take"
    /\ UNCHANGED <<queueVars, callVars, eventfd, running, ready, batch, cur,
                   wake, taken, stopPc, executed>>

(* ExecuteJobs: take the whole queue under the lock, then run it unlocked. *)
TakeLock ==
    /\ loopPc = "take" /\ lock = None
    /\ lock' = Loop
    /\ loopPc' = "taking"
    /\ UNCHANGED <<jobs, seen, callVars, eventfd, running, ready, batch, cur,
                   wake, eventHandling, taken, stopPc, executed>>

\* An ExecuteJobs that leaves the queue as it is.
TakeUnlockKeepingJobs ==
    /\ loopPc = "taking"
    /\ taken' = jobs
    /\ lock' = None
    /\ loopPc' = "run"
    /\ UNCHANGED <<jobs, seen, callVars, eventfd, running, ready, batch, cur, wake,
                   eventHandling, stopPc, executed>>

TakeUnlock ==
    /\ loopPc = "taking"
    /\ taken' = jobs
    /\ jobs' = <<>>
    /\ lock' = None
    /\ loopPc' = "run"
    /\ UNCHANGED <<seen, callVars, eventfd, running, ready, batch, cur, wake,
                   eventHandling, stopPc, executed>>

RunJob ==
    /\ loopPc = "run" /\ nested = None /\ taken # <<>>
    /\ executed' = Append(executed, Head(taken))
    /\ taken' = Tail(taken)
    /\ UNCHANGED <<queueVars, callVars, eventfd, running, ready, loopPc, batch,
                   cur, wake, eventHandling, stopPc>>

\* Poll after handleEvent returns: the next event of the batch or, after the
\* call with fd -1, the test of running that ends the loop.
HandlerReturned ==
    /\ cur' = None
    /\ wake' = (wake /\ cur # WakeFd)
    /\ loopPc' = IF cur # WakeFd THEN "next" ELSE IF running THEN "wait" ELSE "exit"

JobsDone ==
    /\ loopPc = "run" /\ taken = <<>>
    /\ HandlerReturned
    /\ UNCHANGED <<queueVars, callVars, eventfd, running, ready, batch,
                   eventHandling, taken, stopPc, executed>>

----------------------------------------------------------------------------
(* Stop: close every handler, then close the poller.                       *)

StopCall ==
    /\ stopPc = "idle"
    /\ stopPc' = "range"
    /\ UNCHANGED <<queueVars, callVars, eventfd, running, ready, loopVars, executed>>

\* A Close that wakes the loop before it clears running.
PollerCloseWakesFirst ==
    \/ /\ stopPc = "range" /\ \A j \in StopJobs : pc[j] = "done"
       /\ stopPc' = IF running THEN "wake" ELSE "refused"
       /\ eventfd' = IF running THEN eventfd + 1 ELSE eventfd
       /\ UNCHANGED <<queueVars, callVars, running, ready, loopVars, executed>>
    \/ /\ stopPc = "wake"
       /\ running' = FALSE
       /\ stopPc' = "wait"
       /\ UNCHANGED <<queueVars, callVars, eventfd, ready, loopVars, executed>>

\* Close refuses with ErrClosed a poller that is not running.
PollerClose ==
    /\ stopPc = "range" /\ \A j \in StopJobs : pc[j] = "done"
    /\ stopPc' = IF running THEN "wake" ELSE "refused"
    /\ running' = FALSE
    /\ UNCHANGED <<queueVars, callVars, eventfd, ready, loopVars, executed>>

CloseWake ==
    /\ stopPc = "wake"
    /\ eventfd' = eventfd + 1
    /\ stopPc' = "wait"
    /\ UNCHANGED <<queueVars, callVars, running, ready, loopVars, executed>>

\* A Close that does not wait for Poll to return.
CloseFdsAtOnce ==
    /\ stopPc = "wait"
    /\ stopPc' = "done"
    /\ UNCHANGED <<queueVars, callVars, eventfd, running, ready, loopVars, executed>>

\* waitDone is closed when Poll returns.
CloseFds ==
    /\ stopPc = "wait" /\ loopPc = "exit"
    /\ stopPc' = "done"
    /\ UNCHANGED <<queueVars, callVars, eventfd, running, ready, loopVars, executed>>

----------------------------------------------------------------------------
\* The kernel reports a descriptor for as long as it is ready (level triggered).
Arrive(fd) ==
    /\ fd \notin ready
    /\ ready' = ready \cup {fd}
    /\ UNCHANGED <<queueVars, callVars, eventfd, running, loopVars, stopPc, executed>>

CallNext(j) == PushUnlock(j) \/ CheckHandling(j) \/ Wake(j)

LoopNext ==
    \/ PollStart \/ EpollWait \/ WakeHandlerRead \/ EndBatch
    \/ \E fd \in Fds : NextEvent(fd)
    \/ Enter \/ Handle \/ Leave
    \/ TakeLock \/ TakeUnlock \/ RunJob \/ JobsDone

StopNext == StopCall \/ PollerClose \/ CloseWake \/ CloseFds

Next ==
    \/ \E j \in Jobs : TriggerFromLoop(j) \/ PushLock(j) \/ CallNext(j)
    \/ LoopNext
    \/ StopNext
    \/ \E fd \in Fds : Arrive(fd)

Spec == Init /\ [][Next]_vars

\* The Go scheduler runs every goroutine that can run.  Nobody has to call
\* Trigger or Stop, and no event has to arrive.
Fairness ==
    /\ WF_vars(LoopNext)
    /\ \A j \in Jobs : WF_vars(CallNext(j)) /\ WF_vars(nested = j /\ PushLock(j))
    /\ WF_vars(CloseWake \/ CloseFds)

FairSpec == Spec /\ Fairness

----------------------------------------------------------------------------
\* Every variable has a value the code can give it: cur is the event that Poll
\* has handed to handleEvent, and Handle is called for descriptors only.
TypeOK ==
    /\ lock \in Jobs \cup {Loop, None}
    /\ jobs \in Seq(Jobs)
    /\ seen \in [Jobs -> Seq(Jobs)]
    /\ pc \in [Jobs -> {"idle", "locked", "pushed", "wake", "done"}]
    /\ nested \in Jobs \cup {None}
    /\ eventfd \in Nat
    /\ running \in BOOLEAN
    /\ ready \in SUBSET Fds
    /\ loopPc \in {"init", "wait", "next", "enter", "handle", "leave", "take",
                   "taking", "run", "exit"}
    /\ batch \in SUBSET (Fds \cup {WakeFd})
    /\ cur \in Fds \cup {WakeFd, None}
    /\ cur = None <=> loopPc \in {"init", "wait", "next", "exit"}
    /\ loopPc = "handle" => cur \in Fds
    /\ wake \in BOOLEAN
    /\ eventHandling \in BOOLEAN
    /\ taken \in Seq(Jobs)
    /\ stopPc \in {"idle", "range", "refused", "wake", "wait", "done"}
    /\ executed \in Seq(Jobs)

\* The loop is on its way to ExecuteJobs, with or without a wake-up.
LoopWillTake == loopPc \in {"enter", "handle", "leave", "take", "taking"}

\* The eventfd was written, or read by a Poll that has not called handleEvent
\* for it yet.
WakePending == eventfd > 0 \/ (wake /\ cur # WakeFd)

\* While the loop lives, a queued job is never forgotten: either the loop is
\* on its way to the queue, or a wake-up is pending, or a call of Trigger that
\* has pushed is still going to test the flag and wake (the handshake between
\* Trigger's eventHandling test and handleEvent's Set(false)).
NoLostWakeup ==
    jobs # <<>> /\ loopPc # "exit" =>
        \/ LoopWillTake
        \/ WakePending
        \/ \E j \in Jobs : pc[j] \in {"pushed", "wake"}

\* Trigger's promise: what the lock, the copy of the slice and the unlocked
\* run of ExecuteJobs do is accept, one after the other, and run, in that
\* order, each job once.
Executor == INSTANCE JobExecutor WITH pending <- taken \o jobs
ExecutorSpec == Executor!Spec

\* A pushed job runs, unless Stop has ended the loop.
JobsRun == \A j \in Jobs : pc[j] = "pushed" ~> j \in Elems(executed) \/ loopPc = "exit"

\* Once Stop has returned no job runs: the caller may free what jobs use.
StoppedIsQuiet == [][stopPc = "done" => UNCHANGED executed]_vars
=============================================================================
