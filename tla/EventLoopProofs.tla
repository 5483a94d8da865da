-------------------------- MODULE EventLoopProofs --------------------------
(***************************************************************************)
(* Theorems about EventLoop, for every set of Trigger calls and every set  *)
(* of descriptors: type correctness, the wake-up handshake (no pushed job  *)
(* is forgotten), the implementation of JobExecutor, and that no job runs  *)
(* twice when handlers and jobs panic.                                     *)
(***************************************************************************)
EXTENDS EventLoopFaults, FiniteSetTheorems, TLAPS

LEMMA InitType == Init => TypeOK
<1> SUFFICES ASSUME Init PROVE TypeOK
  OBVIOUS
<1>1. seen \in [Jobs -> Seq(Jobs)] /\ pc \in [Jobs -> {"idle", "locked", "pushed", "wake", "done"}]
  BY DEF Init
<1>2. running \in BOOLEAN /\ wake \in BOOLEAN /\ eventHandling \in BOOLEAN
  BY DEF Init
<1> QED
  BY <1>1, <1>2, JobAssumption, FdAssumption DEF Init, TypeOK

LEMMA TypeStep == TypeOK /\ [Next]_vars => TypeOK'
<1> SUFFICES ASSUME TypeOK, [Next]_vars PROVE TypeOK'
  OBVIOUS
<1> USE JobAssumption, FdAssumption
<1>1. ASSUME NEW j \in Jobs, TriggerFromLoop(j) PROVE TypeOK'
  BY <1>1 DEF TypeOK, TriggerFromLoop, queueVars, loopVars
<1>2. ASSUME NEW j \in Jobs, PushLock(j) PROVE TypeOK'
  BY <1>2 DEF TypeOK, PushLock, loopVars
<1>3. ASSUME NEW j \in Jobs, PushUnlock(j) PROVE TypeOK'
  BY <1>3 DEF TypeOK, PushUnlock, loopVars
<1>4. ASSUME NEW j \in Jobs, CheckHandling(j) PROVE TypeOK'
  BY <1>4, ZenonT(60) DEF TypeOK, CheckHandling, Returns, queueVars, loopVars
<1>5. ASSUME NEW j \in Jobs, Wake(j) PROVE TypeOK'
  BY <1>5 DEF TypeOK, Wake, Returns, queueVars, loopVars
<1>6. CASE PollStart
  BY <1>6 DEF TypeOK, PollStart, queueVars, callVars
<1>7. CASE EpollWait
  BY <1>7 DEF TypeOK, EpollWait, queueVars, callVars
<1>8. CASE WakeHandlerRead
  BY <1>8 DEF TypeOK, WakeHandlerRead, queueVars, callVars
<1>9. CASE EndBatch
  BY <1>9 DEF TypeOK, EndBatch, queueVars, callVars
<1>10. ASSUME NEW fd \in Fds, NextEvent(fd) PROVE TypeOK'
  BY <1>10 DEF TypeOK, NextEvent, queueVars, callVars
<1>11. CASE Enter
  BY <1>11 DEF TypeOK, Enter, queueVars, callVars
<1>12. CASE Handle
  BY <1>12 DEF TypeOK, Handle, queueVars, callVars
<1>13. CASE Leave
  BY <1>13 DEF TypeOK, Leave, queueVars, callVars
<1>14. CASE TakeLock
  BY <1>14 DEF TypeOK, TakeLock, callVars
<1>15. CASE TakeUnlock
  BY <1>15 DEF TypeOK, TakeUnlock, callVars
<1>16. CASE RunJob
  BY <1>16 DEF TypeOK, RunJob, queueVars, callVars
<1>17. CASE JobsDone
  BY <1>17 DEF TypeOK, JobsDone, HandlerReturned, queueVars, callVars
<1>18. CASE StopNext
  <2>1. CASE StopCall
    BY <2>1 DEF TypeOK, StopCall, queueVars, callVars, loopVars
  <2>2. CASE PollerClose
    BY <2>2, ZenonT(60) DEF TypeOK, PollerClose, queueVars, callVars, loopVars
  <2>3. CASE CloseWake
    BY <2>3 DEF TypeOK, CloseWake, queueVars, callVars, loopVars
  <2>4. CASE CloseFds
    BY <2>4 DEF TypeOK, CloseFds, queueVars, callVars, loopVars
  <2> QED
    BY <1>18, <2>1, <2>2, <2>3, <2>4 DEF StopNext
<1>19. ASSUME NEW fd \in Fds, Arrive(fd) PROVE TypeOK'
  BY <1>19 DEF TypeOK, Arrive, queueVars, callVars, loopVars
<1>20. CASE UNCHANGED vars
  BY <1>20 DEF TypeOK, vars, queueVars, callVars, loopVars
<1> QED
  BY <1>1, <1>2, <1>3, <1>4, <1>5, <1>6, <1>7, <1>8, <1>9, <1>10, <1>11, <1>12,
     <1>13, <1>14, <1>15, <1>16, <1>17, <1>18, <1>19, <1>20
     DEF Next, CallNext, LoopNext

\* Every variable keeps to its type, and Handle is only called for a descriptor.
THEOREM TypeCorrect == Spec => []TypeOK
BY InitType, TypeStep, PTL DEF Spec

----------------------------------------------------------------------------
(* The handshake between Trigger and the loop.                             *)

\* The flag is set from handleEvent's first assignment to its second, so a
\* Trigger that finds it set has its job taken by the ExecuteJobs that follows.
FlagInv == eventHandling <=> loopPc \in {"handle", "leave"}

\* The eventfd is closed after Poll has returned, so a Wake that it refuses was
\* not needed.
StopInv == stopPc = "done" => loopPc = "exit"

\* A wake-up that is pending, a call that is still to wake, or a loop that is
\* going to take the queue: what each conjunct of the step needs of the others.
WakeInv == FlagInv /\ StopInv /\ NoLostWakeup

LEMMA WakeInvStep == TypeOK /\ TypeOK' /\ WakeInv /\ [Next]_vars => WakeInv'
<1> SUFFICES ASSUME TypeOK, WakeInv, [Next]_vars PROVE WakeInv'
  OBVIOUS
<1> USE FdAssumption DEF WakeInv, FlagInv, StopInv, NoLostWakeup, LoopWillTake, WakePending
<1>1. ASSUME NEW j \in Jobs, TriggerFromLoop(j) PROVE WakeInv'
  BY <1>1 DEF TriggerFromLoop, queueVars, loopVars
<1>2. ASSUME NEW j \in Jobs, PushLock(j) PROVE WakeInv'
  BY <1>2 DEF TypeOK, PushLock, loopVars
<1>3. ASSUME NEW j \in Jobs, PushUnlock(j) PROVE WakeInv'
  BY <1>3 DEF TypeOK, PushUnlock, loopVars
<1>4. ASSUME NEW j \in Jobs, CheckHandling(j) PROVE WakeInv'
  BY <1>4 DEF TypeOK, CheckHandling, Returns, queueVars, loopVars
<1>5. ASSUME NEW j \in Jobs, Wake(j) PROVE WakeInv'
  BY <1>5 DEF TypeOK, Wake, Returns, queueVars, loopVars
<1>6. CASE PollStart
  BY <1>6 DEF TypeOK, PollStart, queueVars, callVars
<1>7. CASE EpollWait
  BY <1>7 DEF TypeOK, EpollWait, queueVars, callVars
<1>8. CASE WakeHandlerRead
  BY <1>8 DEF TypeOK, WakeHandlerRead, queueVars, callVars
<1>9. CASE EndBatch
  BY <1>9 DEF TypeOK, EndBatch, queueVars, callVars
<1>10. ASSUME NEW fd \in Fds, NextEvent(fd) PROVE WakeInv'
  BY <1>10 DEF TypeOK, NextEvent, queueVars, callVars
<1>11. CASE Enter
  BY <1>11 DEF TypeOK, Enter, queueVars, callVars
<1>12. CASE Handle
  BY <1>12 DEF TypeOK, Handle, queueVars, callVars
<1>13. CASE Leave
  BY <1>13 DEF TypeOK, Leave, queueVars, callVars
<1>14. CASE TakeLock
  BY <1>14 DEF TypeOK, TakeLock, callVars
<1>15. CASE TakeUnlock
  BY <1>15 DEF TypeOK, TakeUnlock, callVars
<1>16. CASE RunJob
  BY <1>16 DEF TypeOK, RunJob, queueVars, callVars
<1>17. CASE JobsDone
  BY <1>17 DEF TypeOK, JobsDone, HandlerReturned, queueVars, callVars
<1>18. CASE StopNext
  BY <1>18 DEF TypeOK, StopNext, StopCall, PollerClose, CloseWake, CloseFds,
               queueVars, callVars, loopVars
<1>19. ASSUME NEW fd \in Fds, Arrive(fd) PROVE WakeInv'
  BY <1>19 DEF Arrive, queueVars, callVars, loopVars
<1>20. CASE UNCHANGED vars
  BY <1>20 DEF vars, queueVars, callVars, loopVars
<1> QED
  BY <1>1, <1>2, <1>3, <1>4, <1>5, <1>6, <1>7, <1>8, <1>9, <1>10, <1>11, <1>12,
     <1>13, <1>14, <1>15, <1>16, <1>17, <1>18, <1>19, <1>20
     DEF Next, CallNext, LoopNext

LEMMA WakeInvariant == Spec => []WakeInv
<1>1. Init => WakeInv
  BY DEF Init, WakeInv, FlagInv, StopInv, NoLostWakeup
<1> QED
  BY <1>1, WakeInvStep, TypeCorrect, PTL DEF Spec

\* A pushed job is never forgotten while the loop lives.
THEOREM WakeUpNotLost == Spec => []NoLostWakeup
<1>1. WakeInv => NoLostWakeup
  BY DEF WakeInv
<1> QED
  BY <1>1, WakeInvariant, PTL

\* Once Stop has returned, no job runs.
THEOREM QuietOnceStopped == Spec => StoppedIsQuiet
<1>1. WakeInv /\ [Next]_vars => [stopPc = "done" => UNCHANGED executed]_vars
  <2> SUFFICES ASSUME WakeInv, Next, stopPc = "done" PROVE UNCHANGED executed
    BY DEF vars
  <2>1. ~RunJob
    BY DEF WakeInv, StopInv, RunJob
  <2> QED
    BY <2>1 DEF Next, TriggerFromLoop, PushLock, CallNext, PushUnlock, CheckHandling, Wake,
                LoopNext, PollStart, EpollWait, WakeHandlerRead, EndBatch, NextEvent, Enter,
                Handle, Leave, TakeLock, TakeUnlock, JobsDone, StopNext, StopCall,
                PollerClose, CloseWake, CloseFds, Arrive, loopVars
<1> QED
  BY <1>1, WakeInvariant, PTL DEF Spec, StoppedIsQuiet

----------------------------------------------------------------------------
(* The queue: EventLoop implements JobExecutor.                            *)

LEMMA ElemsAppend ==
    ASSUME NEW S, NEW s \in Seq(S), NEW e \in S
    PROVE  Elems(Append(s, e)) = Elems(s) \cup {e}
<1> DEFINE t == Append(s, e)
<1>1. /\ DOMAIN t = DOMAIN s \cup {Len(s) + 1}
      /\ \A i \in DOMAIN s : t[i] = s[i]
      /\ t[Len(s) + 1] = e
  OBVIOUS
<1> HIDE DEF t
<1>2. Elems(t) = Elems(s) \cup {e}
  BY <1>1 DEF Elems
<1> QED
  BY <1>2 DEF t

LEMMA ElemsConcat ==
    ASSUME NEW S, NEW s \in Seq(S), NEW t \in Seq(S)
    PROVE  Elems(s \o t) = Elems(s) \cup Elems(t)
<1>1. Elems(s \o t) \subseteq Elems(s) \cup Elems(t)
  BY DEF Elems
<1>2. Elems(s) \subseteq Elems(s \o t)
  BY DEF Elems
<1>3. ASSUME NEW i \in DOMAIN t PROVE t[i] \in Elems(s \o t)
  <2>1. Len(s) + i \in DOMAIN (s \o t) /\ (s \o t)[Len(s) + i] = t[i]
    OBVIOUS
  <2> QED
    BY <2>1 DEF Elems
<1> QED
  BY <1>1, <1>2, <1>3 DEF Elems

LEMMA ElemsTail ==
    ASSUME NEW S, NEW s \in Seq(S), s # <<>>
    PROVE  Elems(Tail(s)) \subseteq Elems(s) /\ Head(s) \in Elems(s)
  BY DEF Elems

\* The lock is held by whoever stands between Lock and Unlock, and its holder
\* has the queue as it is.
LockInv ==
    /\ \A j \in Jobs : pc[j] = "locked" <=> lock = j
    /\ loopPc = "taking" <=> lock = Loop
    /\ \A j \in Jobs : pc[j] = "locked" => seen[j] = jobs

\* A job that has not been pushed is nowhere, and ExecuteJobs takes the queue
\* only when it has run what it took before.
PlaceInv ==
    /\ taken # <<>> => loopPc = "run"
    /\ \A j \in Jobs : pc[j] \in {"idle", "locked"} =>
           j \notin Elems(taken) \cup Elems(jobs) \cup Elems(executed)

QueueInv == LockInv /\ PlaceInv

\* The steps that leave the queue, its lock and what was taken from it alone.
QueueUntouched ==
    /\ UNCHANGED <<queueVars, taken, executed>>
    /\ \A j \in Jobs : pc'[j] # pc[j] => /\ pc[j] \notin {"idle", "locked"}
                                          /\ pc'[j] \notin {"idle", "locked"}
    /\ (loopPc' = "taking") <=> (loopPc = "taking")
    /\ taken # <<>> => loopPc' = "run"

LEMMA QueueInvUntouched == QueueInv /\ QueueUntouched => QueueInv'
  BY DEF QueueInv, LockInv, PlaceInv, QueueUntouched, queueVars

LEMMA InitQueue == Init => QueueInv
  BY JobAssumption DEF Init, QueueInv, LockInv, PlaceInv, Elems

LEMMA QueueInvStep == TypeOK /\ QueueInv /\ [Next]_vars => QueueInv'
<1> SUFFICES ASSUME TypeOK, QueueInv, [Next]_vars PROVE QueueInv'
  OBVIOUS
<1> USE JobAssumption
<1>1. ASSUME NEW j \in Jobs, TriggerFromLoop(j) PROVE QueueInv'
  <2>1. QueueUntouched
    BY <1>1 DEF TypeOK, TriggerFromLoop, QueueUntouched, QueueInv, PlaceInv, loopVars
  <2> QED
    BY <2>1, QueueInvUntouched
<1>2. ASSUME NEW j \in Jobs, PushLock(j) PROVE QueueInv'
  BY <1>2 DEF TypeOK, PushLock, QueueInv, LockInv, PlaceInv, loopVars
<1>3. ASSUME NEW j \in Jobs, PushUnlock(j) PROVE QueueInv'
  <2>1. Elems(jobs') = Elems(jobs) \cup {j}
    BY <1>3, ElemsAppend DEF TypeOK, PushUnlock, QueueInv, LockInv
  <2>2. LockInv'
    BY <1>3 DEF TypeOK, PushUnlock, QueueInv, LockInv, loopVars
  <2>3. PlaceInv'
    BY <1>3, <2>1 DEF TypeOK, PushUnlock, QueueInv, PlaceInv, loopVars
  <2> QED
    BY <2>2, <2>3 DEF QueueInv
<1>4. ASSUME NEW j \in Jobs, CheckHandling(j) \/ Wake(j) PROVE QueueInv'
  <2>1. QueueUntouched
    BY <1>4 DEF TypeOK, CheckHandling, Wake, Returns, QueueUntouched, QueueInv, PlaceInv, loopVars
  <2> QED
    BY <2>1, QueueInvUntouched
<1>5. CASE \/ PollStart \/ EpollWait \/ WakeHandlerRead \/ EndBatch \/ Enter \/ Handle
           \/ Leave \/ \E fd \in Fds : NextEvent(fd)
  <2>1. QueueUntouched
    BY <1>5 DEF PollStart, EpollWait, WakeHandlerRead, EndBatch, Enter, Handle, Leave,
                NextEvent, QueueUntouched, QueueInv, PlaceInv, queueVars, callVars
  <2> QED
    BY <2>1, QueueInvUntouched
<1>6. CASE TakeLock
  BY <1>6 DEF TypeOK, TakeLock, QueueInv, LockInv, PlaceInv, callVars
<1>7. CASE TakeUnlock
  <2>1. Elems(jobs') = {} /\ taken' = jobs
    BY <1>7 DEF TakeUnlock, Elems
  <2>2. LockInv'
    BY <1>7 DEF TypeOK, TakeUnlock, QueueInv, LockInv, callVars
  <2>3. PlaceInv'
    BY <1>7, <2>1 DEF TypeOK, TakeUnlock, QueueInv, PlaceInv, callVars
  <2> QED
    BY <2>2, <2>3 DEF QueueInv
<1>8. CASE RunJob
  <2>1. Elems(taken') \subseteq Elems(taken) /\ Head(taken) \in Elems(taken)
    BY <1>8, ElemsTail DEF TypeOK, RunJob
  <2>2. Elems(executed') = Elems(executed) \cup {Head(taken)}
    BY <1>8, ElemsAppend DEF TypeOK, RunJob
  <2>3. LockInv'
    BY <1>8 DEF TypeOK, RunJob, QueueInv, LockInv, queueVars, callVars
  <2>4. PlaceInv'
    BY <1>8, <2>1, <2>2 DEF TypeOK, RunJob, QueueInv, PlaceInv, queueVars, callVars
  <2> QED
    BY <2>3, <2>4 DEF QueueInv
<1>9. CASE JobsDone
  <2>1. QueueUntouched
    BY <1>9 DEF JobsDone, HandlerReturned, QueueUntouched, queueVars, callVars
  <2> QED
    BY <2>1, QueueInvUntouched
<1>10. CASE StopNext \/ (\E fd \in Fds : Arrive(fd)) \/ UNCHANGED vars
  <2>1. QueueUntouched
    BY <1>10 DEF StopNext, StopCall, PollerClose, CloseWake, CloseFds, Arrive, vars,
                 QueueUntouched, QueueInv, PlaceInv, queueVars, callVars, loopVars
  <2> QED
    BY <2>1, QueueInvUntouched
<1> QED
  BY <1>1, <1>2, <1>3, <1>4, <1>5, <1>6, <1>7, <1>8, <1>9, <1>10
     DEF Next, CallNext, LoopNext

\* Steps that move no job are stutters of the abstract queue.
LEMMA QueueStutter ==
    ASSUME UNCHANGED <<jobs, taken, executed>>
    PROVE  UNCHANGED Executor!vars
  BY DEF Executor!vars

\* Each step of the loop, the callers and Stop is a step of JobExecutor or a
\* stutter: PushUnlock submits, RunJob executes, TakeUnlock only moves the queue.
LEMMA ExecutorStep == TypeOK /\ QueueInv /\ [Next]_vars => [Executor!Next]_(Executor!vars)
<1> SUFFICES ASSUME TypeOK, QueueInv, [Next]_vars PROVE [Executor!Next]_(Executor!vars)
  OBVIOUS
<1>1. ASSUME NEW j \in Jobs, PushUnlock(j) PROVE Executor!Submit(j)
  <2>1. jobs' = Append(jobs, j) /\ UNCHANGED <<taken, executed>>
    BY <1>1 DEF PushUnlock, QueueInv, LockInv, loopVars
  <2>2. taken' \o jobs' = Append(taken \o jobs, j)
    BY <2>1 DEF TypeOK
  <2>3. j \notin Elems(taken \o jobs) \cup Elems(executed)
    BY <1>1, ElemsConcat DEF TypeOK, PushUnlock, QueueInv, PlaceInv
  <2> QED
    BY <2>1, <2>2, <2>3 DEF Executor!Submit, Executor!Elems, Elems
<1>2. ASSUME TakeUnlock PROVE UNCHANGED Executor!vars
  <2>1. taken = <<>> /\ taken' = jobs /\ jobs' = <<>> /\ UNCHANGED executed
    BY <1>2 DEF TakeUnlock, QueueInv, PlaceInv
  <2>2. taken' \o jobs' = taken \o jobs
    BY <2>1 DEF TypeOK
  <2> QED
    BY <2>1, <2>2 DEF Executor!vars
<1>3. ASSUME RunJob PROVE Executor!Execute
  <2>1. taken # <<>> /\ taken' = Tail(taken) /\ executed' = Append(executed, Head(taken))
        /\ UNCHANGED jobs
    BY <1>3 DEF RunJob, queueVars
  <2>2. /\ taken \o jobs # <<>>
        /\ Head(taken \o jobs) = Head(taken)
        /\ Tail(taken \o jobs) = Tail(taken) \o jobs
    BY <2>1 DEF TypeOK
  <2> QED
    BY <2>1, <2>2 DEF Executor!Execute
<1>4. ASSUME NEW j \in Jobs, TriggerFromLoop(j) \/ PushLock(j) \/ CheckHandling(j) \/ Wake(j)
      PROVE  UNCHANGED <<jobs, taken, executed>>
  BY <1>4 DEF TriggerFromLoop, PushLock, CheckHandling, Wake, queueVars, loopVars
<1>5. CASE \/ PollStart \/ EpollWait \/ WakeHandlerRead \/ EndBatch \/ Enter \/ Handle \/ Leave
           \/ (\E fd \in Fds : NextEvent(fd)) \/ TakeLock \/ JobsDone
  <2>1. UNCHANGED <<jobs, taken, executed>>
    BY <1>5 DEF PollStart, EpollWait, WakeHandlerRead, EndBatch, Enter, Handle, Leave,
                NextEvent, TakeLock, JobsDone, queueVars
  <2> QED
    BY <2>1, QueueStutter
<1>6. CASE StopNext \/ (\E fd \in Fds : Arrive(fd)) \/ UNCHANGED vars
  <2>1. UNCHANGED <<jobs, taken, executed>>
    BY <1>6 DEF StopNext, StopCall, PollerClose, CloseWake, CloseFds, Arrive, vars,
                queueVars, loopVars
  <2> QED
    BY <2>1, QueueStutter
<1> QED
  BY <1>1, <1>2, <1>3, <1>4, <1>5, <1>6, QueueStutter
     DEF Next, CallNext, LoopNext, Executor!Next

\* Trigger's promise: the queue with its spin lock, and the loop that empties
\* it, run every job at most once, in the order of the pushes.
THEOREM ImplementsJobExecutor == Spec => ExecutorSpec
<1>1. Init => QueueInv
  BY InitQueue
<1>2. Init => Executor!Init
  BY DEF Init, Executor!Init
<1> QED
  BY <1>1, <1>2, QueueInvStep, ExecutorStep, TypeCorrect, PTL
     DEF Spec, ExecutorSpec, Executor!Spec

----------------------------------------------------------------------------
(* Panics: a job runs at most once.                                        *)

LEMMA InjectiveAppend ==
    ASSUME NEW S, NEW s \in Seq(S), NEW e \in S, IsInjective(s), e \notin Elems(s)
    PROVE  IsInjective(Append(s, e))
  BY DEF IsInjective, Elems

LEMMA InjectiveTail ==
    ASSUME NEW S, NEW s \in Seq(S), s # <<>>, IsInjective(s)
    PROVE  IsInjective(Tail(s)) /\ Head(s) \notin Elems(Tail(s))
  BY DEF IsInjective, Elems

LEMMA InjectiveConcat ==
    ASSUME NEW S, NEW s \in Seq(S), NEW t \in Seq(S), IsInjective(s), IsInjective(t),
           Elems(s) \cap Elems(t) = {}
    PROVE  IsInjective(s \o t)
<1> SUFFICES ASSUME NEW i \in 1..Len(s) + Len(t), NEW k \in 1..Len(s) + Len(t),
                    (s \o t)[i] = (s \o t)[k]
             PROVE  i = k
  BY DEF IsInjective
<1>1. CASE i <= Len(s) /\ k <= Len(s)
  BY <1>1 DEF IsInjective
<1>2. CASE i > Len(s) /\ k > Len(s)
  BY <1>2 DEF IsInjective
<1>3. CASE i <= Len(s) /\ k > Len(s)
  BY <1>3 DEF Elems
<1>4. CASE i > Len(s) /\ k <= Len(s)
  BY <1>4 DEF Elems
<1> QED  BY <1>1, <1>2, <1>3, <1>4

LEMMA InjectiveCardinality ==
    ASSUME NEW S, NEW s \in Seq(S), IsInjective(s)
    PROVE  Cardinality(Elems(s)) = Len(s)
<1>1. s \in Bijection(1..Len(s), Elems(s))
  BY DEF Bijection, Injection, Surjection, Elems
<1>2. IsFiniteSet(1..Len(s)) /\ Cardinality(1..Len(s)) = Len(s)
  <2>1. 1 \in Int /\ Len(s) \in Nat  OBVIOUS
  <2>2. /\ IsFiniteSet(1..Len(s))
        /\ Cardinality(1..Len(s)) = IF 1 > Len(s) THEN 0 ELSE Len(s) - 1 + 1
    BY <2>1, FS_Interval
  <2> QED  BY <2>1, <2>2
<1> QED  BY <1>1, <1>2, FS_Bijection DEF ExistsBijection

\* A job is in one place of one of the three sequences.
OnceInv ==
    /\ IsInjective(executed) /\ IsInjective(taken) /\ IsInjective(jobs)
    /\ Elems(executed) \cap Elems(taken) = {}
    /\ Elems(executed) \cap Elems(jobs) = {}
    /\ Elems(taken) \cap Elems(jobs) = {}

\* The job that was taken first has run; the others are still there, or lost.
LEMMA RunKeepsOnce ==
    ASSUME TypeOK, OnceInv, taken # <<>>, UNCHANGED jobs,
           executed' = Append(executed, Head(taken)),
           taken' = Tail(taken) \/ taken' = <<>>
    PROVE  OnceInv'
<1>1. Head(taken) \in Elems(taken) /\ Elems(Tail(taken)) \subseteq Elems(taken)
      /\ Head(taken) \in Jobs
  BY ElemsTail DEF TypeOK
<1>2. IsInjective(Tail(taken)) /\ Head(taken) \notin Elems(Tail(taken))
  BY InjectiveTail DEF TypeOK, OnceInv
<1>3. IsInjective(<<>>) /\ Elems(<<>>) = {}
  BY DEF IsInjective, Elems
<1>4. Elems(executed') = Elems(executed) \cup {Head(taken)}
  BY <1>1, ElemsAppend DEF TypeOK
<1>5. IsInjective(executed')
  BY <1>1, InjectiveAppend DEF TypeOK, OnceInv
<1>6. IsInjective(taken') /\ Elems(taken') \subseteq Elems(Tail(taken))
  BY <1>2, <1>3
<1> QED  BY <1>1, <1>2, <1>4, <1>5, <1>6 DEF OnceInv

FaultInv == TypeOK /\ QueueInv /\ OnceInv

LEMMA PanicStep ==
    ASSUME FaultInv, Panic
    PROVE  FaultInv'
<1> USE JobAssumption, FdAssumption DEF FaultInv
<1>1. CASE HandlePanic
  <2>1. TypeOK'  BY <1>1 DEF HandlePanic, HandlerReturned, TypeOK, queueVars, callVars
  <2>2. QueueUntouched
    BY <1>1 DEF HandlePanic, HandlerReturned, QueueUntouched, QueueInv, PlaceInv,
                queueVars, callVars
  <2>3. OnceInv'  BY <1>1 DEF HandlePanic, OnceInv, queueVars
  <2> QED  BY <2>1, <2>2, <2>3, QueueInvUntouched
<1>2. CASE HandlePanicNotError
  <2>1. TypeOK'  BY <1>2 DEF HandlePanicNotError, RecoverEndsLoop, TypeOK, queueVars, callVars
  <2>2. QueueUntouched
    BY <1>2 DEF HandlePanicNotError, RecoverEndsLoop, QueueUntouched, QueueInv, PlaceInv,
                queueVars, callVars
  <2>3. OnceInv'  BY <1>2 DEF HandlePanicNotError, OnceInv, queueVars
  <2> QED  BY <2>1, <2>2, <2>3, QueueInvUntouched
<1>3. CASE JobPanic \/ JobPanicNotError
  <2>1. /\ loopPc = "run" /\ taken # <<>> /\ taken' = <<>>
        /\ executed' = Append(executed, Head(taken))
        /\ UNCHANGED <<queueVars, callVars>>
        /\ loopPc' # "taking"
    BY <1>3 DEF JobPanic, JobPanicNotError, HandlerReturned, RecoverEndsLoop
  <2>2. Head(taken) \in Jobs /\ Head(taken) \in Elems(taken)
    BY <2>1, ElemsTail DEF TypeOK
  <2>3. executed' \in Seq(Jobs) /\ taken' \in Seq(Jobs)
    BY <2>1, <2>2 DEF TypeOK
  <2>4. TypeOK'
    <3>1. CASE JobPanic
      BY <2>1, <2>3, <3>1 DEF JobPanic, HandlerReturned, TypeOK, queueVars, callVars
    <3>2. CASE JobPanicNotError
      BY <2>1, <2>3, <3>2 DEF JobPanicNotError, RecoverEndsLoop, TypeOK, queueVars, callVars
    <3> QED  BY <1>3, <3>1, <3>2
  <2>5. Elems(executed') = Elems(executed) \cup {Head(taken)} /\ Elems(taken') = {}
    <3>1. Elems(executed') = Elems(executed) \cup {Head(taken)}
      BY <2>1, <2>2, ElemsAppend DEF TypeOK
    <3>2. Elems(<<>>) = {}  BY DEF Elems
    <3> QED  BY <2>1, <3>1, <3>2
  <2>6. LockInv'  BY <2>1 DEF QueueInv, LockInv, queueVars, callVars
  <2>7. PlaceInv'
    BY <2>1, <2>2, <2>5 DEF QueueInv, PlaceInv, queueVars, callVars
  <2>8. OnceInv'  BY <2>1, RunKeepsOnce DEF queueVars
  <2> QED  BY <2>4, <2>6, <2>7, <2>8 DEF QueueInv
<1> QED  BY <1>1, <1>2, <1>3 DEF Panic

LEMMA OnceStep ==
    ASSUME TypeOK, QueueInv, OnceInv, [Next]_vars
    PROVE  OnceInv'
<1>1. ASSUME NEW j \in Jobs, PushUnlock(j) PROVE OnceInv'
  <2>1. jobs' = Append(jobs, j) /\ UNCHANGED <<taken, executed>>
        /\ j \notin Elems(taken) \cup Elems(jobs) \cup Elems(executed)
    BY <1>1 DEF PushUnlock, QueueInv, LockInv, PlaceInv, loopVars
  <2>2. Elems(jobs') = Elems(jobs) \cup {j} /\ IsInjective(jobs')
    BY <2>1, ElemsAppend, InjectiveAppend DEF TypeOK, OnceInv
  <2> QED  BY <2>1, <2>2 DEF OnceInv
<1>2. CASE TakeUnlock
  <2>1. taken' = jobs /\ jobs' = <<>> /\ UNCHANGED executed
    BY <1>2 DEF TakeUnlock
  <2>2. IsInjective(<<>>) /\ Elems(<<>>) = {}
    BY DEF IsInjective, Elems
  <2> QED  BY <2>1, <2>2 DEF OnceInv
<1>3. CASE RunJob
  BY <1>3, RunKeepsOnce DEF RunJob, queueVars
<1>4. CASE UNCHANGED <<jobs, taken, executed>>
  BY <1>4 DEF OnceInv
<1>5. ASSUME NEW j \in Jobs, TriggerFromLoop(j) \/ PushLock(j) \/ CheckHandling(j) \/ Wake(j)
      PROVE  OnceInv'
  BY <1>4, <1>5 DEF TriggerFromLoop, PushLock, CheckHandling, Wake, queueVars, loopVars
<1>6. CASE \/ PollStart \/ EpollWait \/ WakeHandlerRead \/ EndBatch \/ Enter \/ Handle \/ Leave
           \/ (\E fd \in Fds : NextEvent(fd)) \/ TakeLock \/ JobsDone
  BY <1>4, <1>6 DEF PollStart, EpollWait, WakeHandlerRead, EndBatch, Enter, Handle, Leave,
                    NextEvent, TakeLock, JobsDone, queueVars
<1>7. CASE StopNext \/ (\E fd \in Fds : Arrive(fd)) \/ UNCHANGED vars
  BY <1>4, <1>7 DEF StopNext, StopCall, PollerClose, CloseWake, CloseFds, Arrive, vars,
                    queueVars, loopVars
<1> QED
  BY <1>1, <1>2, <1>3, <1>5, <1>6, <1>7 DEF Next, CallNext, LoopNext

LEMMA FaultInvariant == FaultySpec => []FaultInv
<1>1. Init => FaultInv
  <2>1. Init => OnceInv  BY DEF Init, OnceInv, IsInjective, Elems
  <2> QED  BY <2>1, InitType, InitQueue DEF FaultInv
<1>2. FaultInv /\ [FaultyNext]_vars => FaultInv'
  <2>1. FaultInv /\ [Next]_vars => FaultInv'
    BY TypeStep, QueueInvStep, OnceStep DEF FaultInv
  <2> QED  BY <2>1, PanicStep DEF FaultyNext
<1> QED  BY <1>1, <1>2, PTL DEF FaultySpec

\* Handlers and jobs may panic, with an error or not: no job runs twice, for
\* what the loop drops is nowhere else, and what is left in the queue has not
\* run.
THEOREM OnceDespitePanics == FaultySpec => []AtMostOnce
<1>1. FaultInv => AtMostOnce
  <2> SUFFICES ASSUME FaultInv PROVE AtMostOnce
    OBVIOUS
  <2>1. executed \in Seq(Jobs) /\ taken \in Seq(Jobs) /\ jobs \in Seq(Jobs)
    BY DEF FaultInv, TypeOK
  <2>2. executed \o taken \in Seq(Jobs) /\ (executed \o taken) \o jobs \in Seq(Jobs)
    BY <2>1
  <2>3. IsInjective(executed \o taken)
    BY <2>1, InjectiveConcat DEF FaultInv, OnceInv
  <2>4. Elems(executed \o taken) = Elems(executed) \cup Elems(taken)
    BY <2>1, ElemsConcat
  <2>5. IsInjective((executed \o taken) \o jobs)
    BY <2>1, <2>2, <2>3, <2>4, InjectiveConcat DEF FaultInv, OnceInv
  <2>6. Cardinality(Elems((executed \o taken) \o jobs)) = Len((executed \o taken) \o jobs)
    BY <2>2, <2>5, InjectiveCardinality
  <2> QED  BY <2>6 DEF AtMostOnce
<1> QED  BY <1>1, FaultInvariant, PTL
----------------------------------------------------------------------------
(* Close and the loop that it ends, with panics                            *)

\* Once Close has cleared running, Poll cannot set it again, and the wake-up of
\* Close is in the eventfd or in the Poll that ends for it.
CloseInv ==
    /\ running => loopPc # "init"
    /\ stopPc \in {"wake", "wait", "done"} => ~running /\ loopPc # "init"
    /\ loopPc \in {"init", "wait"} => ~wake
    /\ stopPc = "wait" /\ loopPc # "exit" => eventfd > 0 \/ wake
    /\ StopInv

\* Steps of the callers, and of the loop where it does not return to Poll.
LEMMA CloseInvFrame ==
    ASSUME TypeOK, CloseInv, UNCHANGED <<running, stopPc, wake>>,
           eventfd' = eventfd \/ (eventfd' \in Nat /\ eventfd' > 0),
           loopPc' = loopPc \/ (loopPc \notin {"init", "exit"} /\ loopPc' \notin {"init", "wait"})
    PROVE  CloseInv'
BY DEF TypeOK, CloseInv, StopInv

LEMMA ReturnKeepsClose ==
    ASSUME TypeOK, CloseInv, HandlerReturned \/ RecoverEndsLoop,
           UNCHANGED <<running, stopPc, eventfd>>, loopPc \in {"handle", "run"}
    PROVE  CloseInv'
<1>1. loopPc' \in {"next", "wait", "exit"} /\ stopPc # "done"
  BY DEF CloseInv, StopInv, HandlerReturned, RecoverEndsLoop
<1>2. CASE HandlerReturned
  <2>1. CASE cur = WakeFd
    BY <1>1, <1>2, <2>1 DEF TypeOK, CloseInv, StopInv, HandlerReturned
  <2>2. CASE cur # WakeFd
    BY <1>1, <1>2, <2>2 DEF TypeOK, CloseInv, StopInv, HandlerReturned
  <2> QED  BY <2>1, <2>2
<1>3. CASE RecoverEndsLoop
  BY <1>1, <1>3 DEF TypeOK, CloseInv, StopInv, RecoverEndsLoop
<1> QED  BY <1>2, <1>3

LEMMA CloseInvStep ==
    ASSUME TypeOK, CloseInv, [FaultyNext]_vars
    PROVE  CloseInv'
<1> USE DEF queueVars, callVars, loopVars
<1>1. ASSUME NEW j \in Jobs, TriggerFromLoop(j) \/ PushLock(j) \/ PushUnlock(j) \/ CheckHandling(j)
      PROVE  CloseInv'
  BY <1>1, CloseInvFrame DEF TriggerFromLoop, PushLock, PushUnlock, CheckHandling
<1>2. ASSUME NEW j \in Jobs, Wake(j)
      PROVE  CloseInv'
  <2>1. eventfd' = eventfd \/ (eventfd' \in Nat /\ eventfd' > 0)
    BY <1>2 DEF Wake, TypeOK
  <2> QED  BY <1>2, <2>1, CloseInvFrame DEF Wake
<1>3. CASE PollStart
  BY <1>3 DEF PollStart, CloseInv, StopInv, TypeOK
<1>4. CASE EpollWait \/ Enter \/ Handle \/ Leave \/ TakeLock \/ TakeUnlock \/ RunJob
            \/ \E fd \in Fds : NextEvent(fd)
  BY <1>4, CloseInvFrame DEF EpollWait, Enter, Handle, Leave, TakeLock, TakeUnlock, RunJob, NextEvent
<1>5. CASE WakeHandlerRead
  BY <1>5 DEF WakeHandlerRead, CloseInv, StopInv
<1>6. CASE EndBatch
  <2>1. CASE wake
    BY <1>6, <2>1, CloseInvFrame DEF EndBatch
  <2>2. CASE ~wake
    BY <1>6, <2>2 DEF EndBatch, CloseInv, StopInv
  <2> QED  BY <2>1, <2>2
<1>7. CASE JobsDone
  BY <1>7, ReturnKeepsClose DEF JobsDone
<1>8. CASE StopCall
  BY <1>8 DEF StopCall, CloseInv, StopInv
<1>9. CASE PollerClose
  BY <1>9 DEF PollerClose, CloseInv, StopInv
<1>10. CASE CloseWake
  <2>1. eventfd' > 0  BY <1>10 DEF CloseWake, TypeOK
  <2> QED  BY <1>10, <2>1 DEF CloseWake, CloseInv, StopInv
<1>11. CASE CloseFds
  BY <1>11 DEF CloseFds, CloseInv, StopInv
<1>12. CASE (\E fd \in Fds : Arrive(fd)) \/ UNCHANGED vars
  BY <1>12, CloseInvFrame DEF Arrive, vars
<1>13. CASE Panic
  BY <1>13, ReturnKeepsClose
  DEF Panic, HandlePanic, JobPanic, HandlePanicNotError, JobPanicNotError
<1> QED
  BY <1>1, <1>2, <1>3, <1>4, <1>5, <1>6, <1>7, <1>8, <1>9, <1>10, <1>11, <1>12, <1>13
  DEF FaultyNext, Next, CallNext, LoopNext, StopNext

LEMMA CloseInvariant == FaultySpec => []CloseInv
<1>1. Init => CloseInv
  BY DEF Init, CloseInv, StopInv
<1>2. FaultInv /\ CloseInv /\ [FaultyNext]_vars => CloseInv'
  BY CloseInvStep DEF FaultInv
<1> QED  BY <1>1, <1>2, FaultInvariant, PTL DEF FaultySpec

\* What a loop that polls while Close waits for it collects has the wake-up, so
\* that it does not block and the batch is its last.
LastBatch == [][EpollWait /\ stopPc = "wait" => WakeFd \in batch']_vars

\* The wake-up of Close (epoll.go:81) is not lost among those of Trigger and
\* their single read, whatever handlers and jobs do and however many there are:
\* the loop that Close waits for polls at most once more.
THEOREM CloseWakeNotLost == FaultySpec => LastBatch
<1>1. TypeOK /\ CloseInv => [EpollWait /\ stopPc = "wait" => WakeFd \in batch']_vars
  BY DEF TypeOK, CloseInv, EpollWait
<1>2. FaultInv => TypeOK
  BY DEF FaultInv
<1> QED
  BY <1>1, <1>2, FaultInvariant, CloseInvariant, PTL DEF FaultySpec, LastBatch

\* Nor does a job run after Stop has returned when handlers and jobs panic.
THEOREM QuietDespitePanics == FaultySpec => StoppedIsQuiet
<1>1. CloseInv /\ [FaultyNext]_vars => [stopPc = "done" => UNCHANGED executed]_vars
  <2> SUFFICES ASSUME CloseInv, FaultyNext, stopPc = "done" PROVE UNCHANGED executed
    BY DEF vars
  <2>1. ~RunJob /\ ~JobPanic /\ ~JobPanicNotError
    BY DEF CloseInv, StopInv, RunJob, JobPanic, JobPanicNotError
  <2> QED
    BY <2>1 DEF FaultyNext, Panic, HandlePanic, HandlePanicNotError,
                Next, TriggerFromLoop, PushLock, CallNext, PushUnlock, CheckHandling, Wake,
                LoopNext, PollStart, EpollWait, WakeHandlerRead, EndBatch, NextEvent, Enter,
                Handle, Leave, TakeLock, TakeUnlock, JobsDone, StopNext, StopCall,
                PollerClose, CloseWake, CloseFds, Arrive, loopVars
<1> QED
  BY <1>1, CloseInvariant, PTL DEF FaultySpec, StoppedIsQuiet
=============================================================================
