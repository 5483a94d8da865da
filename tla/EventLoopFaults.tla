-------------------------- MODULE EventLoopFaults --------------------------
(***************************************************************************)
(* The event loop when handlers and jobs may panic.  handleEvent recovers, *)
(* but everything it had still to do is skipped; and its recover asserts   *)
(* that the value is an error, so any other value escapes to Poll, which   *)
(* recovers it and returns.                                                *)
(***************************************************************************)
EXTENDS EventLoop, FiniteSets

RecoverEndsLoop == cur' = None /\ wake' = wake /\ loopPc' = "exit"

\* eventHandling stays set and ExecuteJobs is not called.
HandlePanic ==
    /\ loopPc = "handle" /\ nested = None
    /\ ready' \in {ready, ready \ {cur}}
    /\ HandlerReturned
    /\ UNCHANGED <<queueVars, callVars, eventfd, running, batch, eventHandling,
                   taken, stopPc, executed>>

\* The job that panics was run; those taken after it are lost.
JobPanic ==
    /\ loopPc = "run" /\ nested = None /\ taken # <<>>
    /\ executed' = Append(executed, Head(taken))
    /\ taken' = <<>>
    /\ HandlerReturned
    /\ UNCHANGED <<queueVars, callVars, eventfd, running, ready, batch,
                   eventHandling, stopPc>>

HandlePanicNotError ==
    /\ loopPc = "handle" /\ nested = None
    /\ RecoverEndsLoop
    /\ UNCHANGED <<queueVars, callVars, eventfd, running, ready, batch,
                   eventHandling, taken, stopPc, executed>>

JobPanicNotError ==
    /\ loopPc = "run" /\ nested = None /\ taken # <<>>
    /\ executed' = Append(executed, Head(taken))
    /\ taken' = <<>>
    /\ RecoverEndsLoop
    /\ UNCHANGED <<queueVars, callVars, eventfd, running, ready, batch,
                   eventHandling, stopPc>>

Panic == HandlePanic \/ JobPanic \/ HandlePanicNotError \/ JobPanicNotError

FaultyNext == Next \/ Panic

FaultySpec == Init /\ [][FaultyNext]_vars

\* Nobody has to panic; where a handler or a job does, it does so instead of
\* returning.
FaultyFairness ==
    /\ WF_vars(LoopNext \/ Panic)
    /\ \A j \in Jobs : WF_vars(CallNext(j)) /\ WF_vars(nested = j /\ PushLock(j))
    /\ WF_vars(CloseWake \/ CloseFds)

FairFaultySpec == FaultySpec /\ FaultyFairness

----------------------------------------------------------------------------
\* A job is at one place, so that it runs at most once, panics or not: where
\* the loop drops a batch it must not find it again.
AtMostOnce ==
    LET all == executed \o taken \o jobs
    IN  Cardinality(Elems(all)) = Len(all)

\* Poller.Close, once past its test of running, returns: the loop that it wakes
\* finds running cleared and ends, or a panic has ended it.
CloseReturnsAnyway == stopPc = "wake" ~> stopPc = "done"

\* After a panic the flag may stay set and hide pushed jobs from their callers'
\* wake-ups; as long as handlers go on returning, no job stays queued.
NextEventRecovers ==
    []<>(loopPc = "leave") => \A j \in Jobs : j \in Elems(jobs) ~> j \notin Elems(jobs)
=============================================================================
