---------------------------- MODULE JobExecutor ----------------------------
(***************************************************************************)
(* What an event loop promises to the goroutines that hand it work: jobs   *)
(* are accepted one at a time and run one at a time, in the order they     *)
(* were accepted, each at most once, and none accepted is dropped.         *)
(*                                                                         *)
(* The promise is the comment of EventLoop.Trigger, "push the job on the   *)
(* queue, then wake the event loop to run it, so that the work is serial   *)
(* and free of races".  EventLoop.tla is the code that has to keep it.     *)
(***************************************************************************)
EXTENDS Sequences

CONSTANT Jobs            \* one element per call of Trigger

VARIABLES
    pending,             \* accepted jobs that have not run, oldest first
    executed             \* jobs that have run, in the order they ran

vars == <<pending, executed>>

\* The jobs of a sequence.
Elems(s) == {s[i] : i \in DOMAIN s}

Init ==
    /\ pending = <<>>
    /\ executed = <<>>

Submit(j) ==
    /\ j \notin Elems(pending) \cup Elems(executed)
    /\ pending' = Append(pending, j)
    /\ UNCHANGED executed

Execute ==
    /\ pending # <<>>
    /\ executed' = Append(executed, Head(pending))
    /\ pending' = Tail(pending)

Next == Execute \/ \E j \in Jobs : Submit(j)

Spec == Init /\ [][Next]_vars
=============================================================================
