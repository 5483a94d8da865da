------------------------------ MODULE ByteFifo ------------------------------
(***************************************************************************)
(* What a connection needs of its inbound and outbound buffers: an         *)
(* unbounded queue of bytes that is read from the front, or looked at from *)
(* the front without being moved.                                          *)
(***************************************************************************)
EXTENDS Naturals, Sequences

CONSTANTS
    Chunks,      \* what callers write: sequences of bytes
    Counts       \* the lengths they ask for

VARIABLES
    contents,    \* the bytes written and not consumed, oldest first
    got          \* the bytes that the last call handed to its caller

vars == <<contents, got>>

\* The first n bytes of s, and what follows them; all of it when it is shorter.
First(s, n) == SubSeq(s, 1, IF n < Len(s) THEN n ELSE Len(s))
After(s, n) == SubSeq(s, n + 1, Len(s))

Init == contents = <<>> /\ got = <<>>

Put(p)  == contents' = contents \o p /\ got' = <<>>
Take(n) == contents' = After(contents, n) /\ got' = First(contents, n)
Look(n) == got' = First(contents, n) /\ UNCHANGED contents
Drop(n) == contents' = After(contents, n) /\ got' = <<>>
\* The contents followed by bytes of the caller's.
LookWith(p) == got' = contents \o p /\ UNCHANGED contents

Next ==
    \/ \E p \in Chunks : Put(p) \/ LookWith(p)
    \/ \E n \in Counts \cup {1, Len(contents)} : Take(n) \/ Look(n) \/ Drop(n)

Spec == Init /\ [][Next]_vars
=============================================================================
