---------------------------- MODULE MCRingBuffer ----------------------------
(***************************************************************************)
(* RingBuffer for TLC, with CeilToPowerOfTwo as the code computes it, and  *)
(* the arithmetic of the buffers' pool against what it is meant to be.     *)
(***************************************************************************)
EXTENDS RingBuffer, Integers, Bitwise, PoolClasses

\* Every bit below the highest one set.  The shifts by 16 and 32 change nothing
\* below 2^16.
fillBits(n) ==
    LET a == n | shiftR(n, 1)
        b == a | shiftR(a, 2)
        c == b | shiftR(b, 4)
    IN  c | shiftR(c, 8)

PowerOfTwo(n) == IF n <= 2 THEN 2 ELSE fillBits(n - 1) + 1

\* fillBits computes the least power of two that is large enough, and & mask
\* is the subtraction that RingBuffer has for it.
ASSUME PowerOfTwoIsLeast ==
    \A n \in 0..520 :
        LET least == CHOOSE p \in {2^k : k \in 1..10} :
                         p >= n /\ (p = 2 \/ p < 2 * n)
        IN  PowerOfTwo(n) = least

ASSUME MaskIsSubtraction ==
    \A s \in {2, 4, 8, 16, 32} : \A pos \in 0..2 * s - 1 :
        pos & (s - 1) = IF pos >= s THEN pos - s ELSE pos

Capacities == 0..300 \cup {2 ^ k + d : k \in 8..26, d \in {-1, 0, 1}}

\* index is the least class that holds a capacity, or the last of the 20; so the
\* limit, which is the capacity of a class, cuts off classes as they are counted.
ASSUME IndexIsLeastClass ==
    \A n \in Capacities :
        LET c == Index(n, 20)
        IN  /\ n <= SizeOf(c) \/ c = 19
            /\ c = 0 \/ n > SizeOf(c - 1)

\* Whichever order sort.Sort leaves, the limit keeps more than maxPercentile of
\* the calls, or all, and new buffers are among those kept.
ASSUME LimitKeepsMost ==
    \A calls \in [0..2 -> 0..4], percent \in {50, 95} : \A o \in Orders(calls) :
        LET limit == MaxSize(calls, o, percent)
            kept == {c \in 0..2 : SizeOf(c) <= limit}
        IN  /\ DefaultSize(o) <= limit
            /\ \/ CallsBefore(calls, o, 3) = SumCalls(calls, kept)
               \/ SumCalls(calls, kept) * 100 > CallsBefore(calls, o, 3) * percent

\* A calibration that meets no calls lifts the limit to the last class.
ASSUME NoCallsLiftLimit ==
    LET none == [c \in 0..3 |-> 0]
    IN  \A o \in Orders(none) : MaxSize(none, o, 95) = SizeOf(3)

ShortChunks == {<<>>, <<1, 0>>, <<0, 1, 1>>}
=============================================================================
