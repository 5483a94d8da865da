---------------------------- MODULE PoolClasses -----------------------------
(***************************************************************************)
(* The arithmetic of the ring buffer pool, pkg/ringbuffer/pool.go: the     *)
(* class that Put counts a capacity in, and what calibrate makes of the    *)
(* counters.  A capacity larger than the last class is counted in it.      *)
(***************************************************************************)
LOCAL INSTANCE Integers
LOCAL INSTANCE FiniteSetsExt
LOCAL INSTANCE Functions

MinBitSize == 6

\* The capacity of class c
SizeOf(c) == 2 ^ (MinBitSize + c)

\* How often n can be halved before it is nothing
Halvings[n \in Int] == IF n > 0 THEN 1 + Halvings[n \div 2] ELSE 0

\* index, with the number of classes as a parameter
Index(n, steps) == Min({steps - 1, Halvings[(n - 1) \div 2 ^ MinBitSize]})

\* callSizes, sorted by falling calls: sort.Sort leaves open which of equals
\* comes first.
Orders(calls) ==
    LET classes == DOMAIN calls
    IN  {o \in Bijection(classes, classes) :
            \A i, k \in classes : i < k => calls[o[i]] >= calls[o[k]]}

SumCalls(calls, classes) == SumFunctionOnSet(calls, classes)

\* The calls of the first i classes of an order
CallsBefore(calls, o, i) == SumCalls(calls, {o[k] : k \in 0..i - 1})

\* The classes that the loop adds up before it breaks off; percent is
\* maxPercentile in hundredths.
Counted(calls, o, percent) ==
    LET maxSum == (SumCalls(calls, DOMAIN calls) * percent) \div 100
    IN  {o[i] : i \in {k \in DOMAIN calls : CallsBefore(calls, o, k) <= maxSum}}

\* What calibrate stores
DefaultSize(o) == SizeOf(o[0])

MaxSize(calls, o, percent) == Max({SizeOf(c) : c \in Counted(calls, o, percent)})
=============================================================================
