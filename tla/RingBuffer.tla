----------------------------- MODULE RingBuffer -----------------------------
(***************************************************************************)
(* pkg/ringbuffer: the growing circular byte buffer behind a connection's  *)
(* inbound and outbound streams.  One goroutine uses a buffer at a time,   *)
(* so each method is one step.                                             *)
(***************************************************************************)
EXTENDS Naturals, Sequences

CONSTANTS
    Byte,        \* the values of a byte
    Zero,        \* what make fills a new slice with
    Chunks,      \* what callers pass to Write
    Counts,      \* the lengths they ask for
    NewSizes,    \* the sizes they pass to New
    initSize,    \* the first allocation of a buffer made with New(0)
    maxArg,      \* the largest size CeilToPowerOfTwo accepts
    CeilToPowerOfTwo(_)

ASSUME ByteAssumption ==
    /\ Zero \in Byte
    /\ Chunks \subseteq Seq(Byte)
    /\ Counts \subseteq Nat
    /\ NewSizes \subseteq 0..maxArg

ASSUME SizeAssumption ==
    /\ initSize \in Nat \ {0}
    /\ maxArg \in Nat

\* All that the buffer's own code relies on: the result is large enough.
ASSUME CeilAssumption ==
    \A n \in 0..maxArg : CeilToPowerOfTwo(n) \in Nat \ {0} /\ CeilToPowerOfTwo(n) >= n

VARIABLES
    buf,         \* the slice, indexed from 0
    size,        \* its length
    r,           \* next position to read
    w,           \* next position to write
    isEmpty,
    got          \* history: the bytes that the last call handed to its caller

vars == <<buf, size, r, w, isEmpty, got>>

Make(n) == [i \in 0..n - 1 |-> Zero]

New(n) ==
    /\ size = IF n = 0 THEN 0 ELSE CeilToPowerOfTwo(n)
    /\ buf = Make(size)
    /\ r = 0 /\ w = 0 /\ isEmpty = TRUE

Init == got = <<>> /\ \E n \in NewSizes : New(n)

----------------------------------------------------------------------------
Length ==
    IF r = w THEN IF isEmpty THEN 0 ELSE size
    ELSE IF w > r THEN w - r ELSE size - r + w

\* A Free that gives up a slot when the free space wraps.
FreeKeepingOneSlot ==
    IF r = w THEN IF isEmpty THEN size ELSE 0
    ELSE IF w < r THEN r - w ELSE size - w + r - 1

Free ==
    IF r = w THEN IF isEmpty THEN size ELSE 0
    ELSE IF w < r THEN r - w ELSE size - w + r

\* b[lo:hi]
Slice(b, lo, hi) == [i \in 1..hi - lo |-> b[lo + i - 1]]

\* copy(b[at:], p), which stops at the end of b
Copy(b, at, p) ==
    [i \in DOMAIN b |-> IF i \in at..at + Len(p) - 1 THEN p[i - at + 1] ELSE b[i]]

\* & mask for the positions it meets, which are below 2 * size.
Masked(pos) == IF pos >= size THEN pos - size ELSE pos

AtMost(n, bound) == IF n > bound THEN bound ELSE n

\* The n oldest bytes, n <= Length: the head, and the tail when they wrap.
HeadTail(n) ==
    IF r + n <= size
    THEN Slice(buf, r, r + n)
    ELSE Slice(buf, r, size) \o Slice(buf, 0, n - (size - r))

\* Head and tail of LazyRead, one after the other.
LazyRead(n) ==
    IF isEmpty \/ n = 0 THEN <<>> ELSE HeadTail(AtMost(n, Length))

\* Head and tail of LazyReadAll, which ByteBuffer copies.
LazyReadAll ==
    IF isEmpty THEN <<>>
    ELSE IF w > r THEN Slice(buf, r, w)
    ELSE Slice(buf, r, size) \o Slice(buf, 0, w)

WithByteBuffer(b) == LazyReadAll \o b

----------------------------------------------------------------------------
\* The read pointer moves by n; the buffer may have become empty.
Advance(n) ==
    /\ r' = Masked(r + n)
    /\ isEmpty' = (isEmpty \/ r' = w)
    /\ UNCHANGED <<buf, size, w>>

Reset == r' = 0 /\ w' = 0 /\ isEmpty' = TRUE /\ UNCHANGED <<buf, size>>

Shift(n) ==
    /\ IF n = 0 THEN UNCHANGED <<buf, size, r, w, isEmpty>>
       ELSE IF n < Length THEN Advance(n)
       ELSE Reset
    /\ got' = <<>>

Read(n) ==
    /\ got' = LazyRead(n)
    /\ IF n = 0 \/ isEmpty
       THEN UNCHANGED <<buf, size, r, w, isEmpty>>
       ELSE Advance(AtMost(n, Length))

ReadByte == Read(1)

Peek(n) == got' = LazyRead(n) /\ UNCHANGED <<buf, size, r, w, isEmpty>>

PeekAll == got' = LazyReadAll /\ UNCHANGED <<buf, size, r, w, isEmpty>>

PeekWith(b) == got' = WithByteBuffer(b) /\ UNCHANGED <<buf, size, r, w, isEmpty>>

----------------------------------------------------------------------------
\* The new size when cap more bytes are needed than are free.
NewCap(cap) ==
    IF size = 0 /\ initSize >= cap THEN initSize ELSE CeilToPowerOfTwo(size + cap)

\* A malloc that copies the slice as it lies.
MallocKeepingOffsets(n) ==
    IF n > Free
    THEN LET newCap == NewCap(n - Free)
         IN  [buf |-> Copy(Make(newCap), 0, Slice(buf, 0, size)), size |-> newCap, r |-> r, w |-> w]
    ELSE [buf |-> buf, size |-> size, r |-> r, w |-> w]

\* The buffer as malloc leaves it, its contents read into the front of the new
\* slice, or as it is when n bytes fit.
Malloc(n) ==
    IF n > Free
    THEN LET newCap == NewCap(n - Free)
         IN  [buf |-> Copy(Make(newCap), 0, LazyReadAll), size |-> newCap, r |-> 0, w |-> Length]
    ELSE [buf |-> buf, size |-> size, r |-> r, w |-> w]

\* A Write that leaves w at the end of the slice.
WriteIntoPastEnd(m, p) ==
    LET n  == Len(p)
        c1 == m.size - m.w
    IN  IF m.w >= m.r /\ c1 < n
        THEN /\ buf' = Copy(Copy(m.buf, m.w, SubSeq(p, 1, c1)), 0, SubSeq(p, c1 + 1, n))
             /\ w' = n - c1
        ELSE /\ buf' = Copy(m.buf, m.w, p)
             /\ w' = m.w + n

\* The copies of Write into a buffer m that has room for p: one, or two when
\* the free space wraps.  At the end of the slice, w goes back to 0.
WriteInto(m, p) ==
    LET n  == Len(p)
        c1 == m.size - m.w
    IN  IF m.w >= m.r /\ c1 < n
        THEN /\ buf' = Copy(Copy(m.buf, m.w, SubSeq(p, 1, c1)), 0, SubSeq(p, c1 + 1, n))
             /\ w' = n - c1
        ELSE /\ buf' = Copy(m.buf, m.w, p)
             /\ w' = IF m.w + n = m.size THEN 0 ELSE m.w + n

Write(p) ==
    /\ got' = <<>>
    /\ IF p = <<>>
       THEN UNCHANGED <<buf, size, r, w, isEmpty>>
       ELSE LET m == Malloc(Len(p))
            IN  /\ Len(p) > Free => size + (Len(p) - Free) <= maxArg
                /\ WriteInto(m, p)
                /\ size' = m.size /\ r' = m.r
                /\ isEmpty' = FALSE

WriteByte(c) == Write(<<c>>)

Next ==
    \/ \E p \in Chunks : Write(p) \/ PeekWith(p)
    \/ \E c \in Byte : WriteByte(c)
    \/ \E n \in Counts : Read(n) \/ Shift(n) \/ Peek(n)
    \/ ReadByte \/ PeekAll
    \/ Reset /\ got' = <<>>

Spec == Init /\ [][Next]_vars

----------------------------------------------------------------------------
\* The pointers stay inside the slice, and are equal where the buffer is marked
\* empty; equal and not marked, they mean a full one.
PointersOK ==
    /\ size \in Nat
    /\ isEmpty \in BOOLEAN
    /\ r \in Nat /\ w \in Nat
    /\ IF size = 0 THEN r = 0 /\ w = 0 /\ isEmpty ELSE r < size /\ w < size
    /\ isEmpty => r = w

TypeOK ==
    /\ PointersOK
    /\ buf \in [0..size - 1 -> Byte]
    /\ got \in Seq(Byte)

\* A write uses every slot that is free before the slice grows: Free does not
\* give up a slot to tell full from empty.
GrowsOnlyWhenFull == [][size' # size => Length' > size]_vars

\* The buffer is a queue of bytes: no call loses, repeats or reorders a byte,
\* whatever wraps and whatever grows, and the calls that only look see exactly
\* what a read would return.
Fifo == INSTANCE ByteFifo WITH contents <- LazyReadAll, Chunks <- Chunks \cup {<<c>> : c \in Byte}
FifoSpec == Fifo!Spec
=============================================================================
