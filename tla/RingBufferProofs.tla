-------------------------- MODULE RingBufferProofs --------------------------
(***************************************************************************)
(* Theorems about RingBuffer, for every first size, every chunk written    *)
(* and every CeilToPowerOfTwo that returns a large enough size: the        *)
(* pointers stay in the slice, and the buffer is a queue of bytes.         *)
(***************************************************************************)
EXTENDS RingBuffer, TLAPS, SequenceTheorems

LEMMA SliceProperties ==
    ASSUME NEW n \in Nat, NEW b \in [0..n - 1 -> Byte],
           NEW lo \in Nat, NEW hi \in Nat, lo <= hi, hi <= n
    PROVE  /\ Slice(b, lo, hi) \in Seq(Byte)
           /\ Len(Slice(b, lo, hi)) = hi - lo
           /\ \A i \in 1..hi - lo : Slice(b, lo, hi)[i] = b[lo + i - 1]
<1>1. \A i \in 1..hi - lo : lo + i - 1 \in 0..n - 1
  OBVIOUS
<1>2. hi - lo \in Nat /\ Slice(b, lo, hi) \in [1..hi - lo -> Byte]
  BY <1>1 DEF Slice
<1>3. Slice(b, lo, hi) \in Seq(Byte)
  BY <1>2, IsASeq DEF Slice
<1>4. Len(Slice(b, lo, hi)) = hi - lo
  BY <1>2, <1>3
<1> QED
  BY <1>1, <1>2, <1>3, <1>4 DEF Slice

LEMMA FrontProperties ==
    ASSUME NEW n \in Nat, NEW b \in [0..n - 1 -> Byte], NEW hi \in Nat, hi <= n
    PROVE  /\ Slice(b, 0, hi) \in Seq(Byte)
           /\ Len(Slice(b, 0, hi)) = hi
           /\ \A i \in 1..hi : Slice(b, 0, hi)[i] = b[i - 1]
<1>1. \A lo \in Nat : lo <= hi =>
        /\ Slice(b, lo, hi) \in Seq(Byte)
        /\ Len(Slice(b, lo, hi)) = hi - lo
        /\ \A i \in 1..hi - lo : Slice(b, lo, hi)[i] = b[lo + i - 1]
  BY SliceProperties
<1>2. ASSUME NEW lo \in Nat, lo = 0
      PROVE  /\ Slice(b, lo, hi) \in Seq(Byte)
             /\ Len(Slice(b, lo, hi)) = hi
             /\ \A i \in 1..hi : Slice(b, lo, hi)[i] = b[i - 1]
  BY <1>1, <1>2
<1> QED
  BY <1>2

LEMMA CopyProperties ==
    ASSUME NEW n \in Nat, NEW b \in [0..n - 1 -> Byte], NEW at \in Nat, NEW p \in Seq(Byte)
    PROVE  /\ Copy(b, at, p) \in [0..n - 1 -> Byte]
           /\ \A k \in 0..n - 1 : at <= k /\ k < at + Len(p) => Copy(b, at, p)[k] = p[k - at + 1]
           /\ \A k \in 0..n - 1 : ~(at <= k /\ k < at + Len(p)) => Copy(b, at, p)[k] = b[k]
<1>1. ASSUME NEW k \in 0..n - 1, k \in at..at + Len(p) - 1 PROVE p[k - at + 1] \in Byte
  <2>1. k - at + 1 \in 1..Len(p)
    BY <1>1
  <2> QED
    BY <2>1
<1>2. \A k \in 0..n - 1 :
         Copy(b, at, p)[k] = IF k \in at..at + Len(p) - 1 THEN p[k - at + 1] ELSE b[k]
  BY DEF Copy
<1>3. \A k \in 0..n - 1 : k \in at..at + Len(p) - 1 <=> at <= k /\ k < at + Len(p)
  OBVIOUS
<1>4. Copy(b, at, p) \in [0..n - 1 -> Byte]
  BY <1>1 DEF Copy
<1> QED
  BY <1>2, <1>3, <1>4

LEMMA CopyFront ==
    ASSUME NEW n \in Nat, NEW b \in [0..n - 1 -> Byte], NEW p \in Seq(Byte)
    PROVE  /\ Copy(b, 0, p) \in [0..n - 1 -> Byte]
           /\ \A k \in 0..n - 1 : k < Len(p) => Copy(b, 0, p)[k] = p[k + 1]
           /\ \A k \in 0..n - 1 : ~(k < Len(p)) => Copy(b, 0, p)[k] = b[k]
<1>1. \A at \in Nat :
        /\ Copy(b, at, p) \in [0..n - 1 -> Byte]
        /\ \A k \in 0..n - 1 : at <= k /\ k < at + Len(p) => Copy(b, at, p)[k] = p[k - at + 1]
        /\ \A k \in 0..n - 1 : ~(at <= k /\ k < at + Len(p)) => Copy(b, at, p)[k] = b[k]
  BY CopyProperties
<1>2. ASSUME NEW at \in Nat, at = 0
      PROVE  /\ Copy(b, at, p) \in [0..n - 1 -> Byte]
             /\ \A k \in 0..n - 1 : k < Len(p) => Copy(b, at, p)[k] = p[k + 1]
             /\ \A k \in 0..n - 1 : ~(k < Len(p)) => Copy(b, at, p)[k] = b[k]
  BY <1>1, <1>2
<1> QED
  BY <1>2

LEMMA SubSeqParts ==
    ASSUME NEW p \in Seq(Byte), NEW lo \in Nat, NEW hi \in Nat, 1 <= lo, lo <= hi + 1, hi <= Len(p)
    PROVE  /\ SubSeq(p, lo, hi) \in Seq(Byte)
           /\ Len(SubSeq(p, lo, hi)) = hi - lo + 1
           /\ \A i \in 1..hi - lo + 1 : SubSeq(p, lo, hi)[i] = p[lo + i - 1]
<1>1. \A i \in lo..hi : p[i] \in Byte
  OBVIOUS
<1>2. lo \in Int /\ hi \in Int
  OBVIOUS
<1>3. /\ SubSeq(p, lo, hi) \in Seq(Byte)
      /\ Len(SubSeq(p, lo, hi)) = IF lo <= hi THEN hi - lo + 1 ELSE 0
      /\ \A i \in 1..hi - lo + 1 : SubSeq(p, lo, hi)[i] = p[lo + i - 1]
  BY <1>1, <1>2, SubSeqProperties
<1> QED
  BY <1>3

LEMMA Halves ==
    ASSUME NEW p \in Seq(Byte), NEW c \in Nat, c <= Len(p)
    PROVE  /\ SubSeq(p, 1, c) \in Seq(Byte) /\ Len(SubSeq(p, 1, c)) = c
           /\ \A i \in 1..c : SubSeq(p, 1, c)[i] = p[i]
           /\ SubSeq(p, c + 1, Len(p)) \in Seq(Byte) /\ Len(SubSeq(p, c + 1, Len(p))) = Len(p) - c
           /\ \A i \in 1..Len(p) - c : SubSeq(p, c + 1, Len(p))[i] = p[c + i]
<1>1. \A lo, hi \in Nat : 1 <= lo /\ lo <= hi + 1 /\ hi <= Len(p) =>
           /\ SubSeq(p, lo, hi) \in Seq(Byte)
           /\ Len(SubSeq(p, lo, hi)) = hi - lo + 1
           /\ \A i \in 1..hi - lo + 1 : SubSeq(p, lo, hi)[i] = p[lo + i - 1]
  BY SubSeqParts
<1>2. ASSUME NEW lo \in Nat, lo = 1
      PROVE  /\ SubSeq(p, lo, c) \in Seq(Byte) /\ Len(SubSeq(p, lo, c)) = c
             /\ \A i \in 1..c : SubSeq(p, lo, c)[i] = p[i]
  BY <1>1, <1>2
<1>3. ASSUME NEW lo \in Nat, lo = c + 1, NEW hi \in Nat, hi = Len(p)
      PROVE  /\ SubSeq(p, lo, hi) \in Seq(Byte) /\ Len(SubSeq(p, lo, hi)) = hi - c
             /\ \A i \in 1..hi - c : SubSeq(p, lo, hi)[i] = p[c + i]
  BY <1>1, <1>3
<1>4. Len(p) \in Nat /\ c + 1 \in Nat
  OBVIOUS
<1> QED
  BY <1>2, <1>3, <1>4

Wrap(pos, n) == IF pos < n THEN pos ELSE pos - n

\* The bytes from rd to the end of the slice and the first x bytes of the slice.
LEMMA WrappedSlices ==
    ASSUME NEW sz \in Nat, NEW b \in [0..sz - 1 -> Byte], NEW rd \in Nat, rd < sz,
           NEW x \in Nat, x <= rd
    PROVE  LET c == Slice(b, rd, sz) \o Slice(b, 0, x)
           IN  /\ c \in Seq(Byte) /\ Len(c) = sz - rd + x
               /\ \A i \in 1..sz - rd + x : /\ Wrap(rd + i - 1, sz) \in 0..sz - 1
                                            /\ c[i] = b[Wrap(rd + i - 1, sz)]
<1> DEFINE h == Slice(b, rd, sz)
           t == Slice(b, 0, x)
           c == h \o t
<1>1. /\ h \in Seq(Byte) /\ Len(h) = sz - rd
      /\ \A i \in 1..sz - rd : h[i] = b[rd + i - 1]
  <2>1. rd <= sz /\ sz <= sz
    OBVIOUS
  <2> QED
    BY <2>1, SliceProperties
<1>2. /\ t \in Seq(Byte) /\ Len(t) = x
      /\ \A i \in 1..x : t[i] = b[i - 1]
  <2>1. x <= sz
    OBVIOUS
  <2> QED
    BY <2>1, FrontProperties
<1> HIDE DEF h, t
<1>3. /\ c \in Seq(Byte) /\ Len(c) = Len(h) + Len(t)
      /\ \A i \in 1..Len(h) + Len(t) : c[i] = IF i <= Len(h) THEN h[i] ELSE t[i - Len(h)]
  BY <1>1, <1>2, ConcatProperties
<1> HIDE DEF c
<1>4. ASSUME NEW i \in 1..sz - rd + x
      PROVE  Wrap(rd + i - 1, sz) \in 0..sz - 1 /\ c[i] = b[Wrap(rd + i - 1, sz)]
  <2>0. i \in Int /\ 1 <= i /\ i <= sz - rd + x
    OBVIOUS
  <2>1. CASE i <= sz - rd
    <3>1. i \in 1..sz - rd /\ Wrap(rd + i - 1, sz) = rd + i - 1 /\ rd + i - 1 \in 0..sz - 1
      BY <2>0, <2>1 DEF Wrap
    <3>2. c[i] = h[i]
      BY <2>1, <1>1, <1>2, <1>3
    <3> QED
      BY <3>1, <3>2, <1>1
  <2>2. CASE ~(i <= sz - rd)
    <3>1. /\ i - (sz - rd) \in 1..x
          /\ Wrap(rd + i - 1, sz) = i - (sz - rd) - 1
          /\ Wrap(rd + i - 1, sz) \in 0..sz - 1
      BY <2>0, <2>2 DEF Wrap
    <3>2. c[i] = t[i - (sz - rd)]
      BY <2>2, <1>1, <1>2, <1>3
    <3> QED
      BY <3>1, <3>2, <1>2
  <2> QED
    BY <2>1, <2>2
<1>5. c \in Seq(Byte) /\ Len(c) = sz - rd + x
  BY <1>1, <1>2, <1>3
<1> QED
  BY <1>4, <1>5 DEF c, h, t

\* Where the i-th oldest byte lies.
Position(i) == Wrap(r + i - 1, size)

\* LazyReadAll returns the bytes from the read pointer on, across the wrap.
ContentsOK ==
    /\ LazyReadAll \in Seq(Byte)
    /\ Len(LazyReadAll) = Length
    /\ \A i \in 1..Length : /\ Position(i) \in 0..size - 1
                            /\ LazyReadAll[i] = buf[Position(i)]

LEMMA LengthProperties ==
    ASSUME PointersOK
    PROVE  /\ Length \in 0..size
           /\ Free \in 0..size
           /\ Length + Free = size
           /\ Length = 0 <=> isEmpty
  BY DEF PointersOK, Length, Free

LEMMA ContentsProperties == TypeOK => ContentsOK
<1> SUFFICES ASSUME TypeOK PROVE ContentsOK
  OBVIOUS
<1> USE DEF ContentsOK
<1>1. CASE isEmpty
  BY <1>1, LengthProperties DEF TypeOK, LazyReadAll
<1>2. CASE ~isEmpty /\ w > r
  <2>1. Length = w - r /\ LazyReadAll = Slice(buf, r, w) /\ w <= size /\ r \in Nat /\ w \in Nat
    BY <1>2 DEF TypeOK, PointersOK, Length, LazyReadAll
  <2>2. size \in Nat /\ buf \in [0..size - 1 -> Byte] /\ r <= w
    BY <1>2 DEF TypeOK, PointersOK
  <2>3. /\ Slice(buf, r, w) \in Seq(Byte)
        /\ Len(Slice(buf, r, w)) = w - r
        /\ \A i \in 1..w - r : Slice(buf, r, w)[i] = buf[r + i - 1]
    BY <2>1, <2>2, SliceProperties
  <2>4. \A i \in 1..w - r : Position(i) = r + i - 1 /\ r + i - 1 \in 0..size - 1
    BY <2>1, <2>2 DEF Position, Wrap
  <2> QED
    BY <2>1, <2>3, <2>4
<1>3. CASE ~isEmpty /\ ~(w > r)
  <2>1. /\ Length = size - r + w /\ LazyReadAll = Slice(buf, r, size) \o Slice(buf, 0, w)
        /\ r < size /\ w <= size /\ size \in Nat /\ r \in Nat /\ w \in Nat
    BY <1>3 DEF TypeOK, PointersOK, Length, LazyReadAll
  <2>2. w <= r
    BY <1>3, <2>1
  <2>3. buf \in [0..size - 1 -> Byte]
    BY DEF TypeOK
  <2> QED
    BY <2>1, <2>2, <2>3, WrappedSlices DEF Position
<1> QED
  BY <1>1, <1>2, <1>3

----------------------------------------------------------------------------
(* Writing: malloc makes room without moving a byte relative to the others, *)
(* and Write's one or two copies put the new bytes behind them.             *)

\* A buffer m, of which the first L bytes from m.r on are the contents, with
\* room for n more.
MallocOK(m, n) ==
    /\ m.size \in Nat /\ m.r \in Nat /\ m.w \in Nat
    /\ m.r < m.size /\ m.w < m.size
    /\ m.buf \in [0..m.size - 1 -> Byte]
    /\ Length \in Nat /\ Length + n <= m.size
    /\ m.w = Wrap(m.r + Length, m.size)
    /\ \A i \in 1..Length : m.buf[Wrap(m.r + i - 1, m.size)] = LazyReadAll[i]

LEMMA MallocProperties ==
    ASSUME TypeOK, NEW n \in Nat, n > 0, n > Free => size + (n - Free) <= maxArg
    PROVE  MallocOK(Malloc(n), n)
<1> DEFINE m == Malloc(n)
<1>0. /\ size \in Nat /\ r \in Nat /\ w \in Nat
      /\ buf \in [0..size - 1 -> Byte]
      /\ Length \in Nat /\ Free \in Nat /\ Length + Free = size /\ Length <= size
  BY LengthProperties DEF TypeOK, PointersOK
<1>1. ContentsOK
  BY ContentsProperties
<1>2. CASE n <= Free
  <2>1. m = [buf |-> buf, size |-> size, r |-> r, w |-> w]
    BY <1>0, <1>2 DEF Malloc
  <2>2. r < size /\ w < size /\ w = Wrap(r + Length, size)
    BY <1>0, <1>2 DEF TypeOK, PointersOK, Length, Free, Wrap
  <2> QED
    BY <1>0, <1>1, <1>2, <2>1, <2>2 DEF MallocOK, ContentsOK, Position
<1>3. CASE n > Free
  <2> DEFINE newCap == NewCap(n - Free)
             fresh == Copy(Make(newCap), 0, LazyReadAll)
  <2>1. newCap \in Nat /\ newCap >= Length + n
    BY <1>0, <1>3, SizeAssumption, CeilAssumption DEF NewCap
  <2>2. m = [buf |-> fresh, size |-> newCap, r |-> 0, w |-> Length]
    BY <1>3, <1>0 DEF Malloc
  <2> HIDE DEF newCap
  <2>3. Make(newCap) \in [0..newCap - 1 -> Byte]
    BY ByteAssumption DEF Make
  <2>4. /\ fresh \in [0..newCap - 1 -> Byte]
        /\ \A k \in 0..newCap - 1 : k < Len(LazyReadAll) => fresh[k] = LazyReadAll[k + 1]
    BY <2>1, <2>3, <1>1, CopyFront DEF ContentsOK
  <2>5. ASSUME NEW i \in 1..Length PROVE fresh[i - 1] = LazyReadAll[i]
    <3>1. i - 1 \in 0..newCap - 1 /\ i - 1 < Len(LazyReadAll) /\ (i - 1) + 1 = i
      BY <2>1, <1>0, <1>1 DEF ContentsOK
    <3> QED
      BY <2>4, <3>1
  <2> HIDE DEF fresh
  <2>6. \A i \in 1..Length : Wrap(0 + i - 1, newCap) = i - 1
    BY <2>1, <1>0 DEF Wrap
  <2>7. Length < newCap /\ Wrap(0 + Length, newCap) = Length
    BY <2>1, <1>0 DEF Wrap
  <2> QED
    BY <1>0, <2>1, <2>2, <2>4, <2>5, <2>6, <2>7 DEF MallocOK
<1> QED
  BY <1>2, <1>3, <1>0

\* Write's copies of p into a slice b of sz bytes, with the pointers rd and wr,
\* give the slice nb and the write pointer nw.
Copied(sz, b, rd, wr, p, nb, nw) ==
    IF wr >= rd /\ sz - wr < Len(p)
    THEN /\ nb = Copy(Copy(b, wr, SubSeq(p, 1, sz - wr)), 0, SubSeq(p, sz - wr + 1, Len(p)))
         /\ nw = Len(p) - (sz - wr)
    ELSE /\ nb = Copy(b, wr, p)
         /\ nw = IF wr + Len(p) = sz THEN 0 ELSE wr + Len(p)

\* The L bytes from rd on are followed by p, and nw is behind them all.
Appended(sz, b, rd, L, p, nb, nw) ==
    /\ nb \in [0..sz - 1 -> Byte]
    /\ nw \in Nat /\ nw < sz
    /\ nw = IF L + Len(p) = sz THEN rd ELSE Wrap(rd + L + Len(p), sz)
    /\ \A i \in 1..L : nb[Wrap(rd + i - 1, sz)] = b[Wrap(rd + i - 1, sz)]
    /\ \A i \in 1..Len(p) : nb[Wrap(rd + L + i - 1, sz)] = p[i]

LEMMA CopiesProperties ==
    ASSUME NEW sz \in Nat, NEW b \in [0..sz - 1 -> Byte], NEW rd \in Nat, NEW wr \in Nat,
           rd < sz, wr < sz, NEW L \in Nat, wr = Wrap(rd + L, sz),
           NEW p \in Seq(Byte), p # <<>>, L + Len(p) <= sz,
           NEW nb, NEW nw, Copied(sz, b, rd, wr, p, nb, nw)
    PROVE  Appended(sz, b, rd, L, p, nb, nw)
<1> USE DEF Appended
<1> DEFINE n == Len(p)
<1>1. n \in Nat /\ n > 0
  OBVIOUS
<1>2. L + n <= sz /\ wr = Wrap(rd + L, sz)
  OBVIOUS
<1>c. PICK c1 \in Int : c1 = sz - wr
  OBVIOUS
<1>3. CASE wr >= rd /\ c1 < n
  <2> DEFINE p1 == SubSeq(p, 1, c1)
             p2 == SubSeq(p, c1 + 1, n)
             b1 == Copy(b, wr, p1)
             b2 == Copy(b1, 0, p2)
  <2>1. nb = b2 /\ nw = n - c1
    BY <1>3, <1>c DEF Copied
  <2>2. c1 \in Nat /\ c1 > 0 /\ c1 < n /\ c1 <= n /\ wr + c1 = sz /\ wr = rd + L
    BY <1>1, <1>2, <1>3, <1>c DEF Wrap
  <2>3. p1 \in Seq(Byte) /\ Len(p1) = c1 /\ \A i \in 1..c1 : p1[i] = p[i]
    BY <1>1, <2>2, Halves
  <2>4. p2 \in Seq(Byte) /\ Len(p2) = n - c1 /\ \A i \in 1..n - c1 : p2[i] = p[c1 + i]
    BY <1>1, <2>2, Halves
  <2> HIDE DEF p1, p2
  <2>0. Len(p1) = c1 /\ Len(p2) = n - c1
    BY <2>3, <2>4
  <2>5. /\ b1 \in [0..sz - 1 -> Byte]
        /\ \A k \in 0..sz - 1 : wr <= k /\ k < wr + Len(p1) => b1[k] = p1[k - wr + 1]
        /\ \A k \in 0..sz - 1 : ~(wr <= k /\ k < wr + Len(p1)) => b1[k] = b[k]
    <3>1. p1 \in Seq(Byte) /\ wr \in Nat
      BY <2>3
    <3>2. sz \in Nat /\ b \in [0..sz - 1 -> Byte]
      OBVIOUS
    <3>3. b1 \in [0..sz - 1 -> Byte]
      BY <3>1, <3>2, CopyProperties, Zenon
    <3>4. \A k \in 0..sz - 1 : wr <= k /\ k < wr + Len(p1) => b1[k] = p1[k - wr + 1]
      BY <3>1, <3>2 DEF Copy
    <3>5. \A k \in 0..sz - 1 : ~(wr <= k /\ k < wr + Len(p1)) => b1[k] = b[k]
      BY <3>1, <3>2 DEF Copy
    <3> QED
      BY <3>3, <3>4, <3>5
  <2> HIDE DEF b1
  <2>5b. \A k \in 0..sz - 1 : IF wr <= k THEN b1[k] = p1[k - wr + 1] ELSE b1[k] = b[k]
    <3>1. \A k \in 0..sz - 1 : k < wr + Len(p1)
      BY <2>0, <2>2
    <3> QED
      BY <2>5, <3>1
  <2>6. /\ b2 \in [0..sz - 1 -> Byte]
        /\ \A k \in 0..sz - 1 : k < Len(p2) => b2[k] = p2[k + 1]
        /\ \A k \in 0..sz - 1 : ~(k < Len(p2)) => b2[k] = b1[k]
    BY <1>2, <2>4, <2>5, CopyFront
  <2> HIDE DEF b2
  <2>6b. \A k \in 0..sz - 1 : IF k < n - c1 THEN b2[k] = p2[k + 1] ELSE b2[k] = b1[k]
    BY <2>6, <2>0
  <2>7. n - c1 <= rd
    BY <1>1, <1>2, <2>2
  <2>8. \A i \in 1..L : /\ Wrap(rd + i - 1, sz) = rd + i - 1
                             /\ rd + i - 1 \in 0..sz - 1
                             /\ rd + i - 1 >= n - c1 /\ rd + i - 1 < wr
    BY <1>1, <1>2, <2>2, <2>7 DEF Wrap
  <2>9. \A i \in 1..L : b2[Wrap(rd + i - 1, sz)] = b[Wrap(rd + i - 1, sz)]
    <3> SUFFICES ASSUME NEW i \in 1..L
                 PROVE  b2[rd + i - 1] = b[rd + i - 1]
      BY <2>8
    <3>a. /\ rd + i - 1 \in 0..sz - 1
          /\ rd + i - 1 >= n - c1 /\ rd + i - 1 < wr
      BY <2>8
    <3>1. b2[rd + i - 1] = b1[rd + i - 1]
      BY <2>6b, <3>a
    <3>2. b1[rd + i - 1] = b[rd + i - 1]
      BY <2>5b, <3>a
    <3> QED
      BY <3>1, <3>2
  <2>10. ASSUME NEW i \in 1..n
         PROVE  b2[Wrap(rd + L + i - 1, sz)] = p[i]
    <3>1. CASE i <= c1
      <4>1. /\ Wrap(rd + L + i - 1, sz) = wr + i - 1
            /\ wr + i - 1 \in 0..sz - 1 /\ wr + i - 1 >= n - c1
            /\ i \in 1..c1 /\ (wr + i - 1) - wr + 1 = i
        BY <1>1, <1>2, <2>2, <2>7, <3>1 DEF Wrap
      <4> QED
        <5>a. i \in Int /\ 1 <= i /\ n \in Int /\ c1 \in Int
          BY <1>1, <2>2
        <5>b. n - c1 <= wr
          BY <1>1, <2>2, <2>7
        <5>0. ~(wr + i - 1 < n - c1) /\ wr <= wr + i - 1
          BY <5>a, <5>b
        <5>1. b2[wr + i - 1] = b1[wr + i - 1]
          BY <4>1, <5>0, <2>6b
        <5>2. b1[wr + i - 1] = p1[(wr + i - 1) - wr + 1]
          BY <4>1, <5>0, <2>5b
        <5> QED
          BY <4>1, <5>1, <5>2, <2>3
    <3>2. CASE ~(i <= c1)
      <4>1. /\ Wrap(rd + L + i - 1, sz) = i - c1 - 1
            /\ i - c1 - 1 \in 0..sz - 1 /\ i - c1 \in 1..n - c1
            /\ c1 + (i - c1) = i
        BY <1>1, <1>2, <2>2, <2>7, <3>2 DEF Wrap
      <4> QED
        <5>a. i \in Int /\ i <= n /\ n \in Int /\ c1 \in Int
          BY <1>1, <2>2
        <5>0. i - c1 - 1 < n - c1 /\ (i - c1 - 1) + 1 = i - c1
          BY <5>a
        <5>1. b2[i - c1 - 1] = p2[i - c1]
          BY <4>1, <5>0, <2>6b
        <5> QED
          BY <4>1, <5>1, <2>4
    <3> QED
      BY <3>1, <3>2
  <2>11. /\ n - c1 \in Nat /\ n - c1 < sz
         /\ n - c1 = IF L + n = sz THEN rd ELSE Wrap(rd + L + n, sz)
    BY <1>1, <1>2, <2>2, <2>7 DEF Wrap
  <2> QED
    BY <2>1, <2>6, <2>9, <2>10, <2>11
<1>4. CASE ~(wr >= rd /\ c1 < n)
  <2> DEFINE b1 == Copy(b, wr, p)
  <2>1. nb = b1 /\ nw = IF wr + n = sz THEN 0 ELSE wr + n
    BY <1>4, <1>c DEF Copied
  <2>2. /\ b1 \in [0..sz - 1 -> Byte]
        /\ \A k \in 0..sz - 1 : wr <= k /\ k < wr + n => b1[k] = p[k - wr + 1]
        /\ \A k \in 0..sz - 1 : ~(wr <= k /\ k < wr + n) => b1[k] = b[k]
    BY <1>2, CopyProperties
  <2> HIDE DEF b1
  <2>3. wr + n <= sz
    BY <1>1, <1>2, <1>4, <1>c DEF Wrap
  <2>4. ASSUME NEW i \in 1..L
        PROVE  b1[Wrap(rd + i - 1, sz)] = b[Wrap(rd + i - 1, sz)]
    <3>1. /\ Wrap(rd + i - 1, sz) \in 0..sz - 1
          /\ ~(wr <= Wrap(rd + i - 1, sz) /\ Wrap(rd + i - 1, sz) < wr + n)
      BY <1>1, <1>2, <2>3 DEF Wrap
    <3> QED
      BY <1>2, <2>2, <3>1
  <2>5. ASSUME NEW i \in 1..n
        PROVE  b1[Wrap(rd + L + i - 1, sz)] = p[i]
    <3>1. /\ Wrap(rd + L + i - 1, sz) = wr + i - 1
          /\ wr + i - 1 \in 0..sz - 1 /\ wr <= wr + i - 1 /\ wr + i - 1 < wr + n
          /\ (wr + i - 1) - wr + 1 = i
      BY <1>1, <1>2, <2>3 DEF Wrap
    <3> QED
      BY <2>2, <3>1
  <2>6. /\ nw \in Nat /\ nw < sz
        /\ nw = IF L + n = sz THEN rd ELSE Wrap(rd + L + n, sz)
    BY <1>1, <1>2, <2>1, <2>3 DEF Wrap
  <2> QED
    BY <2>1, <2>2, <2>4, <2>5, <2>6
<1> QED
  BY <1>3, <1>4

LEMMA SameSequence ==
    ASSUME NEW s \in Seq(Byte), NEW t \in Seq(Byte), Len(s) = Len(t),
           \A i \in 1..Len(s) : s[i] = t[i]
    PROVE  s = t
BY SeqEqual

\* A write that fits, or that malloc has made room for, appends.
LEMMA WriteProperties ==
    ASSUME TypeOK, NEW p \in Seq(Byte), p # <<>>, Write(p)
    PROVE  TypeOK' /\ LazyReadAll' = LazyReadAll \o p
<1> DEFINE n == Len(p)
           m == Malloc(n)
<1>0. n \in Nat /\ n > 0
  OBVIOUS
<1>1. MallocOK(m, n)
  BY <1>0, MallocProperties DEF Write
<1>2. WriteInto(m, p) /\ size' = m.size /\ r' = m.r /\ isEmpty' = FALSE /\ got' = <<>>
  BY DEF Write
<1> HIDE DEF m
<1>3. PICK sz \in Nat, rd \in Nat, wr \in Nat, L \in Nat :
         sz = m.size /\ rd = m.r /\ wr = m.w /\ L = Length
  BY <1>1 DEF MallocOK
<1>b. PICK b \in [0..sz - 1 -> Byte] : b = m.buf
  BY <1>1, <1>3 DEF MallocOK
<1>c. /\ rd < sz /\ wr < sz /\ L + n <= sz
      /\ wr = Wrap(rd + L, sz)
      /\ \A i \in 1..L : b[Wrap(rd + i - 1, sz)] = LazyReadAll[i]
  BY <1>1, <1>3, <1>b DEF MallocOK
<1>d. r' = rd /\ size' = sz
  BY <1>2, <1>3
<1>4. /\ buf' \in [0..sz - 1 -> Byte]
      /\ w' \in Nat /\ w' < sz
      /\ w' = IF L + n = sz THEN rd ELSE Wrap(rd + L + n, sz)
      /\ \A i \in 1..L : buf'[Wrap(rd + i - 1, sz)] = b[Wrap(rd + i - 1, sz)]
      /\ \A i \in 1..n : buf'[Wrap(rd + L + i - 1, sz)] = p[i]
  <2>1. Copied(sz, b, rd, wr, p, buf', w')
    BY <1>2, <1>3, <1>b DEF WriteInto, Copied
  <2>2. L + Len(p) <= sz
    BY <1>c
  <2>3. Appended(sz, b, rd, L, p, buf', w')
    BY <1>c, <2>1, <2>2, CopiesProperties
  <2> QED
    BY <2>3 DEF Appended
<1>e. r' \in Nat /\ w' \in Nat /\ r' < size' /\ w' < size' /\ size' \in Nat
  BY <1>d, <1>c, <1>4
<1>5. TypeOK'
  <2>1. PointersOK'
    <3>1. isEmpty' \in BOOLEAN /\ ~isEmpty'
      BY <1>2
    <3>2. size' # 0
      BY <1>e
    <3> QED
      BY <3>1, <3>2, <1>e DEF PointersOK
  <2>2. buf' \in [0..size' - 1 -> Byte]
    BY <1>d, <1>4
  <2> QED
    BY <1>2, <2>1, <2>2 DEF TypeOK
<1>6. Length' = L + n
  <2>1. Length' = IF rd = w' THEN sz ELSE IF w' > rd THEN w' - rd ELSE sz - rd + w'
    BY <1>2, <1>d DEF Length
  <2>2. /\ w' \in Nat /\ L + n <= sz /\ rd < sz
        /\ w' = IF L + n = sz THEN rd ELSE IF rd + L + n < sz THEN rd + L + n ELSE rd + L + n - sz
    BY <1>c, <1>4 DEF Wrap
  <2> HIDE DEF n
  <2> QED
    BY <1>0, <2>1, <2>2
<1>7. ContentsOK' /\ ContentsOK
  BY <1>5, ContentsProperties, PTL
<1>8. /\ LazyReadAll' \in Seq(Byte) /\ Len(LazyReadAll') = L + n
      /\ \A i \in 1..L + n : LazyReadAll'[i] = buf'[Wrap(rd + i - 1, sz)]
  BY <1>d, <1>6, <1>7 DEF ContentsOK, Position
<1>9. LazyReadAll \in Seq(Byte) /\ Len(LazyReadAll) = L
  BY <1>7, <1>3 DEF ContentsOK
<1> DEFINE old == LazyReadAll
           new == LazyReadAll'
           c == old \o p
<1>10. /\ c \in Seq(Byte) /\ Len(c) = L + n
       /\ \A i \in 1..L + n : c[i] = IF i <= L THEN old[i] ELSE p[i - L]
  BY <1>9, ConcatProperties
<1> HIDE DEF c, old, new
<1>11. ASSUME NEW i \in 1..L + n PROVE new[i] = c[i]
  <2>0. i \in Int /\ 1 <= i /\ i <= L + n /\ L \in Nat /\ n \in Nat
    BY <1>0
  <2>1. new[i] = buf'[Wrap(rd + i - 1, sz)]
    BY <1>8 DEF new
  <2>2. CASE i <= L
    <3>1. i \in 1..L
      BY <2>0, <2>2
    <3> QED
      BY <1>c, <1>4, <1>10, <2>1, <2>2, <3>1 DEF old
  <2>3. CASE ~(i <= L)
    <3>1. i - L \in 1..n /\ rd + L + (i - L) - 1 = rd + i - 1
      BY <2>0, <2>3
    <3>2. buf'[Wrap(rd + L + (i - L) - 1, sz)] = p[i - L]
      BY <1>4, <3>1
    <3>3. c[i] = p[i - L]
      BY <1>10, <2>3
    <3> QED
      BY <2>1, <3>1, <3>2, <3>3
  <2> QED
    BY <2>2, <2>3
<1>12. new = c
  BY <1>8, <1>10, <1>11, SameSequence DEF new
<1> QED
  BY <1>5, <1>12 DEF new, c, old

----------------------------------------------------------------------------
(* Reading: LazyRead returns the front of the contents, and moving the read *)
(* pointer leaves the rest of them.                                         *)

LEMMA HeadTailFront ==
    ASSUME TypeOK, ~isEmpty, NEW k \in 1..Length
    PROVE  HeadTail(k) = SubSeq(LazyReadAll, 1, k)
<1>0. /\ size \in Nat /\ r \in Nat /\ r < size /\ buf \in [0..size - 1 -> Byte]
      /\ k \in Nat /\ 1 <= k /\ k <= Length /\ Length \in Nat /\ Length <= size
  BY LengthProperties DEF TypeOK, PointersOK
<1>1. ContentsOK
  BY ContentsProperties
<1> DEFINE h == HeadTail(k)
           a == LazyReadAll
           f == SubSeq(a, 1, k)
<1>2. /\ h \in Seq(Byte) /\ Len(h) = k
      /\ \A i \in 1..k : h[i] = buf[Position(i)]
  <2>1. CASE r + k <= size
    <3>0. h = Slice(buf, r, r + k)
      BY <2>1 DEF HeadTail
    <3>1. PICK hi \in Nat : hi = r + k
      BY <1>0
    <3>2. /\ Slice(buf, r, hi) \in Seq(Byte) /\ Len(Slice(buf, r, hi)) = hi - r
          /\ \A i \in 1..hi - r : Slice(buf, r, hi)[i] = buf[r + i - 1]
      <4>1. r <= hi /\ hi <= size
        BY <1>0, <2>1, <3>1
      <4>2. size \in Nat /\ r \in Nat /\ buf \in [0..size - 1 -> Byte]
        BY <1>0
      <4> QED
        BY <4>1, <4>2, SliceProperties, ZenonT(60)
    <3>3. hi - r = k
      BY <1>0, <3>1
    <3>4. \A i \in 1..k : Position(i) = r + i - 1
      BY <1>0, <2>1 DEF Position, Wrap
    <3> QED
      BY <3>0, <3>1, <3>2, <3>3, <3>4
  <2>2. CASE ~(r + k <= size)
    <3>1. PICK x \in Nat : x = k - (size - r)
      BY <1>0, <2>2
    <3>2. h = Slice(buf, r, size) \o Slice(buf, 0, x)
      BY <2>2, <3>1 DEF HeadTail
    <3>3. x <= r /\ size - r + x = k
      BY <1>0, <3>1
    <3>4. /\ h \in Seq(Byte) /\ Len(h) = size - r + x
          /\ \A i \in 1..size - r + x : h[i] = buf[Wrap(r + i - 1, size)]
      <4>1. size \in Nat /\ r \in Nat /\ r < size /\ buf \in [0..size - 1 -> Byte]
        BY <1>0
      <4> HIDE DEF h
      <4> QED
        BY <3>2, <3>3, <4>1, WrappedSlices, ZenonT(60)
    <3> QED
      BY <3>3, <3>4 DEF Position
  <2> QED
    BY <2>1, <2>2
<1> HIDE DEF h
<1>3. /\ a \in Seq(Byte) /\ Len(a) = Length
      /\ \A i \in 1..Length : a[i] = buf[Position(i)]
  BY <1>1 DEF ContentsOK
<1> HIDE DEF a
<1>4. /\ f \in Seq(Byte) /\ Len(f) = k
      /\ \A i \in 1..k : f[i] = a[i]
  BY <1>0, <1>3, Halves
<1> HIDE DEF f
<1>5. \A i \in 1..k : h[i] = f[i]
  <2>1. \A i \in 1..k : i \in 1..Length
    BY <1>0
  <2> QED
    BY <1>2, <1>3, <1>4, <2>1
<1>6. h = f
  BY <1>2, <1>4, <1>5, SameSequence
<1> QED
  BY <1>6 DEF h, f, a

\* What LazyRead returns is the front of the contents, all of it when it is
\* shorter than the caller asked for.
LEMMA LazyReadFront ==
    ASSUME TypeOK, NEW n \in Nat
    PROVE  /\ LazyRead(n) = SubSeq(LazyReadAll, 1, AtMost(n, Length))
           /\ LazyRead(n) \in Seq(Byte)
<1>0. Length \in Nat /\ (Length = 0 <=> isEmpty)
  BY LengthProperties DEF TypeOK, PointersOK
<1>1. LazyReadAll \in Seq(Byte) /\ Len(LazyReadAll) = Length
  BY ContentsProperties DEF ContentsOK
<1>2. PICK k \in Nat : k = AtMost(n, Length)
  BY <1>0 DEF AtMost
<1>3. k <= Length /\ (k = 0 <=> isEmpty \/ n = 0)
  BY <1>0, <1>2 DEF AtMost
<1>4. SubSeq(LazyReadAll, 1, k) \in Seq(Byte)
  BY <1>1, <1>3, Halves
<1>5. CASE isEmpty \/ n = 0
  <2>1. k = 0
    BY <1>3, <1>5
  <2>2. SubSeq(LazyReadAll, 1, 0) = <<>>
    BY SubSeqEmpty
  <2>3. LazyRead(n) = <<>>
    BY <1>5 DEF LazyRead
  <2> QED
    BY <1>2, <1>4, <2>1, <2>2, <2>3
<1>6. CASE ~(isEmpty \/ n = 0)
  <2>1. k \in 1..Length
    BY <1>0, <1>3, <1>6
  <2>2. LazyRead(n) = HeadTail(k)
    BY <1>2, <1>6 DEF LazyRead
  <2>3. HeadTail(k) = SubSeq(LazyReadAll, 1, k)
    BY <1>6, <2>1, HeadTailFront
  <2> QED
    BY <1>2, <1>4, <2>2, <2>3
<1> QED
  BY <1>5, <1>6

\* Moving the read pointer by k drops the k oldest bytes.
LEMMA AdvanceProperties ==
    ASSUME TypeOK, ~isEmpty, NEW k \in 1..Length, Advance(k), got' \in Seq(Byte)
    PROVE  TypeOK' /\ LazyReadAll' = SubSeq(LazyReadAll, k + 1, Len(LazyReadAll))
<1>0. /\ size \in Nat /\ r \in Nat /\ w \in Nat /\ r < size /\ w < size
      /\ k \in Nat /\ 1 <= k
  BY LengthProperties DEF TypeOK, PointersOK
<1>1. PICK L \in Nat : L = Length /\ k <= L /\ L <= size
  BY LengthProperties DEF TypeOK, PointersOK
<1>2. /\ r' = IF r + k >= size THEN r + k - size ELSE r + k
      /\ buf' = buf /\ size' = size /\ w' = w
  BY <1>0 DEF Advance, Masked
<1>e. isEmpty' \in BOOLEAN /\ (isEmpty' <=> r' = w)
  <2>1. isEmpty' = (isEmpty \/ r' = w)
    BY DEF Advance
  <2> QED
    BY <2>1, Zenon
<1>3. r' \in Nat /\ r' < size
  BY <1>0, <1>1, <1>2
<1>4. TypeOK'
  <2>1. isEmpty' \in BOOLEAN /\ (isEmpty' => r' = w') /\ size' # 0
    BY <1>0, <1>2, <1>e
  <2>2. size' \in Nat /\ r' \in Nat /\ w' \in Nat /\ r' < size' /\ w' < size'
    BY <1>0, <1>2, <1>3
  <2>3. PointersOK'
    BY <2>1, <2>2 DEF PointersOK
  <2> QED
    BY <1>2, <2>3 DEF TypeOK
<1>5. ContentsOK /\ ContentsOK'
  BY <1>4, ContentsProperties, PTL
<1>6. L = IF r = w THEN size ELSE IF w > r THEN w - r ELSE size - r + w
  BY <1>1 DEF Length
<1>7. Length' = L - k
  <2>1. Length' = IF r' = w THEN 0 ELSE IF w > r' THEN w - r' ELSE size - r' + w
    BY <1>2, <1>e DEF Length
  <2> QED
    BY <1>0, <1>1, <1>2, <1>6, <2>1
<1> DEFINE old == LazyReadAll
           new == LazyReadAll'
           rest == SubSeq(old, k + 1, Len(old))
<1>8. /\ new \in Seq(Byte) /\ Len(new) = L - k
      /\ \A i \in 1..L - k : new[i] = buf[Wrap(r' + i - 1, size)]
  BY <1>2, <1>5, <1>7 DEF ContentsOK, Position
<1>9. /\ old \in Seq(Byte) /\ Len(old) = L
      /\ \A i \in 1..L : old[i] = buf[Wrap(r + i - 1, size)]
  BY <1>1, <1>5 DEF ContentsOK, Position
<1> HIDE DEF old, new
<1>10. /\ rest \in Seq(Byte) /\ Len(rest) = L - k
       /\ \A i \in 1..L - k : rest[i] = old[k + i]
  BY <1>0, <1>1, <1>9, Halves
<1> HIDE DEF rest
<1>11. \A i \in 1..L - k : k + i \in 1..L /\ Wrap(r + (k + i) - 1, size) = Wrap(r' + i - 1, size)
  BY <1>0, <1>1, <1>2 DEF Wrap
<1>12. \A i \in 1..L - k : new[i] = rest[i]
  BY <1>8, <1>9, <1>10, <1>11
<1>13. new = rest
  BY <1>8, <1>10, <1>12, SameSequence
<1> QED
  BY <1>4, <1>13 DEF new, rest, old

----------------------------------------------------------------------------
LEMMA ContentsUntouched ==
    ASSUME UNCHANGED <<buf, size, r, w, isEmpty>>, TypeOK, got' \in Seq(Byte)
    PROVE  TypeOK' /\ LazyReadAll' = LazyReadAll
<1>1. TypeOK'
  BY DEF TypeOK, PointersOK
<1>2. LazyReadAll' = LazyReadAll
  BY DEF LazyReadAll, Slice
<1> QED
  BY <1>1, <1>2

LEMMA ContentsParts ==
    ASSUME TypeOK
    PROVE  /\ LazyReadAll \in Seq(Byte) /\ Len(LazyReadAll) = Length
           /\ SubSeq(LazyReadAll, 1, Length) = LazyReadAll
           /\ \A k \in Nat : k >= Length => SubSeq(LazyReadAll, k + 1, Len(LazyReadAll)) = <<>>
           /\ SubSeq(LazyReadAll, 0 + 1, Len(LazyReadAll)) = LazyReadAll
<1> DEFINE a == LazyReadAll
<1>1. a \in Seq(Byte) /\ Len(a) = Length
  BY ContentsProperties DEF ContentsOK
<1> HIDE DEF a
<1>2. SubSeq(a, 1, Length) = a
  <2>1. Length \in Nat
    BY <1>1
  <2>2. /\ SubSeq(a, 1, Length) \in Seq(Byte) /\ Len(SubSeq(a, 1, Length)) = Length
        /\ \A i \in 1..Length : SubSeq(a, 1, Length)[i] = a[i]
    BY <1>1, <2>1, Halves
  <2> QED
    BY <1>1, <2>2, SameSequence
<1>3. ASSUME NEW k \in Nat, k >= Length PROVE SubSeq(a, k + 1, Len(a)) = <<>>
  <2>1. k + 1 \in Int /\ Len(a) \in Int /\ Len(a) < k + 1
    BY <1>1, <1>3
  <2> QED
    BY <2>1, SubSeqEmpty
<1>4. SubSeq(a, 0 + 1, Len(a)) = a
  <2>1. 0 + 1 = 1
    OBVIOUS
  <2> QED
    BY <1>1, <1>2, <2>1
<1> QED
  BY <1>1, <1>2, <1>3, <1>4 DEF a

LEMMA ResetProperties ==
    ASSUME TypeOK, Reset, got' \in Seq(Byte)
    PROVE  TypeOK' /\ LazyReadAll' = <<>>
<1>1. PointersOK'
  BY DEF TypeOK, PointersOK, Reset
<1>2. buf' \in [0..size' - 1 -> Byte]
  BY DEF TypeOK, Reset
<1>3. LazyReadAll' = <<>>
  BY DEF LazyReadAll, Reset
<1> QED
  BY <1>1, <1>2, <1>3 DEF TypeOK

\* Read hands out the front of the contents and leaves the rest.
LEMMA ReadProperties ==
    ASSUME TypeOK, NEW n \in Nat, Read(n)
    PROVE  TypeOK' /\ Fifo!Take(n)
<1>0. Length \in Nat /\ (Length = 0 <=> isEmpty)
  BY LengthProperties DEF TypeOK, PointersOK
<1>1. /\ LazyReadAll \in Seq(Byte) /\ Len(LazyReadAll) = Length
      /\ \A k \in Nat : k >= Length => SubSeq(LazyReadAll, k + 1, Len(LazyReadAll)) = <<>>
      /\ SubSeq(LazyReadAll, 0 + 1, Len(LazyReadAll)) = LazyReadAll
  BY ContentsParts
<1>2. got' = LazyRead(n) /\ got' \in Seq(Byte)
  BY LazyReadFront DEF Read
<1>3. got' = Fifo!First(LazyReadAll, n)
  <2>1. AtMost(n, Length) = IF n < Length THEN n ELSE Length
    BY <1>0 DEF AtMost
  <2> QED
    BY <1>1, <1>2, <2>1, LazyReadFront DEF Fifo!First
<1>4. CASE n = 0 \/ isEmpty
  <2>1. UNCHANGED <<buf, size, r, w, isEmpty>>
    BY <1>4 DEF Read
  <2>2. TypeOK' /\ LazyReadAll' = LazyReadAll
    BY <1>2, <2>1, ContentsUntouched
  <2>3. SubSeq(LazyReadAll, n + 1, Len(LazyReadAll)) = LazyReadAll
    <3>1. CASE n = 0
      BY <1>1, <3>1
    <3>2. CASE isEmpty
      <4>1. LazyReadAll = <<>> /\ n >= Length
        BY <1>0, <3>2 DEF LazyReadAll
      <4> QED
        BY <1>1, <4>1
    <3> QED
      BY <1>4, <3>1, <3>2
  <2> QED
    BY <1>3, <2>2, <2>3 DEF Fifo!Take, Fifo!After
<1>5. CASE ~(n = 0 \/ isEmpty)
  <2>1. PICK k \in 1..Length : k = AtMost(n, Length)
    BY <1>0, <1>5 DEF AtMost
  <2>2. Advance(k)
    BY <1>5, <2>1 DEF Read
  <2>3. TypeOK' /\ LazyReadAll' = SubSeq(LazyReadAll, k + 1, Len(LazyReadAll))
    BY <1>2, <1>5, <2>2, AdvanceProperties
  <2>4. SubSeq(LazyReadAll, k + 1, Len(LazyReadAll)) = SubSeq(LazyReadAll, n + 1, Len(LazyReadAll))
    <3>1. CASE n <= Length
      <4>1. k = n
        BY <1>0, <2>1, <3>1 DEF AtMost
      <4> QED
        BY <4>1
    <3>2. CASE ~(n <= Length)
      <4>1. k = Length /\ n >= Length /\ k \in Nat
        BY <1>0, <2>1, <3>2 DEF AtMost
      <4> QED
        BY <1>1, <4>1
    <3> QED
      BY <3>1, <3>2
  <2> QED
    BY <1>3, <2>3, <2>4 DEF Fifo!Take, Fifo!After
<1> QED
  BY <1>4, <1>5

\* Shift drops what Read would hand out.
LEMMA ShiftProperties ==
    ASSUME TypeOK, NEW n \in Nat, Shift(n)
    PROVE  TypeOK' /\ Fifo!Drop(n)
<1>0. Length \in Nat /\ (Length = 0 <=> isEmpty)
  BY LengthProperties DEF TypeOK, PointersOK
<1>1. /\ \A k \in Nat : k >= Length => SubSeq(LazyReadAll, k + 1, Len(LazyReadAll)) = <<>>
      /\ SubSeq(LazyReadAll, 0 + 1, Len(LazyReadAll)) = LazyReadAll
  BY ContentsParts
<1>2. got' = <<>> /\ got' \in Seq(Byte)
  BY DEF Shift
<1>3. CASE n = 0
  <2>1. TypeOK' /\ LazyReadAll' = LazyReadAll
    BY <1>2, <1>3, ContentsUntouched DEF Shift
  <2> QED
    BY <1>1, <1>2, <1>3, <2>1 DEF Fifo!Drop, Fifo!After
<1>4. CASE n # 0 /\ n < Length
  <2>1. n \in 1..Length /\ ~isEmpty /\ Advance(n)
    BY <1>0, <1>4 DEF Shift
  <2>2. TypeOK' /\ LazyReadAll' = SubSeq(LazyReadAll, n + 1, Len(LazyReadAll))
    BY <1>2, <2>1, AdvanceProperties
  <2> QED
    BY <1>2, <2>2 DEF Fifo!Drop, Fifo!After
<1>5. CASE n # 0 /\ ~(n < Length)
  <2>1. Reset /\ n >= Length
    BY <1>0, <1>5 DEF Shift
  <2>2. TypeOK' /\ LazyReadAll' = <<>>
    BY <1>2, <2>1, ResetProperties
  <2> QED
    BY <1>1, <1>2, <2>1, <2>2 DEF Fifo!Drop, Fifo!After
<1> QED
  BY <1>3, <1>4, <1>5

\* A call that only looks.
LEMMA PeekProperties ==
    ASSUME TypeOK, NEW n \in Nat, Peek(n)
    PROVE  TypeOK' /\ Fifo!Look(n)
<1>1. got' = LazyRead(n) /\ got' \in Seq(Byte)
  BY LazyReadFront DEF Peek
<1>2. TypeOK' /\ LazyReadAll' = LazyReadAll
  BY <1>1, ContentsUntouched DEF Peek
<1>3. got' = Fifo!First(LazyReadAll, n)
  <2>1. LazyReadAll \in Seq(Byte) /\ Len(LazyReadAll) = Length
    BY ContentsParts
  <2>2. AtMost(n, Length) = IF n < Length THEN n ELSE Length
    BY <2>1 DEF AtMost
  <2> QED
    BY <1>1, <2>1, <2>2, LazyReadFront DEF Fifo!First
<1> QED
  BY <1>2, <1>3 DEF Fifo!Look

LEMMA PeekAllProperties ==
    ASSUME TypeOK, PeekAll
    PROVE  TypeOK' /\ Fifo!Look(Len(LazyReadAll))
<1>1. /\ LazyReadAll \in Seq(Byte) /\ Len(LazyReadAll) = Length /\ Length \in Nat
      /\ SubSeq(LazyReadAll, 1, Length) = LazyReadAll
  BY ContentsParts
<1>2. TypeOK' /\ LazyReadAll' = LazyReadAll
  BY <1>1, ContentsUntouched DEF PeekAll
<1>3. Fifo!First(LazyReadAll, Len(LazyReadAll)) = LazyReadAll
  BY <1>1 DEF Fifo!First
<1> QED
  BY <1>2, <1>3 DEF Fifo!Look, PeekAll

LEMMA PeekWithProperties ==
    ASSUME TypeOK, NEW p \in Seq(Byte), PeekWith(p)
    PROVE  TypeOK' /\ Fifo!LookWith(p)
<1>1. LazyReadAll \in Seq(Byte)
  BY ContentsParts
<1>2. got' = LazyReadAll \o p /\ got' \in Seq(Byte)
  BY <1>1, ConcatProperties DEF PeekWith, WithByteBuffer
<1>3. TypeOK' /\ LazyReadAll' = LazyReadAll
  BY <1>2, ContentsUntouched DEF PeekWith
<1> QED
  BY <1>2, <1>3 DEF Fifo!LookWith

LEMMA PutProperties ==
    ASSUME TypeOK, NEW p \in Seq(Byte), Write(p)
    PROVE  TypeOK' /\ Fifo!Put(p)
<1>1. got' = <<>> /\ got' \in Seq(Byte)
  BY DEF Write
<1>2. CASE p = <<>>
  <2>1. TypeOK' /\ LazyReadAll' = LazyReadAll
    BY <1>1, <1>2, ContentsUntouched DEF Write
  <2>2. LazyReadAll \o p = LazyReadAll
    BY <1>2, ContentsParts, ConcatEmptySeq
  <2> QED
    BY <1>1, <2>1, <2>2 DEF Fifo!Put
<1>3. CASE p # <<>>
  <2>1. TypeOK' /\ LazyReadAll' = LazyReadAll \o p
    BY <1>3, WriteProperties
  <2> QED
    BY <1>1, <2>1 DEF Fifo!Put
<1> QED
  BY <1>2, <1>3

LEMMA ResetDrops ==
    ASSUME TypeOK, Reset, got' = <<>>
    PROVE  TypeOK' /\ Fifo!Drop(Len(LazyReadAll))
<1>1. TypeOK' /\ LazyReadAll' = <<>>
  <2>1. got' \in Seq(Byte)
    OBVIOUS
  <2> QED
    BY <2>1, ResetProperties
<1>2. SubSeq(LazyReadAll, Len(LazyReadAll) + 1, Len(LazyReadAll)) = <<>>
  <2>1. /\ Len(LazyReadAll) = Length /\ Length \in Nat /\ Length >= Length
        /\ \A k \in Nat : k >= Length => SubSeq(LazyReadAll, k + 1, Len(LazyReadAll)) = <<>>
    BY ContentsParts
  <2> QED
    BY <2>1
<1> QED
  BY <1>1, <1>2 DEF Fifo!Drop, Fifo!After

LEMMA BufferStep ==
    ASSUME TypeOK, Next
    PROVE  TypeOK' /\ Fifo!Next
<1>0. Chunks \subseteq Seq(Byte) /\ Counts \subseteq Nat /\ \A c \in Byte : <<c>> \in Seq(Byte)
  BY ByteAssumption
<1>1. ASSUME NEW p \in Chunks, Write(p) PROVE TypeOK' /\ Fifo!Next
  BY <1>0, <1>1, PutProperties DEF Fifo!Next
<1>2. ASSUME NEW p \in Chunks, PeekWith(p) PROVE TypeOK' /\ Fifo!Next
  BY <1>0, <1>2, PeekWithProperties DEF Fifo!Next
<1>3. ASSUME NEW c \in Byte, WriteByte(c) PROVE TypeOK' /\ Fifo!Next
  <2>1. TypeOK' /\ Fifo!Put(<<c>>)
    BY <1>0, <1>3, PutProperties DEF WriteByte
  <2> QED
    BY <2>1 DEF Fifo!Next
<1>4. ASSUME NEW n \in Counts, Read(n) PROVE TypeOK' /\ Fifo!Next
  BY <1>0, <1>4, ReadProperties DEF Fifo!Next
<1>5. ASSUME NEW n \in Counts, Shift(n) PROVE TypeOK' /\ Fifo!Next
  BY <1>0, <1>5, ShiftProperties DEF Fifo!Next
<1>6. ASSUME NEW n \in Counts, Peek(n) PROVE TypeOK' /\ Fifo!Next
  BY <1>0, <1>6, PeekProperties DEF Fifo!Next
<1>7. CASE ReadByte
  <2>1. TypeOK' /\ Fifo!Take(1)
    BY <1>7, ReadProperties DEF ReadByte
  <2> QED
    BY <2>1 DEF Fifo!Next
<1>8. CASE PeekAll
  BY <1>8, PeekAllProperties DEF Fifo!Next
<1>9. CASE Reset /\ got' = <<>>
  BY <1>9, ResetDrops DEF Fifo!Next
<1> QED
  BY <1>1, <1>2, <1>3, <1>4, <1>5, <1>6, <1>7, <1>8, <1>9 DEF Next

LEMMA InitProperties == Init => TypeOK /\ Fifo!Init
<1> SUFFICES ASSUME Init PROVE TypeOK /\ Fifo!Init
  OBVIOUS
<1>1. PICK n \in NewSizes : New(n)
  BY DEF Init
<1>2. size \in Nat
  BY <1>1, ByteAssumption, CeilAssumption DEF New
<1>3. buf \in [0..size - 1 -> Byte]
  BY <1>1, ByteAssumption DEF New, Make
<1>4. r = 0 /\ w = 0 /\ isEmpty = TRUE /\ got = <<>>
  BY <1>1 DEF New, Init
<1>5. PointersOK
  BY <1>2, <1>4 DEF PointersOK
<1>6. LazyReadAll = <<>>
  BY <1>4 DEF LazyReadAll
<1> QED
  BY <1>3, <1>4, <1>5, <1>6 DEF TypeOK, Fifo!Init

LEMMA StepProperties == TypeOK /\ [Next]_vars => TypeOK' /\ [Fifo!Next]_(Fifo!vars)
<1> SUFFICES ASSUME TypeOK, [Next]_vars
             PROVE  TypeOK' /\ [Fifo!Next]_(Fifo!vars)
  OBVIOUS
<1>1. CASE Next
  BY <1>1, BufferStep
<1>2. CASE UNCHANGED vars
  <2>1. got' = got /\ got' \in Seq(Byte) /\ UNCHANGED <<buf, size, r, w, isEmpty>>
    BY <1>2 DEF vars, TypeOK
  <2>2. TypeOK' /\ LazyReadAll' = LazyReadAll
    BY <2>1, ContentsUntouched
  <2> QED
    BY <2>1, <2>2 DEF Fifo!vars
<1> QED
  BY <1>1, <1>2

\* The pointers stay inside the slice, through every wrap and every growth, and
\* are equal where the buffer is marked empty.
THEOREM TypeCorrect == Spec => []TypeOK
<1>1. Init => TypeOK
  BY InitProperties
<1>2. TypeOK /\ [Next]_vars => TypeOK'
  BY StepProperties
<1> QED
  BY <1>1, <1>2, PTL DEF Spec

\* The circular buffer is a queue of bytes: whatever wraps and whatever grows, no
\* call of Write, Read, Shift, LazyRead, LazyReadAll, WithByteBuffer or Reset
\* loses, repeats or reorders a byte.
THEOREM ImplementsByteFifo == Spec => FifoSpec
<1>1. Init => Fifo!Init
  BY InitProperties
<1>2. TypeOK /\ [Next]_vars => [Fifo!Next]_(Fifo!vars)
  BY StepProperties
<1> QED
  BY <1>1, <1>2, TypeCorrect, PTL DEF Spec, FifoSpec, Fifo!Spec

\* The slice grows only for bytes that would not fit in it: no write gives up a
\* free slot to tell full from empty.
THEOREM GrowthNeeded == Spec => GrowsOnlyWhenFull
<1>1. ASSUME TypeOK, [Next]_vars PROVE [size' # size => Length' > size]_vars
  <2> SUFFICES ASSUME Next, size' # size PROVE Length' > size
    BY <1>1 DEF vars
  <2>1. PICK p \in Seq(Byte) : Write(p)
    <3>1. Chunks \subseteq Seq(Byte) /\ \A c \in Byte : <<c>> \in Seq(Byte)
      BY ByteAssumption
    <3> QED
      BY <3>1 DEF Next, WriteByte, ReadByte, Read, Shift, Peek, PeekAll, PeekWith, Reset, Advance
  <2>2. p # <<>> /\ Len(p) \in Nat /\ size' = Malloc(Len(p)).size
    BY <2>1 DEF Write
  <2>3. Length \in Nat /\ Free \in Nat /\ Length + Free = size
    BY <1>1, LengthProperties DEF TypeOK, PointersOK
  <2>4. Len(p) > Free
    BY <2>2, <2>3 DEF Malloc
  <2>5. TypeOK' /\ LazyReadAll' = LazyReadAll \o p
    BY <1>1, <2>1, <2>2, WriteProperties
  <2>6. ContentsOK /\ ContentsOK'
    BY <1>1, <2>5, ContentsProperties, PTL
  <2>7. /\ LazyReadAll \in Seq(Byte) /\ Len(LazyReadAll) = Length
        /\ Len(LazyReadAll') = Length'
    BY <2>6 DEF ContentsOK
  <2>8. Length' = Length + Len(p)
    BY <2>5, <2>7, ConcatProperties
  <2> QED
    BY <2>2, <2>3, <2>4, <2>8
<1> QED
  BY <1>1, TypeCorrect, PTL DEF Spec, GrowsOnlyWhenFull
=============================================================================
