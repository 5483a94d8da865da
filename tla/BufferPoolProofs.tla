-------------------------- MODULE BufferPoolProofs --------------------------
(***************************************************************************)
(* Pooled byte buffers have one owner, and a packet is not overwritten by  *)
(* its own loop, for any number of connections, loops and buffers.         *)
(***************************************************************************)
EXTENDS BufferPool, TLAPS

Domains ==
    /\ home \in [Conns -> Loops]
    /\ stage \in [Conns -> {"out", "unpack", "read", "packet"}]
    /\ byteBuffer \in [Conns -> Bufs \cup {None}]
    /\ view \in [Conns -> Bufs \cup {None, PacketBuf}]
    /\ pool \in [Bufs -> Nat]
    /\ writer \in [Bufs -> Conns]

\* A loop is busy with one connection at most.
OneBusy ==
    \A c, d \in Conns :
        stage[c] # "out" /\ stage[d] # "out" /\ home[c] = home[d] => c = d

\* A connection's buffer has the connection's bytes.
OwnBytes == \A c \in Conns : byteBuffer[c] \in Bufs => writer[byteBuffer[c]] = c

ViewInPacket == \A c \in Conns : view[c] \in Bufs => stage[c] = "packet"

Inv == Domains /\ OneBusy /\ OwnBytes /\ ViewInPacket /\ OneOwner /\ PacketKeptByLoop

LEMMA InitInv == Init => Inv
<1> SUFFICES ASSUME Init PROVE Inv  OBVIOUS
<1>1. (CHOOSE c \in Conns : TRUE) \in Conns  BY BufAssumption
<1>2. Domains  BY <1>1 DEF Init, Domains
<1>3. OneBusy /\ OneOwner  BY BufAssumption DEF Init, OneBusy, OneOwner
<1>4. OwnBytes /\ ViewInPacket /\ PacketKeptByLoop
  BY BufAssumption DEF Init, OwnBytes, ViewInPacket, PacketKeptByLoop
<1> QED  BY <1>2, <1>3, <1>4 DEF Inv

\* Giving a buffer back leaves it in one place.
LEMMA PutBackInv ==
    ASSUME Inv, NEW c \in Conns, PutBack(c)
    PROVE  /\ byteBuffer' \in [Conns -> Bufs \cup {None}] /\ pool' \in [Bufs -> Nat]
           /\ OneOwner' /\ writer' = writer
           /\ \A d \in Conns : byteBuffer'[d] \in Bufs => byteBuffer'[d] = byteBuffer[d]
BY BufAssumption DEF Inv, Domains, OneOwner, PutBack

LEMMA NextInv ==
    ASSUME Inv, [Next]_vars
    PROVE  Inv'
<1> USE DEF Inv, bufVars
<1>1. ASSUME NEW c \in Conns, Handle(c)
      PROVE  Inv'
  <2>1. (Domains /\ OneBusy)'  BY <1>1 DEF Handle, LoopIdle, Domains, OneBusy
  <2>2. (OwnBytes /\ ViewInPacket /\ OneOwner /\ PacketKeptByLoop)'
    BY <1>1 DEF Handle, Domains, OwnBytes, ViewInPacket, OneOwner, PacketKeptByLoop
  <2> QED  BY <2>1, <2>2
<1>2. ASSUME NEW c \in Conns, Read(c)
      PROVE  Inv'
  <2>1. (OneBusy /\ ViewInPacket)'
    BY <1>2 DEF Read, Domains, OneBusy, ViewInPacket
  <2>2. CASE UNCHANGED bufVars
    BY <1>2, <2>1, <2>2
    DEF Read, Domains, OwnBytes, OneOwner, PacketKeptByLoop
  <2>3. ASSUME NEW b \in Bufs, GetFor(c, b)
        PROVE  Inv'
    <3>1. \A d \in Conns : byteBuffer[d] # b
      BY <2>3 DEF GetFor, Unused, OneOwner, Domains
    <3>2. \A d \in Conns : view[d] = b => home[d] # home[c]
      BY <1>2 DEF Read, Domains, ViewInPacket, OneBusy
    <3>3. Domains'  BY <1>2, <2>3 DEF Read, GetFor, Domains, OneOwner
    <3>4. OwnBytes'  BY <1>2, <2>3, <3>1 DEF Read, GetFor, Domains, OwnBytes
    <3>5. OneOwner'  BY <1>2, <2>3, <3>1 DEF Read, GetFor, Unused, Domains, OneOwner
    <3>6. PacketKeptByLoop'
      BY <1>2, <2>3, <3>2 DEF Read, GetFor, Domains, PacketKeptByLoop
    <3> QED  BY <2>1, <3>3, <3>4, <3>5, <3>6
  <2> QED  BY <1>2, <2>2, <2>3 DEF Read
<1>3. ASSUME NEW c \in Conns, Packet(c)
      PROVE  Inv'
  <2>1. \/ PutBack(c)
        \/ UNCHANGED bufVars
    BY <1>3 DEF Packet, ShiftN, ResetBuffer
  <2>2. /\ byteBuffer' \in [Conns -> Bufs \cup {None}] /\ pool' \in [Bufs -> Nat]
        /\ OneOwner' /\ writer' = writer
        /\ \A d \in Conns : byteBuffer'[d] \in Bufs => byteBuffer'[d] = byteBuffer[d]
    <3>1. CASE PutBack(c)  BY <3>1, PutBackInv
    <3>2. CASE UNCHANGED bufVars  BY <3>2 DEF Domains, OneOwner
    <3> QED  BY <2>1, <3>1, <3>2
  <2>3. (Domains /\ OneBusy /\ OwnBytes /\ ViewInPacket)'
    BY <1>3, <2>2, BufAssumption
    DEF Packet, ShiftN, ResetBuffer, Domains, OneBusy, OwnBytes, ViewInPacket
  <2>4. PacketKeptByLoop'
    BY <1>3, <2>2, BufAssumption
    DEF Packet, ShiftN, ResetBuffer, Domains, OwnBytes, PacketKeptByLoop
  <2> QED  BY <2>2, <2>3, <2>4
<1>4. ASSUME NEW c \in Conns, PacketDone(c)
      PROVE  Inv'
  <2>1. PutBack(c) \/ UNCHANGED bufVars  BY <1>4 DEF PacketDone, Release
  <2>2. /\ byteBuffer' \in [Conns -> Bufs \cup {None}] /\ pool' \in [Bufs -> Nat]
        /\ OneOwner' /\ writer' = writer
        /\ \A d \in Conns : byteBuffer'[d] \in Bufs => byteBuffer'[d] = byteBuffer[d]
    <3>1. CASE PutBack(c)  BY <3>1, PutBackInv
    <3>2. CASE UNCHANGED bufVars  BY <3>2 DEF Domains, OneOwner
    <3> QED  BY <2>1, <3>1, <3>2
  <2>3. stage' \in {[stage EXCEPT ![c] = s] : s \in {"unpack", "out"}}
    BY <1>4 DEF PacketDone
  <2>4. home' = home /\ view' = [view EXCEPT ![c] = None] /\ stage[c] = "packet"
    BY <1>4 DEF PacketDone
  <2>5. Domains'  BY <2>2, <2>3, <2>4 DEF Domains
  <2>6. (OneBusy /\ OwnBytes)'  BY <2>2, <2>3, <2>4 DEF Domains, OneBusy, OwnBytes
  <2>7. (ViewInPacket /\ PacketKeptByLoop)'
    BY <2>2, <2>3, <2>4, BufAssumption DEF Domains, ViewInPacket, PacketKeptByLoop
  <2> QED  BY <2>2, <2>5, <2>6, <2>7
<1>5. ASSUME NEW c \in Conns, NoPacket(c)
      PROVE  Inv'
  BY <1>5
  DEF NoPacket, Domains, OneBusy, OwnBytes, ViewInPacket, OneOwner, PacketKeptByLoop
<1>6. ASSUME NEW c \in Conns, HandleClose(c)
      PROVE  Inv'
  <2>1. PutBack(c)  BY <1>6 DEF HandleClose, Release
  <2> QED
    BY <1>6, <2>1, PutBackInv
    DEF HandleClose, Domains, OneBusy, OwnBytes, ViewInPacket, PacketKeptByLoop
<1>7. CASE UNCHANGED vars
  BY <1>7
  DEF vars, Domains, OneBusy, OwnBytes, ViewInPacket, OneOwner, PacketKeptByLoop
<1> QED  BY <1>1, <1>2, <1>3, <1>4, <1>5, <1>6, <1>7 DEF Next

LEMMA Invariance == Spec => []Inv
BY InitInv, NextInv, PTL DEF Spec

\* No order of Read, ReadN, ShiftN, ResetBuffer and release puts a byte buffer
\* into the pool twice or leaves it with two connections.
THEOREM BuffersHaveOneOwner == Spec => []OneOwner
<1>1. Inv => OneOwner  BY DEF Inv
<1> QED  BY <1>1, Invariance, PTL

\* A packet whose buffer has gone back to the pool is overwritten only by a
\* connection of another loop: with one loop packets are safe in OnPacket.
THEOREM PacketsKept == Spec => []PacketKeptByLoop
<1>1. Inv => PacketKeptByLoop  BY DEF Inv
<1> QED  BY <1>1, Invariance, PTL
=============================================================================
