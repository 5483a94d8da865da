------------------------------ MODULE WSProofs ------------------------------
(***************************************************************************)
(* What concurrent closes of a WebSocket connection can and cannot do, to *)
(* it, to the packets it delivers and to the messages written meanwhile,  *)
(* for any callers of Close and Write, messages and cuts of the stream.   *)
(***************************************************************************)
EXTENDS WSWrite, Integers, SequenceTheorems, TLAPS

\* msgLoop is between a successful test of connected and OnPacket's return.
Unpacking == pc[Loop] \in {"look", "shift", "packet"}

PcOK == pc \in [Procs -> {"idle", "recv", "unpack", "look", "shift", "packet", "test", "set",
                          "onclose", "close", "put", "nil", "done"}]

\* A late packet is the one that msgLoop had begun to unpack; after it Read finds
\* the connection closed, and only ReadN unpacks another.
LateInv ==
    /\ PcOK
    /\ late \in {0, 1}
    /\ late = 1 => ~connected /\ (Unpacking => readN)

\* p has still to call OnClose.
Closing(p) == pc[p] \in {"set", "onclose"}

\* Without an overlap one process at most is on its way to OnClose, it is the
\* one that clears connected, and it was the only one.
CloseInv ==
    /\ PcOK
    /\ connected \in BOOLEAN /\ overlap \in BOOLEAN /\ onCloses \in Nat
    /\ ~overlap =>
         /\ \A p, q \in Procs : Closing(p) /\ Closing(q) => p = q
         /\ connected => onCloses = 0 /\ \A p \in Procs : pc[p] # "onclose"
         /\ onCloses <= 1
         /\ onCloses = 1 => \A p \in Procs : ~Closing(p)

LEMMA LateInvInit == Init => LateInv
<1> SUFFICES ASSUME Init PROVE LateInv  OBVIOUS
<1>1. PcOK  BY DEF Init, PcOK
<1>2. late = 0  BY DEF Init
<1> QED  BY <1>1, <1>2 DEF LateInv

LEMMA LateInvInductive ==
    ASSUME LateInv, [Next]_vars
    PROVE  LateInv'
<1> USE DEF LateInv, PcOK, Unpacking, Procs, Calls, Step, connVars, peerVars, history
<1>1. CASE OnConnect
  BY <1>1 DEF OnConnect
<1>2. ASSUME NEW p \in Procs, HandleClose(p)
      PROVE  LateInv'
  <2>1. CASE HandleTest(p)  BY <1>2, <2>1 DEF HandleTest
  <2>2. CASE HandleSet(p)  BY <1>2, <2>2 DEF HandleSet
  <2>3. CASE OnClose(p)  BY <1>2, <2>3 DEF OnClose
  <2>4. CASE CloseConn(p)  BY <1>2, <2>4 DEF CloseConn
  <2>5. CASE ReleasePut(p)  BY <1>2, <2>5 DEF ReleasePut
  <2>6. CASE ReleaseNil(p)  BY <1>2, <2>6 DEF ReleaseNil
  <2> QED  BY <1>2, <2>1, <2>2, <2>3, <2>4, <2>5, <2>6 DEF HandleClose
<1>3. ASSUME NEW p \in Calls, CloseCall(p)
      PROVE  LateInv'
  BY <1>3 DEF CloseCall
<1>4. CASE ReadMessage  BY <1>4 DEF ReadMessage
<1>5. CASE ReadError  BY <1>5 DEF ReadError, AfterError
<1>6. CASE ReadTest
  <2>1. UNCHANGED <<connected, late, readN>> /\ (connected \/ ~Unpacking')
    BY <1>6 DEF ReadTest, Readable
  <2> QED  BY <1>6, <2>1 DEF ReadTest
<1>7. CASE ReadN
  <2>1. UNCHANGED <<connected, late>> /\ (~connected => readN')
    BY <1>7 DEF ReadN
  <2> QED  BY <1>7, <2>1 DEF ReadN
<1>13. CASE ReadLook
  <2>1. UNCHANGED <<connected, late>> /\ Unpacking
    BY <1>13 DEF ReadLook
  <2>2. UNCHANGED readN \/ ~Unpacking'
    BY <1>13 DEF ReadLook
  <2> QED  BY <1>13, <2>1, <2>2 DEF ReadLook
<1>8. CASE Shift  BY <1>8 DEF Shift
<1>9. CASE OnPacket
  <2>1. UNCHANGED connected /\ Unpacking /\ ~Unpacking'
    BY <1>9 DEF OnPacket
  <2>2. late' = late \/ (late' = late + 1 /\ ~connected /\ ~readN)
    BY <1>9 DEF OnPacket
  <2>3. late' \in {0, 1} /\ (late' = 1 => ~connected)
    BY <2>1, <2>2
  <2> QED  BY <1>9, <2>1, <2>3 DEF OnPacket
<1>10. CASE PeerSend  BY <1>10 DEF PeerSend
<1>11. CASE PeerEnd  BY <1>11 DEF PeerEnd
<1>12. CASE UNCHANGED vars  BY <1>12 DEF vars
<1> QED  BY <1>1, <1>2, <1>3, <1>4, <1>5, <1>6, <1>7, <1>8, <1>9, <1>10, <1>11, <1>12,
            <1>13 DEF Next, MsgLoop

\* After connected is cleared, OnPacket is called once more at most with what
\* unPacket asked Read for (conn_ws.go:77-78,130 against Close on another
\* goroutine), however many packets the message holds and whatever ReadN
\* (conn_ws.go:150), which does not test connected, goes on with.
THEOREM LatePackets == Spec => []AtMostOneLatePacket
<1>1. LateInv => AtMostOneLatePacket
  BY DEF LateInv, AtMostOneLatePacket
<1> QED  BY <1>1, LateInvInit, LateInvInductive, PTL DEF Spec

LEMMA CloseInvInit ==
    ASSUME Init
    PROVE  CloseInv
<1>1. \A p \in Procs : pc[p] \in {"idle", "recv"}
  BY DEF Init
<1>2. PcOK
  BY DEF Init, PcOK
<1>3. \A p \in Procs : pc[p] \notin {"set", "onclose"} /\ pc[p] # "onclose"
  BY <1>1
<1>4. connected \in BOOLEAN /\ overlap \in BOOLEAN
  BY DEF Init
<1>5. onCloses \in Nat /\ onCloses = 0 /\ onCloses <= 1 /\ onCloses # 1
  BY DEF Init
<1> QED
  BY <1>2, <1>3, <1>4, <1>5 DEF CloseInv, Closing

\* Steps that neither test nor clear connected and bring nobody nearer to
\* OnClose.
LEMMA CloseInvFrame ==
    ASSUME CloseInv, PcOK',
           UNCHANGED <<connected, onCloses, overlap>>,
           \A p \in Procs : pc'[p] \in {"set", "onclose"} => pc'[p] = pc[p]
    PROVE  CloseInv'
BY DEF CloseInv, Closing

LEMMA CloseInvInductive ==
    ASSUME CloseInv, [Next]_vars
    PROVE  CloseInv'
<1> USE DEF PcOK, Step, connVars, peerVars, history
<1>0. PcOK /\ Loop \in Procs /\ Calls \subseteq Procs
  BY DEF CloseInv, Procs
<1>1. CASE OnConnect  BY <1>0, <1>1, CloseInvFrame DEF OnConnect
<1>2. ASSUME NEW p \in Procs, HandleClose(p)
      PROVE  CloseInv'
  <2>1. CASE HandleTest(p)
    <3>1. PcOK' /\ \A q \in Procs \ {p} : pc'[q] = pc[q]
      BY <1>0, <2>1 DEF HandleTest
    <3>2. CASE connected
      <4>1. pc'[p] = "set" /\ UNCHANGED <<connected, onCloses>>
        BY <1>0, <2>1, <3>2 DEF HandleTest
      <4>2. ~overlap' => ~overlap /\ \A q \in Procs \ {p} : ~Closing(q)
        BY <2>1, <3>2 DEF HandleTest, CloseInv, Closing
      <4>3. overlap' \in BOOLEAN
        BY <2>1 DEF HandleTest, CloseInv
      <4> QED  BY <3>1, <3>2, <4>1, <4>2, <4>3 DEF CloseInv, Closing
    <3>3. CASE ~connected
      <4>1. pc'[p] = "done" /\ UNCHANGED <<connected, onCloses, overlap>>
        BY <1>0, <2>1, <3>3 DEF HandleTest, CloseInv
      <4> QED  BY <3>1, <4>1, CloseInvFrame
    <3> QED  BY <3>2, <3>3
  <2>2. CASE HandleSet(p)
    <3>1. /\ PcOK' /\ pc[p] = "set" /\ pc'[p] = "onclose"
          /\ \A q \in Procs \ {p} : pc'[q] = pc[q]
          /\ connected' = FALSE /\ UNCHANGED <<onCloses, overlap>>
      BY <1>0, <2>2 DEF HandleSet
    <3> QED  BY <3>1 DEF CloseInv, Closing
  <2>3. CASE OnClose(p)
    <3>1. /\ PcOK' /\ pc[p] = "onclose" /\ pc'[p] = "close"
          /\ \A q \in Procs \ {p} : pc'[q] = pc[q]
          /\ onCloses' = onCloses + 1 /\ UNCHANGED <<connected, overlap>>
      BY <1>0, <2>3 DEF OnClose
    <3>2. ~overlap => ~connected /\ onCloses = 0
      BY <3>1 DEF CloseInv, Closing
    <3> QED  BY <3>1, <3>2 DEF CloseInv, Closing
  <2>4. CASE CloseConn(p)  BY <1>0, <2>4, CloseInvFrame DEF CloseConn
  <2>5. CASE ReleasePut(p)  BY <1>0, <2>5, CloseInvFrame DEF ReleasePut
  <2>6. CASE ReleaseNil(p)  BY <1>0, <2>6, CloseInvFrame DEF ReleaseNil
  <2> QED  BY <1>2, <2>1, <2>2, <2>3, <2>4, <2>5, <2>6 DEF HandleClose
<1>3. ASSUME NEW p \in Calls, CloseCall(p)
      PROVE  CloseInv'
  BY <1>0, <1>3, CloseInvFrame DEF CloseCall
<1>4. CASE ReadMessage  BY <1>0, <1>4, CloseInvFrame DEF ReadMessage
<1>5. CASE ReadError  BY <1>0, <1>5, CloseInvFrame DEF ReadError, AfterError
<1>6. CASE ReadTest \/ ReadN  BY <1>0, <1>6, CloseInvFrame DEF ReadTest, ReadN
<1>7. CASE ReadLook  BY <1>0, <1>7, CloseInvFrame DEF ReadLook
<1>8. CASE Shift  BY <1>0, <1>8, CloseInvFrame DEF Shift
<1>9. CASE OnPacket  BY <1>0, <1>9, CloseInvFrame DEF OnPacket
<1>10. CASE PeerSend  BY <1>0, <1>10, CloseInvFrame DEF PeerSend
<1>11. CASE PeerEnd  BY <1>0, <1>11, CloseInvFrame DEF PeerEnd
<1>12. CASE UNCHANGED vars  BY <1>0, <1>12, CloseInvFrame DEF vars
<1> QED  BY <1>1, <1>2, <1>3, <1>4, <1>5, <1>6, <1>7, <1>8, <1>9, <1>10, <1>11, <1>12,
            <1>0 DEF Next, MsgLoop

\* OnClose is called twice only through the window between conn_ws.go:98 and
\* conn_ws.go:99, for any number of callers.
THEOREM DoubleClose == Spec => []OnCloseTwiceOnlyByOverlap
<1>1. CloseInv => OnCloseTwiceOnlyByOverlap
  BY DEF CloseInv, OnCloseTwiceOnlyByOverlap
<1> QED  BY <1>1, CloseInvInit, CloseInvInductive, PTL DEF Spec

----------------------------------------------------------------------------
(* The stream                                                              *)

\* The messages that msgLoop has received, and the last byte of the last one.
Received == sentMsgs - Len(wire)
Top == Received * MsgLen

\* What is on the way are the next messages, and buffer is the end of the last
\* one received.
StreamInv ==
    /\ sentMsgs \in 0..MaxMsgs /\ wire \in Seq(Seq(Nat)) /\ Len(wire) <= sentMsgs
    /\ \A i \in 1..Len(wire) : wire[i] = Message(Received + i)
    /\ buffer \in Seq(Nat) /\ Len(buffer) <= MsgLen
    /\ \A i \in 1..Len(buffer) : buffer[i] = Top - Len(buffer) + i

\* A packet may begin with byte b.
Follows(b) ==
    \/ delivered = <<>>
    \/ b = delivered[Len(delivered)] + 1
    \/ b > delivered[Len(delivered)] /\ BeginsMessage(b)

Holding == pc[Loop] \in {"shift", "packet"}

PacketTypes ==
    /\ packet \in Seq(Nat) /\ delivered \in Seq(Nat)
    /\ Holding => packet # <<>>

\* The packet in hand follows what was delivered, and buffer follows the packet,
\* or begins with it until Shift; a release may have emptied it.
PacketInv ==
    /\ delivered # <<>> => delivered[Len(delivered)] <= Top
    /\ Holding =>
         /\ Follows(packet[1]) /\ packet[1] + Len(packet) - 1 <= Top
         /\ \A i \in 1..Len(packet) : packet[i] = packet[1] + i - 1
    /\ buffer # <<>> =>
         /\ pc[Loop] = "shift" => packet[1] = buffer[1] /\ Len(packet) <= Len(buffer)
         /\ pc[Loop] = "packet" => buffer[1] = packet[1] + Len(packet)
         /\ ~Holding => Follows(buffer[1])
    /\ pc[Loop] = "shift" /\ inbound = "held" => buffer # <<>>

\* Until the ring buffer is used after Put, nothing else is in the stream.
DeliveryInv ==
    /\ StreamInv /\ PacketTypes
    /\ ~misused => PacketInv /\ InOrder

\* A ring buffer is given back only behind CloseConn, and used after that only
\* on a connection that has been closed.
ReleaseInv ==
    /\ connOpen \in BOOLEAN /\ inbound \in {"held", "pooled", "nil"}
    /\ \A p \in Procs : pc[p] \in {"put", "nil"} => ~connOpen
    /\ \A p \in Procs : pc[p] \in {"onclose", "close", "put", "nil"} => ~connected
    /\ inbound # "held" => ~connOpen /\ ~connected
    /\ misused => ~connected

OrderInv == PcOK /\ DeliveryInv /\ ReleaseInv

LEMMA MessageBytes ==
    ASSUME NEW m \in Nat \ {0}
    PROVE  /\ Message(m) \in Seq(Nat) /\ Len(Message(m)) = MsgLen
           /\ m * MsgLen \in Nat
           /\ \A i \in 1..MsgLen : Message(m)[i] = m * MsgLen - MsgLen + i
<1>1. m * MsgLen \in Nat /\ (m - 1) * MsgLen = m * MsgLen - MsgLen /\ (m - 1) * MsgLen \in Nat
  BY MsgAssumption
<1>2. \A i \in 1..MsgLen : (m - 1) * MsgLen + i \in Nat
  BY <1>1, MsgAssumption
<1>3. MsgLen \in Nat
  BY MsgAssumption
<1> QED  BY <1>1, <1>2, <1>3 DEF Message

\* One more message moves the top by its length.
LEMMA TopGrows ==
    ASSUME NEW m \in Nat
    PROVE  m * MsgLen \in Nat /\ (m + 1) * MsgLen = m * MsgLen + MsgLen
BY MsgAssumption

\* Steps that leave the stream alone, but may empty the buffer.
LEMMA OrderFrame ==
    ASSUME OrderInv, UNCHANGED <<packet, delivered, wire, sentMsgs>>, misused => misused',
           \/ buffer' = buffer /\ (inbound' = "held" => inbound = "held")
           \/ buffer' = <<>> /\ inbound' # "held",
           pc'[Loop] = pc[Loop] \/ (~Holding /\ ~Holding')
    PROVE  DeliveryInv'
<1>1. Received' = Received /\ Top' = Top  BY DEF Received, Top
<1>2. StreamInv'
  <2>1. CASE buffer' = buffer  BY <1>1, <2>1 DEF OrderInv, DeliveryInv, StreamInv
  <2>2. CASE buffer' = <<>>
    <3>1. buffer' \in Seq(Nat) /\ Len(buffer') = 0  BY <2>2
    <3> QED  BY <1>1, <3>1, MsgAssumption DEF OrderInv, DeliveryInv, StreamInv
  <2> QED  BY <2>1, <2>2
<1>3. PacketTypes'  BY DEF OrderInv, DeliveryInv, PacketTypes, Holding
<1>4. ASSUME ~misused'
      PROVE  PacketInv' /\ InOrder'
  <2>1. PacketInv /\ InOrder  BY <1>4 DEF OrderInv, DeliveryInv
  <2>2. /\ delivered' # <<>> => delivered'[Len(delivered')] <= Top'
        /\ Holding' => /\ Follows(packet[1])' /\ packet'[1] + Len(packet') - 1 <= Top'
                       /\ \A i \in 1..Len(packet') : packet'[i] = packet'[1] + i - 1
    BY <1>1, <2>1 DEF PacketInv, Follows, Holding
  <2>3. PacketInv'
    <3>1. CASE buffer' = buffer /\ (inbound' = "held" => inbound = "held")
      <4>1. buffer' # <<>> =>
              /\ pc'[Loop] = "shift" => packet'[1] = buffer'[1] /\ Len(packet') <= Len(buffer')
              /\ pc'[Loop] = "packet" => buffer'[1] = packet'[1] + Len(packet')
              /\ ~Holding' => Follows(buffer[1])'
        BY <2>1, <3>1 DEF PacketInv, Follows, Holding
      <4>2. pc'[Loop] = "shift" /\ inbound' = "held" => buffer' # <<>>
        BY <2>1, <3>1 DEF PacketInv, Holding
      <4> QED  BY <2>2, <4>1, <4>2 DEF PacketInv
    <3>2. CASE buffer' = <<>> /\ inbound' # "held"
      BY <2>2, <3>2 DEF PacketInv
    <3> QED  BY <3>1, <3>2
  <2>4. InOrder'  BY <2>1 DEF InOrder
  <2> QED  BY <2>3, <2>4
<1> QED  BY <1>2, <1>3, <1>4 DEF DeliveryInv

\* A message that is received does not begin before what was delivered ends.
LEMMA ReadMessageOrder ==
    ASSUME OrderInv, ReadMessage
    PROVE  DeliveryInv'
<1> USE MsgAssumption
<1> DEFINE r == Received
<1>1. r \in Nat /\ r + 1 \in 1..MaxMsgs /\ Len(wire) \in Nat \ {0}
  BY DEF OrderInv, DeliveryInv, StreamInv, Received, ReadMessage
<1>2. /\ wire' = Tail(wire) /\ buffer' = Message(r + 1)
      /\ UNCHANGED <<packet, delivered, sentMsgs, misused>>
  <2>1. wire[1] = Message(r + 1)  BY <1>1 DEF OrderInv, DeliveryInv, StreamInv
  <2> QED  BY <2>1 DEF ReadMessage, history, OrderInv, DeliveryInv, StreamInv
<1>3. Len(wire') = Len(wire) - 1 /\ \A i \in 1..Len(wire') : wire'[i] = wire[i + 1]
  BY <1>1, <1>2 DEF OrderInv, DeliveryInv, StreamInv
<1>4. Received' = r + 1 /\ Top' = Top + MsgLen /\ Top \in Nat
  <2>1. Received' = r + 1  BY <1>1, <1>2, <1>3 DEF Received, OrderInv, DeliveryInv, StreamInv
  <2> HIDE DEF r
  <2>2. (r + 1) * MsgLen = r * MsgLen + MsgLen /\ r * MsgLen \in Nat  BY <1>1, TopGrows
  <2> QED  BY <2>1, <2>2 DEF Top, r
<1> HIDE DEF r
<1>5. /\ buffer' \in Seq(Nat) /\ Len(buffer') = MsgLen
      /\ \A i \in 1..MsgLen : buffer'[i] = Top' - MsgLen + i
  <2>1. r + 1 \in Nat \ {0}  BY <1>1
  <2>2. Top' = (r + 1) * MsgLen  BY <1>4 DEF Top
  <2> QED  BY <2>1, <2>2, <1>2, MessageBytes
<1>6. StreamInv'
  <2>1. \A i \in 1..Len(wire') : wire'[i] = Message(Received' + i)
    <3> SUFFICES ASSUME NEW i \in 1..Len(wire') PROVE wire'[i] = Message(Received' + i)  OBVIOUS
    <3>1. i + 1 \in 1..Len(wire) /\ wire'[i] = wire[i + 1]  BY <1>1, <1>3
    <3>2. wire[i + 1] = Message(r + (i + 1))  BY <3>1 DEF OrderInv, DeliveryInv, StreamInv, r
    <3>3. r + (i + 1) = Received' + i  BY <1>1, <1>4, <3>1
    <3> QED  BY <3>1, <3>2, <3>3
  <2>2. wire' \in Seq(Seq(Nat))  BY <1>1, <1>2 DEF OrderInv, DeliveryInv, StreamInv
  <2> QED  BY <2>1, <2>2, <1>2, <1>3, <1>5 DEF OrderInv, DeliveryInv, StreamInv
<1>7. ~Holding' /\ ~Holding
  BY DEF ReadMessage, Step, Holding, OrderInv, PcOK, Procs
<1>8. PacketTypes'
  BY <1>2, <1>7 DEF OrderInv, DeliveryInv, PacketTypes
<1>9. ASSUME ~misused'
      PROVE  PacketInv' /\ InOrder'
  <2>1. PacketInv /\ InOrder  BY <1>2, <1>9 DEF OrderInv, DeliveryInv
  <2>2. delivered # <<>> => delivered[Len(delivered)] <= Top /\ delivered[Len(delivered)] \in Nat
    BY <2>1 DEF OrderInv, DeliveryInv, PacketTypes, PacketInv
  <2>3. Follows(buffer[1])'
    <3>1. buffer'[1] = Top + 1  BY <1>4, <1>5
    <3>2. buffer'[1] = Message(r + 1)[1]  BY <1>2
    <3>3. BeginsMessage(buffer'[1])  BY <1>1, <3>2 DEF BeginsMessage
    <3>4. delivered # <<>> => buffer'[1] > delivered[Len(delivered)]  BY <3>1, <1>4, <2>2
    <3> QED  BY <3>3, <3>4, <1>2 DEF Follows
  <2>4. PacketInv'
    <3>1. delivered # <<>> => delivered[Len(delivered)] <= Top'  BY <1>4, <2>2
    <3> QED  BY <3>1, <1>2, <1>7, <2>3 DEF PacketInv, Holding
  <2>5. InOrder'  BY <1>2, <2>1 DEF InOrder
  <2> QED  BY <2>4, <2>5
<1> QED  BY <1>6, <1>8, <1>9 DEF DeliveryInv

\* What Read and ReadN return are bytes, and without another connection's buffer.
LEMMA SeenBytes ==
    ASSUME buffer \in Seq(Nat), NEW k \in {0, 1}, NEW n \in 1..Len(Seen(k))
    PROVE  /\ SubSeq(Seen(k), 1, n) \in Seq(Nat) /\ Len(SubSeq(Seen(k), 1, n)) = n
           /\ \A i \in 1..n : SubSeq(Seen(k), 1, n)[i] = Seen(k)[i]
<1>1. Seen(k) \in Seq(Nat)
  <2>1. <<Foreign>> \in Seq(Nat)  BY DEF Foreign
  <2>2. <<Foreign>> \o buffer \in Seq(Nat)  BY <2>1, ConcatProperties
  <2> QED  BY <2>2 DEF Seen
<1> DEFINE t == Seen(k)
<1>2. t \in Seq(Nat) /\ n \in 1..Len(t)  BY <1>1
<1> HIDE DEF t
<1>3. SubSeq(t, 1, n) \in Seq(Nat) /\ Len(SubSeq(t, 1, n)) = n /\ \A i \in 1..n : SubSeq(t, 1, n)[i] = t[i]
  BY <1>2
<1> QED  BY <1>3 DEF t

\* The packet that unPacket finds is the beginning of buffer, if the ring buffer
\* is still the connection's.
LEMMA ReadLookOrder ==
    ASSUME OrderInv, ReadLook
    PROVE  DeliveryInv'
<1>1. /\ UNCHANGED <<delivered, wire, sentMsgs, buffer, inbound>>
      /\ misused' = (misused \/ inbound = "pooled")
  BY DEF ReadLook, UseInbound, connVars, peerVars
<1>2. pc[Loop] = "look"  BY DEF ReadLook, Step
<1>3. CASE Step(Loop, "look", "recv") /\ UNCHANGED packet
  <2>1. ~Holding /\ ~Holding'  BY <1>3 DEF Step, Holding, OrderInv, PcOK, Procs
  <2> QED  BY <1>1, <1>3, <2>1, OrderFrame
<1>4. ASSUME NEW k \in {0, 1}, NEW n \in 1..Len(Seen(k)), RingHolds(k), Step(Loop, "look", "shift"),
             packet' = SubSeq(Seen(k), 1, n)
      PROVE  DeliveryInv'
  <2>1. pc'[Loop] = "shift"  BY <1>4 DEF Step, OrderInv, PcOK, Procs
  <2>2. buffer \in Seq(Nat)  BY DEF OrderInv, DeliveryInv, StreamInv
  <2>3. /\ packet' \in Seq(Nat) /\ Len(packet') = n
        /\ \A i \in 1..n : packet'[i] = Seen(k)[i]
    BY <1>4, <2>2, SeenBytes
  <2>4. Received' = Received /\ Top' = Top /\ Top \in Nat
    <3>1. Received' = Received /\ Received \in Nat
      BY <1>1, MsgAssumption DEF Received, OrderInv, DeliveryInv, StreamInv
    <3> QED  BY <3>1, TopGrows DEF Top
  <2>5. packet' # <<>>  BY <2>3
  <2>6. StreamInv'  BY <1>1, <2>4 DEF OrderInv, DeliveryInv, StreamInv
  <2>7. PacketTypes'  BY <1>1, <2>3, <2>5 DEF OrderInv, DeliveryInv, PacketTypes
  <2>8. ASSUME ~misused'
        PROVE  PacketInv' /\ InOrder'
    <3>1. PacketInv /\ InOrder /\ inbound # "pooled"  BY <1>1, <2>8 DEF OrderInv, DeliveryInv
    <3>2. Seen(k) = buffer  BY <1>4, <3>1 DEF RingHolds, Seen
    <3>3. n \in 1..Len(buffer) /\ \A i \in 1..n : packet'[i] = buffer[i]  BY <2>3, <3>2
    <3>4. \A i \in 1..Len(buffer) : buffer[i] = Top - Len(buffer) + i
      BY DEF OrderInv, DeliveryInv, StreamInv
    <3>5. /\ packet'[1] = buffer[1] /\ packet'[1] + n - 1 <= Top
          /\ \A i \in 1..n : packet'[i] = packet'[1] + i - 1
      <4>1. n \in Nat /\ Len(buffer) \in Nat /\ n <= Len(buffer) /\ 1 \in 1..n
        BY <2>2, <3>3
      <4>2. \A i \in 1..n : i \in 1..Len(buffer)  BY <4>1
      <4>3. \A i \in 1..n : packet'[i] = Top - Len(buffer) + i  BY <4>2, <3>3, <3>4
      <4>4. packet'[1] = Top - Len(buffer) + 1  BY <4>1, <4>3
      <4>5. packet'[1] + n - 1 <= Top  BY <4>1, <4>4, <2>4
      <4>6. \A i \in 1..n : packet'[i] = packet'[1] + i - 1  BY <4>1, <4>3, <4>4, <2>4
      <4> QED  BY <4>1, <4>5, <4>6, <3>3
    <3>6. buffer # <<>>  BY <2>2, <3>3
    <3>7. Follows(buffer[1])  BY <1>2, <3>1, <3>6 DEF PacketInv, Holding
    <3>8. Follows(packet[1])'  BY <1>1, <3>5, <3>7 DEF Follows
    <3>9. Len(packet') <= Len(buffer)  BY <2>2, <2>3, <3>3
    <3>10. PacketInv'
      BY <1>1, <2>1, <2>3, <2>4, <3>1, <3>5, <3>6, <3>8, <3>9 DEF PacketInv, Holding
    <3>11. InOrder'  BY <1>1, <3>1 DEF InOrder
    <3> QED  BY <3>10, <3>11
  <2> QED  BY <2>6, <2>7, <2>8 DEF DeliveryInv
<1> QED  BY <1>3, <1>4 DEF ReadLook

\* What ShiftN leaves of buffer is its end.
LEMMA RestBytes ==
    ASSUME buffer \in Seq(Nat), NEW m \in Nat
    PROVE  /\ Rest(m) \in Seq(Nat)
           /\ Len(buffer) <= m => Rest(m) = <<>> /\ Len(Rest(m)) = 0
           /\ m < Len(buffer) => /\ Len(Rest(m)) = Len(buffer) - m
                                 /\ \A i \in 1..Len(buffer) - m : Rest(m)[i] = buffer[m + i]
<1> DEFINE l == Len(buffer)
<1>1. l \in Nat /\ Rest(m) = SubSeq(buffer, m + 1, l)  BY DEF Rest
<1>2. CASE l <= m
  <2>1. m + 1 > l /\ m + 1 \in Nat  BY <1>1, <1>2
  <2> HIDE DEF l
  <2>2. Rest(m) = <<>>  BY <1>1, <2>1, SubSeqEmpty
  <2>3. Rest(m) \in Seq(Nat) /\ Len(Rest(m)) = 0  BY <2>2, EmptySeq
  <2> QED  BY <1>1, <1>2, <2>2, <2>3 DEF l
<1>3. CASE m < l
  <2>1. \A i \in m + 1..l : buffer[i] \in Nat
    <3>1. \A i \in 1..l : buffer[i] \in Nat  BY ElementOfSeq
    <3> HIDE DEF l
    <3> QED  BY <3>1, <1>1
  <2>2. ~(l <= m) /\ \A i \in 1..l - m : i \in 1..l - (m + 1) + 1 /\ m + 1 + i - 1 = m + i
    BY <1>1, <1>3
  <2> HIDE DEF l
  <2>3. m + 1 \in Int /\ l \in Int /\ m + 1 <= l  BY <1>1, <1>3
  <2>4. /\ Rest(m) \in Seq(Nat) /\ Len(Rest(m)) = l - (m + 1) + 1
        /\ \A i \in 1..l - (m + 1) + 1 : Rest(m)[i] = buffer[m + 1 + i - 1]
    BY <2>1, <2>3, <1>1, SubSeqProperties
  <2>5. /\ Rest(m) \in Seq(Nat) /\ Len(Rest(m)) = l - m
        /\ \A i \in 1..l - m : Rest(m)[i] = buffer[m + i]
    BY <2>2, <2>4, <1>1
  <2> QED  BY <2>2, <2>5 DEF l
<1> QED  BY <1>1, <1>2, <1>3

LEMMA RestLength ==
    ASSUME buffer \in Seq(Nat), NEW m \in Nat
    PROVE  /\ Len(Rest(m)) \in Nat /\ Len(Rest(m)) <= Len(buffer)
           /\ m > 0 /\ Len(buffer) > 0 => Len(Rest(m)) < Len(buffer)
<1> DEFINE l == Len(buffer)
           t == Len(Rest(m))
<1>1. l \in Nat /\ t \in Nat  BY RestBytes
<1>2. (l <= m => t = 0) /\ (m < l => t = l - m)  BY RestBytes
<1> HIDE DEF l, t
<1>3. t <= l /\ (m > 0 /\ l > 0 => t < l)  BY <1>1, <1>2
<1> QED  BY <1>1, <1>3 DEF l, t

\* What Shift leaves follows the packet, or is nothing.
LEMMA ShiftOrder ==
    ASSUME OrderInv, Shift
    PROVE  DeliveryInv'
<1>1. /\ UNCHANGED <<delivered, wire, sentMsgs, packet, inbound>>
      /\ misused' = (misused \/ inbound = "pooled")
  BY DEF Shift, UseInbound, peerVars
<1>2. pc[Loop] = "shift" /\ pc'[Loop] = "packet"
  BY DEF Shift, Step, OrderInv, PcOK, Procs
<1> DEFINE n == Len(packet)
           l == Len(buffer)
<1>3. PICK k \in {0, 1} : RingHolds(k) /\ buffer' = Rest(n - k)
  BY DEF Shift
<1>4. buffer \in Seq(Nat) /\ l \in Nat /\ packet \in Seq(Nat) /\ n \in Nat \ {0} /\ n - k \in Nat
  BY <1>2 DEF OrderInv, DeliveryInv, StreamInv, PacketTypes, Holding
<1>5. Received' = Received /\ Top' = Top /\ Top \in Nat
  <2>1. Received' = Received /\ Received \in Nat
    BY <1>1, MsgAssumption DEF Received, OrderInv, DeliveryInv, StreamInv
  <2> QED  BY <2>1, TopGrows DEF Top
<1>6. \A i \in 1..l : buffer[i] = Top - l + i
  BY DEF OrderInv, DeliveryInv, StreamInv
<1>7. ASSUME NEW m \in Nat, buffer' = Rest(m)
      PROVE  /\ StreamInv'
             /\ m < l => buffer'[1] = Top - l + m + 1
             /\ l <= m => buffer' = <<>>
  <2>1. CASE l <= m
    <3>1. buffer' \in Seq(Nat) /\ buffer' = <<>> /\ Len(buffer') = 0
      BY <2>1, <1>4, <1>7, RestBytes
    <3>2. StreamInv'
      BY <1>1, <1>5, <3>1, MsgAssumption DEF OrderInv, DeliveryInv, StreamInv
    <3> QED  BY <3>1, <3>2, <2>1, <1>4
  <2>2. CASE m < l
    <3>1. /\ buffer' \in Seq(Nat) /\ Len(buffer') = l - m
          /\ \A i \in 1..l - m : buffer'[i] = buffer[m + i]
      BY <2>2, <1>4, <1>7, RestBytes
    <3>2. \A i \in 1..l - m : buffer'[i] = Top - (l - m) + i
      <4> SUFFICES ASSUME NEW i \in 1..l - m PROVE buffer'[i] = Top - (l - m) + i  OBVIOUS
      <4>1. m + i \in 1..l  BY <1>4, <2>2
      <4>2. buffer'[i] = buffer[m + i] /\ buffer[m + i] = Top - l + (m + i)
        BY <4>1, <3>1, <1>6
      <4> HIDE DEF l
      <4> QED  BY <4>2, <1>4, <1>5
    <3>3. StreamInv'
      BY <1>1, <1>4, <1>5, <2>2, <3>1, <3>2, MsgAssumption DEF OrderInv, DeliveryInv, StreamInv
    <3>4. buffer'[1] = Top - l + m + 1
      <4>1. 1 \in 1..l - m  BY <1>4, <2>2
      <4>2. buffer'[1] = Top - (l - m) + 1  BY <4>1, <3>2
      <4> HIDE DEF l
      <4> QED  BY <4>2, <1>4, <1>5
    <3> QED  BY <3>3, <3>4, <2>2, <1>4
  <2> QED  BY <2>1, <2>2, <1>4
<1>8. StreamInv'
  <2> HIDE DEF n
  <2> QED  BY <1>3, <1>4, <1>7
<1>9. PacketTypes'
  BY <1>1, <1>2, <1>4 DEF OrderInv, DeliveryInv, PacketTypes, Holding
<1>10. ASSUME ~misused'
       PROVE  PacketInv' /\ InOrder'
  <2>1. PacketInv /\ InOrder /\ inbound # "pooled"  BY <1>1, <1>10 DEF OrderInv, DeliveryInv
  <2>2. buffer' = Rest(n)
    <3>1. n - k = n  BY <1>3, <1>4, <2>1 DEF RingHolds
    <3> QED  BY <1>3, <3>1
  <2>3. Follows(packet[1])'
    <3>1. Follows(packet[1])  BY <1>2, <2>1 DEF PacketInv, Holding
    <3> QED  BY <3>1, <1>1 DEF Follows
  <2>4. buffer' # <<>> => buffer'[1] = packet[1] + n
    <3>1. CASE n < l
      <4>1. buffer # <<>>  BY <1>4, <3>1
      <4>2. packet[1] = buffer[1]  BY <4>1, <1>2, <2>1 DEF PacketInv
      <4>3. buffer[1] = Top - l + 1
        <5>1. 1 \in 1..l  BY <1>4, <3>1
        <5> QED  BY <5>1, <1>6
      <4>4. buffer'[1] = Top - l + n + 1  BY <3>1, <2>2, <1>4, <1>7
      <4> HIDE DEF n, l
      <4> QED  BY <4>2, <4>3, <4>4, <1>4, <1>5
    <3>2. CASE l <= n  BY <3>2, <2>2, <1>4, <1>7
    <3> QED  BY <3>1, <3>2, <1>4
  <2>5. PacketInv'
    BY <1>1, <1>2, <1>5, <2>1, <2>3, <2>4 DEF PacketInv, Holding
  <2>6. InOrder'  BY <1>1, <2>1 DEF InOrder
  <2> QED  BY <2>5, <2>6
<1> QED  BY <1>8, <1>9, <1>10 DEF DeliveryInv

\* A packet that follows what was delivered keeps the order.
LEMMA OnPacketOrder ==
    ASSUME OrderInv, OnPacket
    PROVE  DeliveryInv'
<1>1. /\ UNCHANGED <<buffer, inbound, wire, sentMsgs, misused>> /\ delivered' = delivered \o packet
      /\ packet' = <<>>
  BY DEF OnPacket, connVars, peerVars
<1>2. pc[Loop] = "packet" /\ pc'[Loop] = "unpack"
  BY DEF OnPacket, Step, OrderInv, PcOK, Procs
<1> DEFINE d == Len(delivered)
           n == Len(packet)
<1>3. delivered \in Seq(Nat) /\ packet \in Seq(Nat) /\ d \in Nat /\ n \in Nat \ {0} /\ packet[1] \in Nat
  BY <1>2 DEF OrderInv, DeliveryInv, PacketTypes, Holding
<1>4. Received' = Received /\ Top' = Top /\ Top \in Nat
  <2>1. Received' = Received /\ Received \in Nat
    BY <1>1, MsgAssumption DEF Received, OrderInv, DeliveryInv, StreamInv
  <2> QED  BY <2>1, TopGrows DEF Top
<1>5. /\ delivered' \in Seq(Nat) /\ Len(delivered') = d + n
      /\ \A i \in 1..d : delivered'[i] = delivered[i]
      /\ \A i \in 1..n : delivered'[d + i] = packet[i]
  BY <1>1, <1>3
<1>6. StreamInv'  BY <1>1, <1>4 DEF OrderInv, DeliveryInv, StreamInv
<1>7. PacketTypes'
  <2>1. packet' \in Seq(Nat)  BY <1>1
  <2> QED  BY <1>2, <1>5, <2>1 DEF PacketTypes, Holding
<1>8. ASSUME ~misused'
      PROVE  PacketInv' /\ InOrder'
  <2>1. PacketInv /\ InOrder  BY <1>1, <1>8 DEF OrderInv, DeliveryInv
  <2>2. /\ Follows(packet[1]) /\ packet[1] + n - 1 <= Top
        /\ \A i \in 1..n : packet[i] = packet[1] + i - 1
    BY <1>2, <2>1 DEF PacketInv, Holding
  <2>3. delivered'[Len(delivered')] = packet[1] + n - 1
    <3>1. n \in 1..n  BY <1>3
    <3>2. delivered'[d + n] = packet[n] /\ packet[n] = packet[1] + n - 1
      BY <3>1, <1>5, <2>2
    <3> QED  BY <3>2, <1>5
  <2>4. InOrder'
    <3> SUFFICES ASSUME NEW i \in 2..d + n
                 PROVE  \/ delivered'[i] = delivered'[i - 1] + 1
                        \/ delivered'[i] > delivered'[i - 1] /\ BeginsMessage(delivered'[i])
      BY <1>5 DEF InOrder, BeginsMessage
    <3>1. CASE i <= d
      <4>1. i \in 2..d /\ i \in 1..d /\ i - 1 \in 1..d  BY <3>1, <1>3
      <4> QED  BY <4>1, <1>5, <2>1 DEF InOrder
    <3>2. CASE i = d + 1
      <4>1. 1 \in 1..n /\ d \in 1..d /\ i - 1 = d  BY <3>2, <1>3
      <4>2. delivered'[i] = packet[1] /\ delivered'[i - 1] = delivered[d]
        BY <4>1, <3>2, <1>5
      <4>3. delivered # <<>>  BY <4>1, <1>3
      <4> QED  BY <4>2, <4>3, <2>2 DEF Follows
    <3>3. CASE i > d + 1
      <4>1. i - d \in 1..n /\ i - d - 1 \in 1..n  BY <3>3, <1>3
      <4>2. delivered'[d + (i - d)] = packet[i - d] /\ delivered'[d + (i - d - 1)] = packet[i - d - 1]
        BY <4>1, <1>5
      <4>3. packet[i - d] = packet[1] + (i - d) - 1 /\ packet[i - d - 1] = packet[1] + (i - d - 1) - 1
        BY <4>1, <2>2
      <4>4. d + (i - d) = i /\ d + (i - d - 1) = i - 1  BY <1>3
      <4>5. delivered'[i] = packet[i - d] /\ delivered'[i - 1] = packet[i - d - 1]
        BY <4>2, <4>4, Zenon
      <4> HIDE DEF n, d
      <4> QED  BY <4>3, <4>5, <1>3
    <3> QED  BY <3>1, <3>2, <3>3, <1>3
  <2>5. buffer # <<>> => Follows(buffer[1])'
    <3>1. buffer # <<>> => buffer[1] = packet[1] + n
      BY <1>2, <2>1 DEF PacketInv
    <3>2. ASSUME buffer # <<>>
          PROVE  buffer'[1] = delivered'[Len(delivered')] + 1
      <4> HIDE DEF n
      <4> QED  BY <3>1, <3>2, <1>1, <1>3, <2>3
    <3> QED  BY <3>2, <1>1 DEF Follows
  <2>6. PacketInv'
    BY <1>1, <1>2, <1>3, <1>4, <1>5, <2>2, <2>3, <2>5 DEF PacketInv, Holding
  <2> QED  BY <2>4, <2>6
<1> QED  BY <1>6, <1>7, <1>8 DEF DeliveryInv

LEMMA PeerSendOrder ==
    ASSUME OrderInv, PeerSend
    PROVE  DeliveryInv'
<1>1. UNCHANGED <<buffer, inbound, packet, delivered, pc, misused>> /\ sentMsgs' = sentMsgs + 1 /\ sentMsgs < MaxMsgs
  BY DEF PeerSend, connVars, history
<1>2. sentMsgs \in Nat /\ wire \in Seq(Seq(Nat)) /\ wire' = Append(wire, Message(sentMsgs + 1))
  BY <1>1, MsgAssumption DEF PeerSend, OrderInv, DeliveryInv, StreamInv
<1>3. Message(sentMsgs + 1) \in Seq(Nat)  BY <1>2, MessageBytes
<1>4. /\ wire' \in Seq(Seq(Nat)) /\ Len(wire') = Len(wire) + 1
      /\ \A i \in 1..Len(wire) : wire'[i] = wire[i]
      /\ wire'[Len(wire) + 1] = Message(sentMsgs + 1)
  BY <1>2, <1>3
<1>5. Received' = Received /\ Top' = Top /\ Received \in Nat /\ sentMsgs + 1 = Received + (Len(wire) + 1)
  <2>1. Len(wire) \in Nat /\ Len(wire) <= sentMsgs  BY <1>2 DEF OrderInv, DeliveryInv, StreamInv
  <2>2. Received' = Received /\ Received \in Nat /\ sentMsgs + 1 = Received + (Len(wire) + 1)
    BY <2>1, <1>1, <1>2, <1>4 DEF Received
  <2> QED  BY <2>2 DEF Top
<1>6. \A i \in 1..Len(wire') : wire'[i] = Message(Received + i)
  <2> SUFFICES ASSUME NEW i \in 1..Len(wire') PROVE wire'[i] = Message(Received + i)  OBVIOUS
  <2>1. CASE i <= Len(wire)  BY <2>1, <1>2, <1>4 DEF OrderInv, DeliveryInv, StreamInv
  <2>2. CASE i = Len(wire) + 1  BY <2>2, <1>4, <1>5
  <2> QED  BY <2>1, <2>2, <1>2, <1>4
<1>7. StreamInv'
  BY <1>1, <1>2, <1>4, <1>5, <1>6, MsgAssumption DEF OrderInv, DeliveryInv, StreamInv
<1>8. PacketTypes'  BY <1>1 DEF OrderInv, DeliveryInv, PacketTypes, Holding
<1>9. ASSUME ~misused'
      PROVE  PacketInv' /\ InOrder'
  <2>1. PacketInv /\ InOrder  BY <1>1, <1>9 DEF OrderInv, DeliveryInv
  <2>2. PacketInv'  BY <1>1, <1>5, <2>1 DEF PacketInv, Holding, Follows
  <2>3. InOrder'  BY <1>1, <2>1 DEF InOrder
  <2> QED  BY <2>2, <2>3
<1> QED  BY <1>7, <1>8, <1>9 DEF DeliveryInv

LEMMA PcStep ==
    ASSUME PcOK, [Next]_vars
    PROVE  PcOK'
<1> USE DEF PcOK, Step
<1>1. ASSUME NEW p \in Procs, HandleClose(p)
      PROVE  PcOK'
  BY <1>1 DEF HandleClose, HandleTest, HandleSet, OnClose, CloseConn, ReleasePut, ReleaseNil
<1>2. ASSUME NEW p \in Calls, CloseCall(p)
      PROVE  PcOK'
  BY <1>2 DEF CloseCall
<1>3. CASE MsgLoop /\ ~HandleClose(Loop)
  BY <1>3 DEF MsgLoop, ReadMessage, ReadError, AfterError, ReadTest, ReadN, ReadLook, Shift, OnPacket
<1>4. CASE UNCHANGED pc  BY <1>4
<1> QED
  BY <1>1, <1>2, <1>3, <1>4 DEF Next, vars, OnConnect, PeerSend, PeerEnd, Procs

LEMMA UseMarks ==
    ASSUME UseInbound
    PROVE  (misused => misused') /\ (misused' => misused \/ inbound = "pooled")
<1>1. misused' = (misused \/ inbound = "pooled")  BY DEF UseInbound
<1> QED  BY <1>1

LEMMA ReleaseStep ==
    ASSUME PcOK, ReleaseInv, [Next]_vars
    PROVE  ReleaseInv'
<1> USE DEF PcOK, Step, ReleaseInv
<1>1. ASSUME NEW p \in Procs, HandleClose(p)
      PROVE  ReleaseInv'
  <2>1. CASE HandleTest(p)
    <3>1. UNCHANGED <<connVars, misused>>  BY <2>1 DEF HandleTest
    <3>2. \A q \in Procs : pc'[q] = pc[q] \/ pc'[q] \in {"set", "done"}
      BY <2>1 DEF HandleTest
    <3> QED  BY <3>1, <3>2 DEF connVars
  <2>2. CASE HandleSet(p)
    <3>1. connected' = FALSE /\ UNCHANGED <<connOpen, inbound, misused>>
      BY <2>2 DEF HandleSet, history
    <3> QED  BY <2>2, <3>1 DEF HandleSet
  <2>3. CASE OnClose(p)
    <3>1. UNCHANGED <<connVars, misused>>  BY <2>3 DEF OnClose
    <3> QED  BY <2>3, <3>1 DEF OnClose, connVars
  <2>4. CASE CloseConn(p)
    <3>1. connOpen' = FALSE /\ UNCHANGED <<connected, inbound, misused>>
      BY <2>4 DEF CloseConn, history
    <3>2. pc[p] = "close" /\ \A q \in Procs : pc'[q] = pc[q] \/ (q = p /\ pc'[q] = "put")
      BY <2>4 DEF CloseConn
    <3> QED  BY <1>1, <3>1, <3>2
  <2>5. CASE ReleasePut(p)
    <3>1. /\ ~connOpen /\ connOpen' = connOpen /\ inbound' \in {"held", "pooled", "nil"}
          /\ ~connected /\ connected' = connected
      BY <1>1, <2>5 DEF ReleasePut
    <3>2. \A q \in Procs : pc'[q] = pc[q] \/ pc'[q] = "nil"
      BY <2>5 DEF ReleasePut
    <3> QED  BY <3>1, <3>2
  <2>6. CASE ReleaseNil(p)
    <3>1. /\ ~connOpen /\ connOpen' = connOpen /\ inbound' = "nil"
          /\ ~connected /\ connected' = connected
      BY <1>1, <2>6 DEF ReleaseNil
    <3>2. \A q \in Procs : pc'[q] = pc[q] \/ pc'[q] = "done"
      BY <2>6 DEF ReleaseNil
    <3> QED  BY <3>1, <3>2
  <2> QED  BY <1>1, <2>1, <2>2, <2>3, <2>4, <2>5, <2>6 DEF HandleClose
<1>2. ASSUME NEW p \in Calls, CloseCall(p)
      PROVE  ReleaseInv'
  <2>1. UNCHANGED <<connVars, misused>>  BY <1>2 DEF CloseCall, history
  <2> QED  BY <1>2, <2>1 DEF CloseCall, connVars
<1>3. CASE MsgLoop /\ ~HandleClose(Loop)
  <2>1. UNCHANGED <<connected, connOpen, inbound>>
    BY <1>3 DEF MsgLoop, ReadMessage, ReadError, ReadTest, ReadN, ReadLook, Shift, OnPacket, connVars
  <2>3. UseInbound \/ UNCHANGED misused
    BY <1>3 DEF MsgLoop, ReadMessage, ReadError, ReadTest, ReadN, ReadLook, Shift, OnPacket, history
  <2>4. misused' => misused \/ inbound = "pooled"
    BY <2>3, UseMarks
  <2>2. \A q \in Procs : pc'[q] = pc[q] \/ pc'[q] \notin {"onclose", "close", "put", "nil"}
    BY <1>3 DEF MsgLoop, ReadMessage, ReadError, AfterError, ReadTest, ReadN, ReadLook, Shift,
                OnPacket
  <2> QED  BY <2>1, <2>2, <2>4
<1>4. CASE UNCHANGED <<connVars, pc, misused>>  BY <1>4 DEF connVars
<1> QED
  BY <1>1, <1>2, <1>3, <1>4 DEF Next, vars, history, OnConnect, PeerSend, PeerEnd, Procs

LEMMA OrderStep ==
    ASSUME OrderInv, [Next]_vars
    PROVE  OrderInv'
<1>1. PcOK' /\ ReleaseInv'  BY PcStep, ReleaseStep DEF OrderInv
<1>2. PcOK  BY DEF OrderInv
<1>3. ASSUME NEW p \in Procs, HandleClose(p)
      PROVE  DeliveryInv'
  <2>1. UNCHANGED <<packet, delivered, wire, sentMsgs>> /\ (UseInbound \/ UNCHANGED misused)
    BY <1>3 DEF HandleClose, HandleTest, HandleSet, OnClose, CloseConn, ReleasePut, ReleaseNil,
                peerVars, history
  <2>4. misused => misused'  BY <2>1, UseMarks
  <2>2. \/ buffer' = buffer /\ (inbound' = "held" => inbound = "held")
        \/ buffer' = <<>> /\ inbound' # "held"
    BY <1>3 DEF HandleClose, HandleTest, HandleSet, OnClose, CloseConn, ReleasePut, ReleaseNil,
                connVars
  <2>3. pc'[Loop] = pc[Loop] \/ (~Holding /\ ~Holding')
    <3>1. CASE p = Loop
      BY <1>2, <1>3, <3>1 DEF HandleClose, HandleTest, HandleSet, OnClose, CloseConn, ReleasePut,
                              ReleaseNil, Step, Holding, PcOK
    <3>2. CASE p # Loop
      BY <1>2, <1>3, <3>2 DEF HandleClose, HandleTest, HandleSet, OnClose, CloseConn, ReleasePut,
                              ReleaseNil, Step, PcOK, Procs
    <3> QED  BY <3>1, <3>2
  <2> QED  BY <2>1, <2>2, <2>3, <2>4, OrderFrame
<1>4. ASSUME NEW p \in Calls, CloseCall(p)
      PROVE  DeliveryInv'
  <2>1. p # Loop  BY ProcAssumption DEF Calls
  <2>2. pc'[Loop] = pc[Loop]  BY <1>2, <1>4, <2>1 DEF CloseCall, Step, PcOK
  <2>3. UNCHANGED <<packet, delivered, wire, sentMsgs, misused, buffer, inbound>>
    BY <1>4 DEF CloseCall, connVars, peerVars, history
  <2> QED  BY <2>2, <2>3, OrderFrame
<1>5. CASE ReadError \/ ReadTest \/ ReadN
  <2>1. ~Holding /\ ~Holding'
    BY <1>2, <1>5 DEF ReadError, AfterError, ReadTest, ReadN, Step, Holding, PcOK, Procs
  <2>2. UNCHANGED <<packet, delivered, wire, sentMsgs, misused, buffer, inbound>>
    BY <1>5 DEF ReadError, ReadTest, ReadN, connVars, peerVars, history
  <2> QED  BY <1>1, <2>1, <2>2, OrderFrame DEF OrderInv
<1>6. CASE OnConnect \/ PeerEnd \/ UNCHANGED vars
  <2>1. UNCHANGED <<packet, delivered, wire, sentMsgs, misused, buffer, inbound, pc>>
    BY <1>6 DEF OnConnect, PeerEnd, vars, connVars, peerVars, history
  <2> QED  BY <1>1, <2>1, OrderFrame DEF OrderInv
<1> QED
  BY <1>1, <1>3, <1>4, <1>5, <1>6, ReadMessageOrder, ReadLookOrder, ShiftOrder,
     OnPacketOrder, PeerSendOrder
  DEF Next, MsgLoop, OrderInv, Procs

LEMMA OrderInit ==
    ASSUME Init
    PROVE  OrderInv
<1>1. PcOK  BY DEF Init, PcOK
<1>2. pc[Loop] = "recv" /\ \A p \in Procs : pc[p] \in {"idle", "recv"}
  BY DEF Init, Procs
<1>3. /\ buffer = <<>> /\ wire = <<>> /\ packet = <<>> /\ delivered = <<>>
      /\ sentMsgs = 0 /\ connOpen = TRUE /\ inbound = "held" /\ misused = FALSE
  BY DEF Init
<1>4. StreamInv  BY <1>3, MsgAssumption DEF StreamInv
<1>5. PacketInv /\ PacketTypes  BY <1>2, <1>3 DEF PacketInv, PacketTypes, Holding
<1>6. ReleaseInv  BY <1>2, <1>3 DEF ReleaseInv
<1>7. InOrder  BY <1>3 DEF InOrder
<1> QED  BY <1>1, <1>4, <1>5, <1>6, <1>7 DEF OrderInv, DeliveryInv

LEMMA OrderInvariant == Spec => []OrderInv
BY OrderInit, OrderStep, PTL DEF Spec

\* Packets keep the order of the stream and repeat nothing, for messages of any
\* length and number and any cuts, unless msgLoop uses the ring buffer between
\* the Put of release and its nil (conn_ws.go:115-116), where it may find a TCP
\* connection's bytes; and that happens only on a closed connection.
THEOREM PacketOrder == Spec => []PacketsInOrder
<1>1. OrderInv => PacketsInOrder
  BY DEF OrderInv, DeliveryInv, ReleaseInv, PacketsInOrder
<1> QED  BY <1>1, OrderInvariant, PTL

\* The variables that OrderInv does not mention.
FlagTypes ==
    /\ connected \in BOOLEAN /\ introduced \in BOOLEAN /\ ended \in BOOLEAN
    /\ crashed \in BOOLEAN /\ overlap \in BOOLEAN /\ misused \in BOOLEAN
    /\ onCloses \in Nat /\ late \in Nat /\ readN \in BOOLEAN /\ foreign \in 0..MaxForeign

LEMMA FlagInit ==
    ASSUME Init
    PROVE  FlagTypes
<1>1. /\ connected = TRUE /\ introduced = FALSE /\ ended = FALSE /\ crashed = FALSE
      /\ overlap = FALSE /\ misused = FALSE /\ onCloses = 0 /\ late = 0 /\ readN = FALSE /\ foreign = 0
  BY DEF Init
<1>2. foreign \in 0..MaxForeign  BY <1>1, MsgAssumption
<1> QED  BY <1>1, <1>2 DEF FlagTypes

LEMMA TypesFollow == FlagTypes /\ OrderInv => TypeOK
BY DEF FlagTypes, OrderInv, DeliveryInv, PcOK, StreamInv, PacketTypes, ReleaseInv, TypeOK

LEMMA UseTypes ==
    ASSUME inbound \in {"held", "pooled", "nil"}, UseInbound
    PROVE  crashed' \in BOOLEAN /\ misused' \in BOOLEAN
<1>1. CASE inbound = "held"  BY <1>1 DEF UseInbound
<1>2. CASE inbound = "pooled"  BY <1>2 DEF UseInbound
<1>3. CASE inbound = "nil"  BY <1>3 DEF UseInbound
<1> QED  BY <1>1, <1>2, <1>3

LEMMA ForeignTypes ==
    ASSUME foreign \in 0..MaxForeign, NEW k \in {0, 1}, RingHolds(k)
    PROVE  foreign' \in 0..MaxForeign
BY MsgAssumption DEF RingHolds

LEMMA FlagStep ==
    ASSUME FlagTypes, ReleaseInv, [Next]_vars
    PROVE  FlagTypes'
<1> USE DEF FlagTypes, connVars, peerVars, history
<1>0. inbound \in {"held", "pooled", "nil"}  BY DEF ReleaseInv
<1>1. ASSUME NEW p \in Procs, HandleClose(p)
      PROVE  FlagTypes'
  <2>1. CASE HandleTest(p)
    <3>1. overlap' \in BOOLEAN  BY <2>1 DEF HandleTest
    <3> QED  BY <2>1, <3>1 DEF HandleTest
  <2>2. CASE HandleSet(p)  BY <2>2 DEF HandleSet
  <2>3. CASE OnClose(p)  BY <2>3 DEF OnClose
  <2>4. CASE CloseConn(p)  BY <2>4 DEF CloseConn
  <2>5. CASE ReleasePut(p)  BY <1>0, <2>5, UseTypes DEF ReleasePut
  <2>6. CASE ReleaseNil(p)  BY <2>6 DEF ReleaseNil
  <2> QED  BY <1>1, <2>1, <2>2, <2>3, <2>4, <2>5, <2>6 DEF HandleClose
<1>2. ASSUME NEW p \in Calls, CloseCall(p)
      PROVE  FlagTypes'
  BY <1>2 DEF CloseCall
<1>3. CASE ReadMessage  BY <1>3 DEF ReadMessage
<1>4. CASE ReadError \/ ReadTest \/ ReadN
  <2>1. (~connected) \in BOOLEAN  OBVIOUS
  <2> QED  BY <1>4, <2>1 DEF ReadError, ReadTest, ReadN
<1>5. CASE ReadLook
  <2>1. foreign' \in 0..MaxForeign /\ readN' \in BOOLEAN  BY <1>5, ForeignTypes DEF ReadLook
  <2> QED  BY <1>0, <1>5, <2>1, UseTypes DEF ReadLook
<1>6. CASE Shift
  <2>1. foreign' \in 0..MaxForeign  BY <1>6, ForeignTypes DEF Shift
  <2> QED  BY <1>0, <1>6, <2>1, UseTypes DEF Shift
<1>7. CASE OnPacket
  <2>1. late' \in Nat  BY <1>7 DEF OnPacket
  <2> QED  BY <1>7, <2>1 DEF OnPacket
<1>8. CASE OnConnect \/ PeerSend \/ PeerEnd  BY <1>8 DEF OnConnect, PeerSend, PeerEnd
<1>9. CASE UNCHANGED vars  BY <1>9 DEF vars
<1> QED
  BY <1>1, <1>2, <1>3, <1>4, <1>5, <1>6, <1>7, <1>8, <1>9 DEF Next, MsgLoop, Procs

\* Every variable keeps to its type, and the ring buffer goes back to the pool
\* only when the websocket.Conn is closed.
THEOREM TypeCorrect == Spec => []TypeOK
<1>1. OrderInv => ReleaseInv  BY DEF OrderInv
<1> QED  BY <1>1, FlagInit, FlagStep, TypesFollow, OrderInvariant, PTL DEF Spec

----------------------------------------------------------------------------
(* Writing                                                                 *)

WriteTypes ==
    /\ connected \in BOOLEAN
    /\ wpc \in [Writing -> {"idle", "again", "write", "done"}]
    /\ result \in [Writers -> {"none", "nil", "error"}]
    /\ lateSent \in [Writing -> {0, 1}]
    /\ atClear \in [Writing -> {"none", "idle", "again", "write", "done"}]

\* While the connection is open nothing is late.
OpenInv == connected => \A p \in Writing : lateSent[p] = 0 /\ atClear[p] = "none"

\* Once it is closed nobody enters the library any more, so that whoever is in
\* it was there already, and only leaves it; and no call of Write passes its
\* first test.  msgLoop may: it begins to write the reply to a late packet.
ClosedInv ==
    ~connected => \A p \in Writing :
        /\ wpc[p] = "write" => atClear[p] = "write" /\ lateSent[p] = 0
        /\ lateSent[p] = 1 => atClear[p] = "write"
        /\ wpc[p] = "again" /\ p \in Writers => atClear[p] = "again"

NilInv ==
    \A p \in Writers : result[p] = "nil" => p \in sent \/ (~connected /\ atClear[p] = "again")

WriteInv == WriteTypes /\ OpenInv /\ ClosedInv /\ NilInv

\* The steps of reading and closing, for writing: they change connected only to
\* clear it, and note where everybody stands then.
ConnStep ==
    /\ UNCHANGED writeVars
    /\ \/ UNCHANGED <<connected, atClear>>
       \/ connected /\ connected' = FALSE /\ atClear' = wpc

LEMMA OnlyCleared ==
    ASSUME connected \in BOOLEAN, Next
    PROVE  connected' = connected \/ (connected /\ connected' = FALSE)
<1> USE DEF connVars
<1>1. ASSUME NEW p \in Procs, HandleClose(p)
      PROVE  connected' = connected \/ connected' = FALSE
  BY <1>1 DEF HandleClose, HandleTest, HandleSet, OnClose, CloseConn, ReleasePut, ReleaseNil
<1>2. ASSUME NEW p \in Calls, CloseCall(p)
      PROVE  connected' = connected
  BY <1>2 DEF CloseCall
<1>3. CASE MsgLoop /\ ~HandleClose(Loop)
  BY <1>3 DEF MsgLoop, ReadMessage, ReadError, ReadTest, ReadN, ReadLook, Shift, OnPacket
<1>4. CASE OnConnect \/ PeerSend \/ PeerEnd
  BY <1>4 DEF OnConnect, PeerSend, PeerEnd
<1>5. connected' = connected \/ connected' = FALSE
  BY <1>1, <1>2, <1>3, <1>4 DEF Next, Procs
<1> QED  BY <1>5
\* A step that writes nothing is one of WSConn, unless the library panics.
LEMMA ConnSteps ==
    ASSUME connected \in BOOLEAN, [WNext]_allVars
    PROVE  \/ ConnStep /\ Next
           \/ ReplyOrNot /\ Next /\ wpc[Loop] = "idle"
           \/ \E p \in Writers : WriteCall(p)
           \/ \E p \in Writing : Write(p)
           \/ UNCHANGED <<connected, wpc, result, sent, lateSent, atClear>>
<1>1. ASSUME Next, NotesClear, UNCHANGED writeVars
      PROVE  ConnStep
  BY <1>1, OnlyCleared DEF NotesClear, ConnStep
<1>2. ASSUME NEW p \in Calls, ~crashed, CallerCloses(p)
      PROVE  ConnStep /\ Next
  <2>1. Next  BY <1>2 DEF CallerCloses, Next
  <2> QED  BY <1>1, <1>2, <2>1 DEF CallerCloses
<1>3. ASSUME ~crashed, OnConnect \/ PeerSend \/ PeerEnd \/ \E p \in Calls : CloseCall(p),
             UNCHANGED <<writeVars, atClear>>
      PROVE  ConnStep /\ Next
  <2>1. Next  BY <1>3 DEF Next
  <2>2. connected' = connected
    BY <1>3 DEF OnConnect, PeerSend, PeerEnd, CloseCall, connVars
  <2> QED  BY <1>3, <2>1, <2>2 DEF ConnStep
<1>4. ASSUME ~crashed, LoopGoesOn
      PROVE  \/ ConnStep /\ Next
             \/ ReplyOrNot /\ Next /\ wpc[Loop] = "idle"
             \/ Write(Loop)
  <2>1. CASE wpc[Loop] = "idle" /\ ReplyOrNot
    BY <1>4, <2>1 DEF ReplyOrNot, Next, MsgLoop
  <2>2. CASE MsgLoop /\ NotesClear /\ UNCHANGED writeVars
    <3>1. Next  BY <1>4, <2>2 DEF Next
    <3> QED  BY <1>1, <2>2, <3>1
  <2> QED  BY <1>4, <2>1, <2>2 DEF LoopGoesOn
<1>5. ASSUME PeerStalls \/ Panic \/ UNCHANGED allVars
      PROVE  UNCHANGED <<connected, wpc, result, sent, lateSent, atClear>>
  BY <1>5 DEF PeerStalls, Panic, allVars, vars, connVars, writeVars
<1>6. Loop \in Writing /\ Writers \subseteq Writing
  BY DEF Writing
<1> QED  BY <1>2, <1>3, <1>4, <1>5, <1>6 DEF WNext

LEMMA WriteInvInductive ==
    ASSUME WriteInv, [WNext]_allVars
    PROVE  WriteInv'
<1>0. /\ WriteTypes /\ OpenInv /\ ClosedInv /\ NilInv
      /\ Writers \subseteq Writing /\ Loop \in Writing /\ Loop \notin Writers
  BY WriterAssumption DEF WriteInv, Writing, Procs
<1>1. CASE ConnStep
  <2>1. UNCHANGED <<wpc, result, sent, lateSent>>
    BY <1>1 DEF ConnStep, writeVars
  <2>2. CASE UNCHANGED <<connected, atClear>>
    BY <1>0, <2>1, <2>2 DEF WriteInv, WriteTypes, OpenInv, ClosedInv, NilInv
  <2>3. CASE connected /\ connected' = FALSE /\ atClear' = wpc
    <3>1. WriteTypes'  BY <1>0, <2>1, <2>3 DEF WriteTypes
    <3>2. OpenInv' /\ ClosedInv'
      BY <1>0, <2>1, <2>3 DEF OpenInv, ClosedInv
    <3>3. NilInv'
      BY <1>0, <2>1, <2>3 DEF NilInv
    <3> QED  BY <3>1, <3>2, <3>3 DEF WriteInv
  <2> QED  BY <1>1, <2>2, <2>3 DEF ConnStep
<1>2. CASE ReplyOrNot
  <2>1. UNCHANGED <<connected, result, sent, lateSent, atClear>>
    BY <1>2 DEF ReplyOrNot, OnPacket, connVars
  <2>2. /\ wpc' \in [Writing -> {"idle", "again", "write", "done"}]
        /\ \A p \in Writing : wpc'[p] = wpc[p] \/ (p = Loop /\ wpc'[p] = "again")
    BY <1>0, <1>2 DEF ReplyOrNot, Move, WriteTypes
  <2>3. WriteTypes'  BY <1>0, <2>1, <2>2 DEF WriteTypes
  <2>4. OpenInv' /\ NilInv'  BY <1>0, <2>1 DEF OpenInv, NilInv
  <2>5. ClosedInv'  BY <1>0, <2>1, <2>2 DEF ClosedInv
  <2> QED  BY <2>3, <2>4, <2>5 DEF WriteInv
<1>3. ASSUME NEW p \in Writers, WriteCall(p)
      PROVE  WriteInv'
  <2>1. UNCHANGED <<connected, sent, lateSent, atClear>>
    BY <1>3 DEF WriteCall, vars, connVars
  <2>2. /\ wpc' \in [Writing -> {"idle", "again", "write", "done"}]
        /\ result' \in [Writers -> {"none", "nil", "error"}]
        /\ \A q \in Writing : wpc'[q] = wpc[q] \/ wpc'[q] = "done"
                                \/ (connected /\ wpc'[q] = "again")
        /\ \A q \in Writers : result'[q] = result[q] \/ result'[q] # "nil"
    BY <1>0, <1>3 DEF WriteCall, Move, Returns, WriteTypes
  <2>3. WriteTypes'  BY <1>0, <2>1, <2>2 DEF WriteTypes
  <2>4. OpenInv' /\ NilInv'  BY <1>0, <2>1, <2>2 DEF OpenInv, NilInv
  <2>5. ClosedInv'  BY <1>0, <2>1, <2>2 DEF ClosedInv
  <2> QED  BY <2>3, <2>4, <2>5 DEF WriteInv
<1>4. ASSUME NEW p \in Writing, WriteTest(p)
      PROVE  WriteInv'
  <2>1. UNCHANGED <<connected, sent, lateSent, atClear>> /\ wpc[p] = "again"
    BY <1>4 DEF WriteTest, Move, vars, connVars
  <2>2. /\ wpc' \in [Writing -> {"idle", "again", "write", "done"}]
        /\ result' \in [Writers -> {"none", "nil", "error"}]
        /\ \A q \in Writing : wpc'[q] = wpc[q] \/ wpc'[q] \in {"idle", "done"}
                                \/ (connected /\ wpc'[q] = "write")
        /\ \A q \in Writers : result'[q] = result[q] \/ result'[q] # "nil" \/ (q = p /\ ~connected)
    BY <1>0, <1>4 DEF WriteTest, Move, Returns, After, WriteTypes
  <2>3. WriteTypes'  BY <1>0, <2>1, <2>2 DEF WriteTypes
  <2>4. OpenInv' /\ ClosedInv'  BY <1>0, <2>1, <2>2 DEF OpenInv, ClosedInv
  <2>5. NilInv'  BY <1>0, <2>1, <2>2 DEF ClosedInv, NilInv
  <2> QED  BY <2>3, <2>4, <2>5 DEF WriteInv
<1>5. ASSUME NEW p \in Writing, WriteMessage(p)
      PROVE  WriteInv'
  <2>1. /\ UNCHANGED <<connected, atClear>> /\ wpc[p] = "write"
        /\ sent' = sent \cup ({p} \cap Writers)
        /\ lateSent' = IF connected THEN lateSent ELSE [lateSent EXCEPT ![p] = @ + 1]
    BY <1>5 DEF WriteMessage, Move, vars, connVars
  <2>2. /\ wpc' \in [Writing -> {"idle", "again", "write", "done"}]
        /\ result' \in [Writers -> {"none", "nil", "error"}]
        /\ wpc'[p] \in {"idle", "done"} /\ \A q \in Writing \ {p} : wpc'[q] = wpc[q]
        /\ \A q \in Writers : result'[q] = result[q] \/ q = p
    BY <1>0, <1>5 DEF WriteMessage, Move, Returns, After, WriteTypes
  <2>3. lateSent' \in [Writing -> {0, 1}]
    BY <1>0, <2>1 DEF ClosedInv, WriteTypes
  <2>4. WriteTypes'  BY <1>0, <2>1, <2>2, <2>3 DEF WriteTypes
  <2>5. OpenInv'  BY <1>0, <2>1 DEF OpenInv
  <2>6. ClosedInv'
    <3>1. ~connected => atClear[p] = "write" /\ \A q \in Writing \ {p} : lateSent'[q] = lateSent[q]
      BY <1>0, <2>1 DEF ClosedInv, WriteTypes
    <3> QED  BY <1>0, <2>1, <2>2, <3>1 DEF ClosedInv
  <2>7. NilInv'  BY <1>0, <2>1, <2>2 DEF NilInv
  <2> QED  BY <2>4, <2>5, <2>6, <2>7 DEF WriteInv
<1>6. ASSUME NEW p \in Writing, WriteFails(p)
      PROVE  WriteInv'
  <2>1. UNCHANGED <<connected, sent, lateSent, atClear>>
    BY <1>6 DEF WriteFails, vars, connVars
  <2>2. /\ wpc' \in [Writing -> {"idle", "again", "write", "done"}]
        /\ result' \in [Writers -> {"none", "nil", "error"}]
        /\ \A q \in Writing : wpc'[q] = wpc[q] \/ wpc'[q] \in {"idle", "done"}
        /\ \A q \in Writers : result'[q] = result[q] \/ result'[q] # "nil"
    BY <1>0, <1>6 DEF WriteFails, Move, Returns, After, WriteTypes
  <2>3. WriteTypes'  BY <1>0, <2>1, <2>2 DEF WriteTypes
  <2>4. OpenInv' /\ ClosedInv' /\ NilInv'
    BY <1>0, <2>1, <2>2 DEF OpenInv, ClosedInv, NilInv
  <2> QED  BY <2>3, <2>4 DEF WriteInv
<1>7. CASE UNCHANGED <<connected, wpc, result, sent, lateSent, atClear>>
  BY <1>0, <1>7 DEF WriteInv, WriteTypes, OpenInv, ClosedInv, NilInv
<1>8. connected \in BOOLEAN
  BY <1>0 DEF WriteTypes
<1> QED  BY <1>1, <1>2, <1>3, <1>4, <1>5, <1>6, <1>7, <1>8, ConnSteps DEF Write

LEMMA WriteInvariant == WriteSpec => []WriteInv
<1>1. ASSUME WInit PROVE WriteInv
  <2>1. /\ connected = TRUE /\ wpc = [p \in Writing |-> "idle"]
        /\ result = [p \in Writers |-> "none"] /\ lateSent = [p \in Writing |-> 0]
        /\ atClear = [p \in Writing |-> "none"]
    BY <1>1 DEF WInit, Init
  <2>2. WriteTypes  BY <2>1 DEF WriteTypes
  <2>3. OpenInv  BY <2>1 DEF OpenInv
  <2>4. ClosedInv  BY <2>1 DEF ClosedInv
  <2>5. NilInv  BY <2>1 DEF NilInv
  <2> QED  BY <2>2, <2>3, <2>4, <2>5 DEF WriteInv
<1> QED  BY <1>1, WriteInvInductive, PTL DEF WriteSpec

\* For any number of goroutines that write and close: Write returns nil for a
\* message that it has not given to the library only if connected was cleared
\* between its two tests (conn_ws.go:212,87).
THEOREM NilMeansGiven == WriteSpec => []NilMeansSent
<1>1. WriteInv => NilMeansSent  BY DEF WriteInv, NilInv, NilMeansSent
<1> QED  BY <1>1, WriteInvariant, PTL

\* For any number of goroutines: once connected is cleared (conn_ws.go:99) a
\* message goes out only from where one was being written then, once.
THEOREM LateWrites == WriteSpec => []LateOnlyIfBegun
<1>1. ASSUME WriteInv PROVE LateOnlyIfBegun
  <2> SUFFICES ASSUME NEW p \in Writing
               PROVE  lateSent[p] <= IF atClear[p] = "write" THEN 1 ELSE 0
    BY DEF LateOnlyIfBegun
  <2>1. lateSent[p] \in {0, 1} /\ connected \in BOOLEAN
    BY <1>1 DEF WriteInv, WriteTypes
  <2>2. lateSent[p] = 1 => atClear[p] = "write"
    BY <1>1, <2>1 DEF WriteInv, OpenInv, ClosedInv
  <2> QED  BY <2>1, <2>2
<1> QED  BY <1>1, WriteInvariant, PTL
----------------------------------------------------------------------------
(* What writing does to the rest of the connection                         *)

\* The program ends where it is.
Crash == crashed' = TRUE /\ UNCHANGED <<connVars, introduced, pc, packet, peerVars, history>>

ConnSpec == Init /\ [][Next \/ Crash]_vars

ConnInv == LateInv /\ CloseInv /\ OrderInv /\ FlagTypes

LEMMA CrashKeeps ==
    ASSUME ConnInv, Crash
    PROVE  ConnInv'
<1> USE DEF Crash, ConnInv, PcOK, connVars, peerVars, history
<1>1. LateInv'  BY DEF LateInv, Unpacking
<1>2. CloseInv'  BY CloseInvFrame DEF CloseInv
<1>3. OrderInv'
  <2>1. DeliveryInv'  BY OrderFrame
  <2>2. PcOK' /\ ReleaseInv'  BY DEF OrderInv, ReleaseInv
  <2> QED  BY <2>1, <2>2 DEF OrderInv
<1>4. FlagTypes'  BY DEF FlagTypes
<1> QED  BY <1>1, <1>2, <1>3, <1>4

LEMMA ConnInvariant == ConnSpec => []ConnInv
<1>1. Init => ConnInv
  BY LateInvInit, CloseInvInit, OrderInit, FlagInit DEF ConnInv
<1>2. ASSUME ConnInv, [Next \/ Crash]_vars
      PROVE  ConnInv'
  <2>1. CASE [Next]_vars
    BY <1>2, <2>1, LateInvInductive, CloseInvInductive, OrderStep, FlagStep DEF ConnInv, OrderInv
  <2>2. CASE Crash
    BY <1>2, <2>2, CrashKeeps
  <2> QED  BY <1>2, <2>1, <2>2
<1> QED  BY <1>1, <1>2, PTL DEF ConnSpec

\* Writing changes nothing of what reading and closing do, except that the
\* panic of two writes in the library (conn_ws.go:90, without a lock) ends the
\* program: with any calls of Write the connection is one of WSConn.
THEOREM WriteImplementsConn == WriteSpec => ConnSpec
<1>1. ASSUME [WNext]_allVars
      PROVE  [Next \/ Crash]_vars
  <2>1. CASE \E p \in Writers : WriteCall(p) \/ Write(p)
    BY <2>1 DEF WriteCall, Write, WriteTest, WriteMessage, WriteFails
  <2>2. ASSUME NEW p \in Calls, ~crashed, CallerCloses(p)
        PROVE  Next
    BY <2>2 DEF CallerCloses, Next
  <2>3. CASE ~crashed /\ (OnConnect \/ PeerSend \/ PeerEnd \/ \E p \in Calls : CloseCall(p))
    BY <2>3 DEF Next
  <2>4. CASE ~crashed /\ LoopGoesOn
    <3>1. CASE ReplyOrNot  BY <2>4, <3>1 DEF ReplyOrNot, Next, MsgLoop
    <3>2. CASE MsgLoop  BY <2>4, <3>2 DEF Next
    <3>3. CASE Write(Loop)
      BY <3>3 DEF Write, WriteTest, WriteMessage, WriteFails
    <3> QED  BY <2>4, <3>1, <3>2, <3>3 DEF LoopGoesOn
  <2>5. CASE PeerStalls  BY <2>5 DEF PeerStalls
  <2>6. CASE Panic  BY <2>6 DEF Panic, Crash
  <2>7. CASE UNCHANGED allVars  BY <2>7 DEF allVars
  <2> QED  BY <1>1, <2>1, <2>2, <2>3, <2>4, <2>5, <2>6, <2>7 DEF WNext
<1> QED  BY <1>1, PTL DEF WriteSpec, WInit, ConnSpec

\* So the guarantees to the application hold while it writes, up to a panic and
\* with the exceptions that they name (a ring buffer used after Put, ReadN): for
\* any number of goroutines that write, reply and close.
THEOREM WritesDisturbNothing ==
    WriteSpec => [](TypeOK /\ PacketsInOrder /\ AtMostOneLatePacket /\ OnCloseTwiceOnlyByOverlap)
<1>1. ASSUME ConnInv
      PROVE  TypeOK /\ PacketsInOrder /\ AtMostOneLatePacket /\ OnCloseTwiceOnlyByOverlap
  <2>1. TypeOK /\ PacketsInOrder
    BY <1>1, TypesFollow DEF ConnInv, OrderInv, DeliveryInv, ReleaseInv, PacketsInOrder
  <2>2. AtMostOneLatePacket
    BY <1>1 DEF ConnInv, LateInv, AtMostOneLatePacket
  <2>3. OnCloseTwiceOnlyByOverlap
    BY <1>1 DEF ConnInv, CloseInv, OnCloseTwiceOnlyByOverlap
  <2> QED  BY <2>1, <2>2, <2>3
<1> QED  BY <1>1, ConnInvariant, WriteImplementsConn, PTL
----------------------------------------------------------------------------
(* The end of msgLoop                                                      *)

\* How far from its end msgLoop is on a closed connection.
Rank ==
    [at \in {"idle", "done", "nil", "put", "close", "onclose", "set", "test", "recv", "shift",
             "look", "unpack", "packet"} |->
        CASE at = "nil" -> 1 [] at = "put" -> 2 [] at = "close" -> 3 [] at = "onclose" -> 4
          [] at = "set" -> 5 [] at = "test" -> 6 [] at = "recv" -> 7 [] at = "shift" -> 8
          [] at = "look" -> 9 [] at = "unpack" -> 10 [] at = "packet" -> 11 [] OTHER -> 0]

\* ReadN goes on with what is left of the message in hand, a packet of a byte or
\* more at a time, and so it may with a message on the way or still to be sent.
Waiting == MaxMsgs - sentMsgs + Len(wire)
Load == Len(buffer) + (MsgLen + 1) * Waiting
LoopRank == Rank[pc[Loop]]
LoopWork == 4 * Load + LoopRank

\* On a closed connection every step of msgLoop brings it nearer to its end, and
\* no other step takes it away from there, until the ring buffer is used after
\* Put, where another connection may fill it, or the program ends.
LoopWinds ==
    [][~connected /\ ~misused' /\ ~crashed' =>
          /\ LoopWork \in Nat /\ LoopWork' <= LoopWork
          /\ MsgLoop => LoopWork' < LoopWork]_vars

\* Less to do, or as much and a lower rank.
LEMMA WorkFalls ==
    \A a, b, c, d \in Nat : (c < a /\ d <= b + 3) \/ (c <= a /\ d < b) =>
        4 * a + b \in Nat /\ 4 * c + d <= 4 * a + b /\ 4 * c + d < 4 * a + b
OBVIOUS

LEMMA WorkStays ==
    \A a, b, c \in Nat : c <= a => 4 * a + b \in Nat /\ 4 * c + b <= 4 * a + b
OBVIOUS

\* A message that is received comes off the load with one more than its bytes.
LEMMA LoadNat ==
    ASSUME NEW w \in Nat
    PROVE  (MsgLen + 1) * w \in Nat /\ (MsgLen + 1) * (w + 1) = (MsgLen + 1) * w + MsgLen + 1
BY MsgAssumption

LEMMA LoopRanks ==
    ASSUME PcOK, MsgLoop, ~connected
    PROVE  /\ LoopRank \in Nat /\ LoopRank' \in Nat
           /\ ReadMessage \/ Shift => LoopRank' = LoopRank + 3
           /\ ~ReadMessage /\ ~Shift => LoopRank' < LoopRank
<1>0. pc[Loop] \in DOMAIN Rank /\ Loop \in Procs
  BY DEF PcOK, Procs, Rank
<1> USE <1>0 DEF Step, PcOK, Rank, LoopRank
<1>1. CASE ReadMessage  BY <1>1 DEF ReadMessage, Shift
<1>2. CASE ReadError  BY <1>2 DEF ReadError, AfterError, ReadMessage, Shift
<1>3. CASE ReadTest  BY <1>3 DEF ReadTest, Readable, ReadMessage, Shift
<1>4. CASE ReadN  BY <1>4 DEF ReadN, ReadMessage, Shift
<1>5. CASE ReadLook  BY <1>5 DEF ReadLook, ReadMessage, Shift
<1>6. CASE Shift  BY <1>6 DEF Shift
<1>7. CASE OnPacket  BY <1>7 DEF OnPacket, ReadMessage, Shift
<1>8. CASE HandleTest(Loop) \/ HandleSet(Loop) \/ OnClose(Loop)
  BY <1>8 DEF HandleTest, HandleSet, OnClose, ReadMessage, Shift
<1>9. CASE CloseConn(Loop) \/ ReleasePut(Loop) \/ ReleaseNil(Loop)
  BY <1>9 DEF CloseConn, ReleasePut, ReleaseNil, ReadMessage, Shift
<1> QED
  BY <1>1, <1>2, <1>3, <1>4, <1>5, <1>6, <1>7, <1>8, <1>9 DEF MsgLoop, HandleClose

\* Steps that receive nothing take no byte more in hand, and Shift takes one out.
LEMMA LoadFalls ==
    ASSUME OrderInv, Next \/ Crash
    PROVE  /\ Load \in Nat /\ Load' \in Nat
           /\ Load' <= Load
           /\ ReadMessage => Load' < Load
           /\ Shift /\ ~misused' /\ ~crashed' => Load' < Load
<1> USE MsgAssumption
<1>0. /\ PcOK /\ Waiting \in Nat /\ wire \in Seq(Seq(Nat)) /\ Len(wire) \in Nat
      /\ sentMsgs \in 0..MaxMsgs /\ buffer \in Seq(Nat) /\ Len(buffer) \in Nat
  BY DEF OrderInv, DeliveryInv, StreamInv, Waiting
<1>1. CASE ReadMessage
  <2>1. Waiting' + 1 = Waiting /\ Waiting' \in Nat
    BY <1>0, <1>1 DEF ReadMessage, Waiting
  <2>2. Len(buffer') = MsgLen
    <3>1. buffer' = Message(Received + 1) /\ Received + 1 \in Nat \ {0}
      BY <1>0, <1>1 DEF ReadMessage, OrderInv, DeliveryInv, StreamInv, Received
    <3> QED  BY <3>1, MessageBytes
  <2>3. /\ (MsgLen + 1) * Waiting = (MsgLen + 1) * Waiting' + MsgLen + 1
        /\ (MsgLen + 1) * Waiting' \in Nat
    BY <2>1, LoadNat
  <2> DEFINE x == (MsgLen + 1) * Waiting'
             y == (MsgLen + 1) * Waiting
  <2>4. x \in Nat /\ y = x + MsgLen + 1 /\ Load = Len(buffer) + y /\ Load' = MsgLen + x
    BY <2>2, <2>3 DEF Load
  <2>5. ~Shift
    BY <1>0, <1>1 DEF ReadMessage, Shift, Step
  <2> HIDE DEF x, y
  <2> QED  BY <1>0, <2>4, <2>5
<1>2. CASE ~ReadMessage
  <2>1. Waiting' = Waiting
    <3>1. CASE PeerSend
      <4>1. sentMsgs' = sentMsgs + 1 /\ wire' = Append(wire, Message(sentMsgs + 1))
        BY <1>0, <3>1 DEF PeerSend
      <4>2. Message(sentMsgs + 1) \in Seq(Nat)  BY <1>0, MessageBytes
      <4>3. Len(wire') = Len(wire) + 1  BY <1>0, <4>1, <4>2
      <4> QED  BY <1>0, <4>1, <4>3 DEF Waiting
    <3>2. CASE ~PeerSend
      <4>1. UNCHANGED <<wire, sentMsgs>>
        BY <1>2, <3>2 DEF Next, Crash, OnConnect, CloseCall, PeerEnd, MsgLoop, ReadError, ReadTest,
           ReadN, ReadLook, Shift, OnPacket, HandleClose, HandleTest, HandleSet, OnClose,
           CloseConn, ReleasePut, ReleaseNil, peerVars
      <4> QED  BY <4>1 DEF Waiting
    <3> QED  BY <3>1, <3>2
  <2>2. /\ Len(buffer') \in Nat /\ Len(buffer') <= Len(buffer)
        /\ Shift /\ ~misused' /\ ~crashed' => Len(buffer') < Len(buffer)
    <3>1. CASE Shift
      <4>1. /\ pc[Loop] = "shift" /\ packet \in Seq(Nat) /\ Len(packet) \in Nat \ {0}
        BY <1>0, <3>1 DEF Shift, Step, OrderInv, DeliveryInv, PacketTypes, Holding
      <4>2. PICK k \in {0, 1} : RingHolds(k) /\ buffer' = Rest(Len(packet) - k)
        BY <3>1 DEF Shift
      <4>3. Len(packet) - k \in Nat  BY <4>1, <4>2
      <4>4. Len(buffer') \in Nat /\ Len(buffer') <= Len(buffer)
        <5> DEFINE m == Len(packet) - k
        <5>1. m \in Nat /\ buffer' = Rest(m)  BY <4>2, <4>3
        <5> HIDE DEF m
        <5>2. Len(Rest(m)) \in Nat /\ Len(Rest(m)) <= Len(buffer)  BY <1>0, <5>1, RestLength
        <5> QED  BY <5>1, <5>2
      <4>5. ASSUME ~misused', ~crashed'
            PROVE  Len(buffer') < Len(buffer)
        <5>1. inbound = "held" /\ ~misused
          <6>1. UseInbound /\ inbound \in {"held", "pooled", "nil"}
            BY <3>1 DEF Shift, OrderInv, ReleaseInv
          <6>2. inbound # "pooled" /\ ~misused  BY <4>5, <6>1 DEF UseInbound
          <6>3. inbound # "nil"  BY <4>5, <6>1 DEF UseInbound
          <6> QED  BY <6>1, <6>2, <6>3
        <5>2. k = 0  BY <4>2, <5>1 DEF RingHolds
        <5>3. buffer # <<>> /\ Len(packet) <= Len(buffer)
          BY <4>1, <5>1 DEF OrderInv, DeliveryInv, PacketInv
        <5> DEFINE n == Len(packet)
        <5>4. n \in Nat /\ n > 0 /\ Len(buffer) > 0 /\ buffer' = Rest(n)
          <6>1. Len(packet) - k = Len(packet)  BY <4>1, <5>2
          <6>2. buffer' = Rest(n)  BY <4>2, <6>1
          <6>3. n \in Nat /\ n > 0  BY <4>1
          <6>4. Len(buffer) > 0  BY <1>0, <5>3
          <6> QED  BY <6>2, <6>3, <6>4
        <5> HIDE DEF n
        <5>5. Len(Rest(n)) < Len(buffer)  BY <1>0, <5>4, RestLength
        <5> QED  BY <5>4, <5>5
      <4> QED  BY <4>4, <4>5
    <3>2. CASE ~Shift
      <4>1. buffer' = buffer \/ buffer' = <<>>
        BY <1>2, <3>2 DEF Next, Crash, OnConnect, CloseCall, PeerSend, PeerEnd, MsgLoop, ReadError,
           ReadTest, ReadN, ReadLook, OnPacket, HandleClose, HandleTest, HandleSet, OnClose,
           CloseConn, ReleasePut, ReleaseNil, connVars
      <4> QED  BY <1>0, <3>2, <4>1
    <3> QED  BY <3>1, <3>2
  <2> DEFINE y == (MsgLen + 1) * Waiting
  <2>3. y \in Nat /\ Load = Len(buffer) + y /\ Load' = Len(buffer') + y
    BY <1>0, <2>1, LoadNat DEF Load
  <2> HIDE DEF y
  <2> QED  BY <1>0, <1>2, <2>2, <2>3
<1> QED  BY <1>1, <1>2

LEMMA LoopWindsStep ==
    ASSUME OrderInv, ~connected, ~misused', ~crashed', Next \/ Crash
    PROVE  /\ LoopWork \in Nat /\ LoopWork' <= LoopWork
           /\ MsgLoop => LoopWork' < LoopWork
<1>1. LoopWork = 4 * Load + LoopRank /\ LoopWork' = 4 * Load' + LoopRank'
  BY DEF LoopWork
<1>2. /\ Load \in Nat /\ Load' \in Nat /\ Load' <= Load
      /\ ReadMessage \/ Shift => Load' < Load
  BY LoadFalls
<1>3. CASE MsgLoop
  <2>1. /\ LoopRank \in Nat /\ LoopRank' \in Nat
        /\ ReadMessage \/ Shift => LoopRank' = LoopRank + 3
        /\ ~ReadMessage /\ ~Shift => LoopRank' < LoopRank
    BY <1>3, LoopRanks DEF OrderInv
  <2>2. (Load' < Load /\ LoopRank' <= LoopRank + 3) \/ (Load' <= Load /\ LoopRank' < LoopRank)
    BY <1>2, <2>1
  <2>3. /\ 4 * Load + LoopRank \in Nat /\ 4 * Load' + LoopRank' <= 4 * Load + LoopRank
        /\ 4 * Load' + LoopRank' < 4 * Load + LoopRank
    BY <1>2, <2>1, <2>2, WorkFalls, Zenon
  <2> QED  BY <1>1, <2>3, Zenon
<1>4. CASE ~MsgLoop
  <2>1. PcOK /\ Loop \in Procs /\ Loop \notin Calls
    BY ProcAssumption DEF OrderInv, Procs, Calls
  <2>2. pc'[Loop] = pc[Loop]
    <3>1. ASSUME NEW p \in Calls, CloseCall(p) \/ HandleClose(p)
          PROVE  pc'[Loop] = pc[Loop]
      BY <2>1, <3>1 DEF CloseCall, HandleClose, HandleTest, HandleSet, OnClose, CloseConn,
         ReleasePut, ReleaseNil, Step, PcOK
    <3> QED  BY <1>4, <3>1 DEF Next, Crash, OnConnect, PeerSend, PeerEnd
  <2>3. LoopRank' = LoopRank /\ LoopRank \in Nat
    BY <2>1, <2>2 DEF LoopRank, Rank, PcOK
  <2>4. 4 * Load + LoopRank \in Nat /\ 4 * Load' + LoopRank <= 4 * Load + LoopRank
    BY <1>2, <2>3, WorkStays, Zenon
  <2>5. LoopWork' = 4 * Load' + LoopRank  BY <1>1, <2>3
  <2> QED  BY <1>1, <1>4, <2>4, <2>5, Zenon
<1> QED  BY <1>3, <1>4

\* Once connected is cleared (conn_ws.go:99) msgLoop has at most eleven steps
\* left, four for each byte in hand and four for each message to come and each
\* byte of it, however its steps are interleaved with those of callers and peer:
\* neither of its loops (conn_ws.go:66,77) keeps it going, not even with ReadN
\* (conn_ws.go:150), which does not see that the connection is closed.  The
\* count ends where release has taken the ring buffer from under it (:115).
THEOREM LoopEndsSoon == ConnSpec => LoopWinds
<1>1. ConnInv /\ [Next \/ Crash]_vars =>
        [~connected /\ ~misused' /\ ~crashed' =>
            /\ LoopWork \in Nat /\ LoopWork' <= LoopWork
            /\ MsgLoop => LoopWork' < LoopWork]_vars
  BY LoopWindsStep DEF ConnInv
<1> QED  BY <1>1, ConnInvariant, PTL DEF ConnSpec, LoopWinds
=============================================================================
