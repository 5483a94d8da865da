--------------------------- MODULE TCPConnProofs ---------------------------
(***************************************************************************)
(* Theorems about one TCP connection, for any calls of Write and Close and *)
(* any sizes of messages, packets and buffers: it closes once, is quiet    *)
(* from then on, and keeps both streams in order.                          *)
(***************************************************************************)
EXTENDS TCPConn, TLAPS, SequenceTheorems

Closing == {"unbind", "onclose", "closefd"}

----------------------------------------------------------------------------
(* The life of the connection, whatever its bytes                          *)

ControlTypes ==
    /\ connected \in BOOLEAN /\ bound \in BOOLEAN /\ fdOpen \in BOOLEAN
    /\ interest \in {"none", "read", "readwrite"}
    /\ listener \in {"store", "add", "delete", "done"}
    /\ loopPc \in {"idle", "unpack"} \cup Closing
    /\ back \in {"idle", "unpack"}
    /\ events \subseteq {"read", "write", "err"}

\* The descriptor is open until CloseFd, and handleClose is entered once.
CloseInv ==
    /\ fdOpen <=> connected \/ loopPc \in Closing
    /\ connected => loopPc \notin Closing /\ onCloses = 0
    /\ loopPc \in {"unbind", "onclose"} => onCloses = 0
    /\ onCloses \in {0, 1}

\* Events come after BindHandler and from a registered descriptor; once the loop
\* has removed the handler, BindHandler does not bring it back to what is left
\* of them.
EventInv ==
    /\ interest # "none" \/ events # {} => listener = "done"
    /\ connected /\ events # {} => interest # "none"
    /\ ~fdOpen => interest = "none"
    /\ ~connected /\ loopPc # "unbind" /\ events # {} => ~bound

\* release leaves nothing behind.
ReleaseInv == ~fdOpen => buffer = <<>> /\ inbound = <<>> /\ outbound = <<>>

ControlInv == ControlTypes /\ CloseInv /\ EventInv /\ ReleaseInv

\* What handleClose and write may do to the life of the connection.
GoesOn(returnTo) == loopPc' = returnTo /\ UNCHANGED <<connected, back>>

StartsClosing(returnTo) ==
    /\ connected /\ connected' = FALSE /\ interest' = "none"
    /\ loopPc' = "unbind" /\ back' = returnTo

LEMMA CloseCases ==
    ASSUME NEW returnTo, HandleClose(returnTo), connected \in BOOLEAN
    PROVE  \/ StartsClosing(returnTo)
           \/ ~connected /\ GoesOn(returnTo) /\ interest' = interest
BY DEF HandleClose, StartsClosing, GoesOn

LEMMA WriteCases ==
    ASSUME NEW returnTo, NEW b, WriteOut(b, returnTo), ControlTypes
    PROVE  \/ connected /\ NoWrite /\ StartsClosing(returnTo)
           \/ ~connected /\ NoWrite /\ GoesOn(returnTo) /\ interest' = interest
           \/ /\ connected /\ GoesOn(returnTo)
              /\ interest' \in {"none", "read", "readwrite"}
              /\ (interest' = "none" <=> interest = "none")
BY DEF WriteOut, HandleClose, StartsClosing, GoesOn, ControlTypes, EnableReadWrite

\* A step of the loop that goes on or starts to close, outside handleClose.
LEMMA WorkKeepsControl ==
    ASSUME ControlInv, NEW returnTo \in {"idle", "unpack"},
           loopPc \in {"idle", "unpack"},
           StartsClosing(returnTo) \/ GoesOn(returnTo),
           interest' \in {"none", "read", "readwrite"},
           interest' # "none" => interest # "none" /\ fdOpen,
           connected' /\ interest' = "none" => interest = "none",
           events' \subseteq events,
           UNCHANGED <<bound, fdOpen, listener, onCloses>>,
           ReleaseInv'
    PROVE  ControlInv'
<1> USE DEF ControlInv, ControlTypes, CloseInv, EventInv, Closing, StartsClosing, GoesOn
<1>1. ControlTypes'  OBVIOUS
<1>2. CloseInv'  OBVIOUS
<1>3. events' # {} => events # {}  OBVIOUS
<1>4. EventInv'
  BY <1>3
<1> QED  BY <1>1, <1>2, <1>4

LEMMA InitControl == Init => ControlInv
BY DEF Init, ControlInv, ControlTypes, CloseInv, EventInv, ReleaseInv, Closing

\* Users and the peer change nothing of it.
LEMMA IdleKeepsControl ==
    ASSUME ControlInv, UNCHANGED <<connVars, bindVars, listener, loopVars, history>>
    PROVE  ControlInv'
BY DEF connVars, bindVars, loopVars, history,
       ControlInv, ControlTypes, CloseInv, EventInv, ReleaseInv, Closing

LEMMA NextControl ==
    ASSUME ControlInv, [Next]_vars
    PROVE  ControlInv'
<1> USE DEF connVars, bindVars, userVars, loopVars, socketVars, history
<1>1. CASE ListenerNext
  <2>1. CASE Store
    BY <2>1 DEF Store, ControlInv, ControlTypes, CloseInv, EventInv, ReleaseInv, Closing
  <2>2. CASE AddRead
    BY <2>2 DEF AddRead, ControlInv, ControlTypes, CloseInv, EventInv, ReleaseInv, Closing
  <2>3. CASE DeleteHandler
    BY <2>3 DEF DeleteHandler, ControlInv, ControlTypes, CloseInv, EventInv, ReleaseInv, Closing
  <2> QED  BY <1>1, <2>1, <2>2, <2>3 DEF ListenerNext
<1>2. CASE Unbind
  BY <1>2 DEF Unbind, ControlInv, ControlTypes, CloseInv, EventInv, ReleaseInv, Closing
<1>3. CASE OnClose
  BY <1>3 DEF OnClose, ControlInv, ControlTypes, CloseInv, EventInv, ReleaseInv, Closing
<1>4. CASE CloseFd
  BY <1>4 DEF CloseFd, Release, ControlInv, ControlTypes, CloseInv, EventInv, ReleaseInv, Closing
<1>5. CASE EpollWait
  BY <1>5 DEF EpollWait, Reported, ControlInv, ControlTypes, CloseInv, EventInv, ReleaseInv, Closing
<1>6. CASE NoHandler \/ HandleNothing
  BY <1>6 DEF NoHandler, HandleNothing, Dispatch,
              ControlInv, ControlTypes, CloseInv, EventInv, ReleaseInv, Closing
<1>7. CASE HandleErr
  <2>1. StartsClosing("idle") \/ (GoesOn("idle") /\ interest' = interest)
    BY <1>7, CloseCases DEF HandleErr, ControlInv, ControlTypes
  <2>2. loopPc = "idle" /\ events' = {} /\ UNCHANGED <<bound, fdOpen, listener, onCloses>>
    BY <1>7 DEF HandleErr, Dispatch
  <2>3. ReleaseInv'  BY <1>7 DEF HandleErr, ControlInv, ReleaseInv
  <2> QED
    BY <2>1, <2>2, <2>3, WorkKeepsControl
    DEF StartsClosing, GoesOn, ControlInv, ControlTypes, EventInv
<1>8. CASE HandleWrite
  <2>1. /\ loopPc = "idle" /\ events' = {} /\ connected /\ fdOpen
        /\ UNCHANGED <<buffer, inbound, bound, fdOpen, listener, onCloses>>
    BY <1>8 DEF HandleWrite, Dispatch, ControlInv, ControlTypes, CloseInv, EventInv, Closing
  <2>2. interest # "none"
    BY <1>8, <2>1 DEF HandleWrite, ControlInv, EventInv
  <2>3. \/ StartsClosing("idle")
        \/ GoesOn("idle") /\ interest' \in {"read", interest}
    BY <1>8, <2>1, CloseCases DEF HandleWrite, GoesOn, ControlInv, ControlTypes
  <2>4. ReleaseInv'  BY <2>1 DEF ReleaseInv
  <2> QED
    BY <2>1, <2>2, <2>3, <2>4, WorkKeepsControl
    DEF StartsClosing, GoesOn, ControlInv, ControlTypes
<1>9. CASE HandleRead
  <2>1. /\ loopPc = "idle" /\ events' = {} /\ connected /\ fdOpen
        /\ UNCHANGED <<bound, fdOpen, listener, onCloses>>
    BY <1>9 DEF HandleRead, Dispatch, ControlInv, ControlTypes, CloseInv, EventInv, Closing
  <2>2. \/ StartsClosing("idle")
        \/ GoesOn("idle") /\ interest' = interest
        \/ GoesOn("unpack") /\ interest' = interest
    BY <1>9, <2>1, CloseCases DEF HandleRead, GoesOn, ControlInv, ControlTypes
  <2>3. ReleaseInv'  BY <2>1 DEF ReleaseInv
  <2> QED
    BY <2>1, <2>2, <2>3, WorkKeepsControl
    DEF StartsClosing, GoesOn, ControlInv, ControlTypes, EventInv
<1>10. ASSUME NEW n \in 1..Len(inbound) + Len(buffer), Packet(n)
       PROVE  ControlInv'
  <2>1. /\ loopPc = "unpack" /\ events' = events /\ connected /\ fdOpen
        /\ UNCHANGED <<bound, fdOpen, listener, onCloses>>
    BY <1>10 DEF Packet, ControlInv, CloseInv
  <2>2. \/ StartsClosing("unpack")
        \/ /\ GoesOn("unpack") /\ interest' \in {"none", "read", "readwrite"}
           /\ (interest' = "none" <=> interest = "none")
    BY <1>10, <2>1, WriteCases DEF Packet, GoesOn, ControlInv, ControlTypes
  <2>3. ReleaseInv'  BY <2>1 DEF ReleaseInv
  <2> QED
    BY <2>1, <2>2, <2>3, WorkKeepsControl
    DEF StartsClosing, GoesOn, ControlInv, ControlTypes, EventInv
<1>11. CASE NoPacket
  <2>1. /\ loopPc = "unpack" /\ GoesOn("idle")
        /\ UNCHANGED <<interest, events, bound, fdOpen, listener, onCloses>>
    BY <1>11 DEF NoPacket, GoesOn
  <2>2. ReleaseInv'
    BY <1>11 DEF NoPacket, ControlInv, ReleaseInv, CloseInv
  <2> QED
    BY <2>1, <2>2, WorkKeepsControl
    DEF GoesOn, ControlInv, ControlTypes, EventInv
<1>12. CASE RunJob
  <2>1. /\ loopPc = "idle"
        /\ UNCHANGED <<buffer, inbound, events, bound, fdOpen, listener, onCloses>>
    BY <1>12 DEF RunJob
  <2>2. \/ StartsClosing("idle")
        \/ ~connected /\ GoesOn("idle") /\ interest' = interest /\ outbound' = outbound
        \/ /\ connected /\ GoesOn("idle") /\ interest' \in {"none", "read", "readwrite"}
           /\ (interest' = "none" <=> interest = "none")
    BY <1>12, WriteCases, CloseCases DEF RunJob, NoWrite, ControlInv, ControlTypes
  <2>3. ReleaseInv'
    BY <2>1, <2>2 DEF ReleaseInv, StartsClosing, ControlInv, CloseInv, Closing
  <2> QED
    BY <2>1, <2>2, <2>3, WorkKeepsControl
    DEF StartsClosing, GoesOn, ControlInv, ControlTypes, EventInv
<1>13. ASSUME NEW j \in Calls, Check(j) \/ Trigger(j)
       PROVE  ControlInv'
  <2>1. UNCHANGED <<connVars, bindVars, listener, loopVars, history>>
    BY <1>13 DEF Check, Trigger
  <2> QED  BY <2>1, IdleKeepsControl
<1>14. CASE PeerNext
  <2>1. UNCHANGED <<connVars, bindVars, listener, loopVars, history>>
    BY <1>14 DEF PeerNext, PeerSend, PeerShutdown, PeerReset, PeerReads
  <2> QED  BY <2>1, IdleKeepsControl
<1>15. CASE UNCHANGED vars
  BY <1>15, IdleKeepsControl DEF vars
<1> QED
  BY <1>1, <1>2, <1>3, <1>4, <1>5, <1>6, <1>7, <1>8, <1>9, <1>10, <1>11, <1>12, <1>13,
     <1>14, <1>15 DEF Next, LoopNext

LEMMA AlwaysControl == Spec => []ControlInv
BY InitControl, NextControl, PTL DEF Spec

\* handleClose runs once: neither the peer, nor a write that fails inside a
\* handler or a job, nor a second Close job enters it again (conn.go).
THEOREM ClosedOnce == Spec => []OnCloseOnce
<1>1. ControlInv => OnCloseOnce
  BY DEF ControlInv, CloseInv, OnCloseOnce
<1> QED  BY <1>1, AlwaysControl, PTL

\* No step after OnClose hands a packet over or writes to the descriptor: events
\* of the same epoll_wait, queued jobs and the rest of a handleRead included.
THEOREM QuietOnceClosed == Spec => QuietAfterOnClose
<1>1. ASSUME ControlInv, [Next]_vars, onCloses > 0
      PROVE  UNCHANGED <<delivered, sent>>
  <2> USE DEF connVars, bindVars, userVars, loopVars, socketVars, history
  <2>1. ~connected  BY <1>1 DEF ControlInv, CloseInv
  <2>2. ASSUME NEW b, NEW returnTo, WriteOut(b, returnTo)
        PROVE  NoWrite
    BY <2>1, <2>2, WriteCases, <1>1 DEF ControlInv
  <2>3. CASE ListenerNext \/ PeerNext
    BY <2>3 DEF ListenerNext, Store, AddRead, DeleteHandler,
                PeerNext, PeerSend, PeerShutdown, PeerReset, PeerReads
  <2>4. CASE LoopNext
    <3>1. ~HandleWrite /\ ~HandleRead
      BY <1>1, <2>1 DEF HandleWrite, HandleRead, Dispatch,
         ControlInv, ControlTypes, CloseInv, EventInv, Closing
    <3>2. \A n : ~Packet(n)  BY <2>1 DEF Packet
    <3> QED
      BY <2>4, <3>1, <3>2 DEF LoopNext, EpollWait, NoHandler, HandleErr, HandleNothing,
         NoPacket, Unbind, OnClose, CloseFd, Release
  <2>5. CASE RunJob
    BY <2>2, <2>5 DEF RunJob, NoWrite
  <2>6. ASSUME NEW j \in Calls, Check(j) \/ Trigger(j)
        PROVE  UNCHANGED <<delivered, sent>>
    BY <2>6 DEF Check, Trigger
  <2> QED  BY <1>1, <2>3, <2>4, <2>5, <2>6 DEF Next, vars
<1>2. ControlInv /\ [Next]_vars => [onCloses > 0 => UNCHANGED <<delivered, sent>>]_vars
  BY <1>1
<1> QED  BY <1>2, AlwaysControl, PTL DEF Spec, QuietAfterOnClose

----------------------------------------------------------------------------
(* Sequences                                                               *)

LEMMA SplitProperties ==
    ASSUME NEW S, NEW s \in Seq(S), NEW n \in 0..Len(s)
    PROVE  /\ SubSeq(s, 1, n) \in Seq(S) /\ Len(SubSeq(s, 1, n)) = n
           /\ SubSeq(s, n + 1, Len(s)) \in Seq(S)
           /\ Len(SubSeq(s, n + 1, Len(s))) = Len(s) - n
           /\ SubSeq(s, 1, n) \o SubSeq(s, n + 1, Len(s)) = s
<1>1. /\ \A i \in 1..n : s[i] \in S
      /\ \A i \in n + 1..Len(s) : s[i] \in S
  BY ElementOfSeq
<1>2. SubSeq(s, 1, n) \in Seq(S) /\ Len(SubSeq(s, 1, n)) = n
  BY <1>1, SubSeqProperties
<1>3. SubSeq(s, n + 1, Len(s)) \in Seq(S) /\ Len(SubSeq(s, n + 1, Len(s))) = Len(s) - n
  BY <1>1, SubSeqProperties
<1>4. SubSeq(s, 1, n) \o SubSeq(s, n + 1, Len(s)) = SubSeq(s, 1, Len(s))
  <2>1. 1 \in 1..Len(s) + 1 /\ n \in 1 - 1..Len(s) /\ Len(s) \in n..Len(s)
    OBVIOUS
  <2> QED  BY <2>1, ConcatAdjacentSubSeq, Zenon
<1>5. SubSeq(s, 1, Len(s)) = s
  BY SubSeqFull
<1> QED  BY <1>2, <1>3, <1>4, <1>5

LEMMA Regroup ==
    ASSUME NEW S
    PROVE  \A u, v, w \in Seq(S) : (u \o v) \o w = u \o (v \o w)
BY ConcatAssociative

LEMMA FrontOfConcat ==
    ASSUME NEW S, NEW s \in Seq(S), NEW t \in Seq(S), NEW n \in 0..Len(s)
    PROVE  SubSeq(s \o t, 1, n) = SubSeq(s, 1, n)
<1>1. CASE n = 0
  BY <1>1, SubSeqEmpty
<1>2. CASE n > 0
  BY <1>2, SubSeqOfConcat1
<1> QED  BY <1>1, <1>2

\* Taking n elements off two queues, the first one first.
LEMMA SplitFirst ==
    ASSUME NEW S, NEW s \in Seq(S), NEW t \in Seq(S), NEW n \in 0..Len(s)
    PROVE  /\ SubSeq(s, n + 1, Len(s)) \in Seq(S)
           /\ SubSeq(s \o t, 1, n) \o (SubSeq(s, n + 1, Len(s)) \o t) = s \o t
<1>1. SubSeq(s \o t, 1, n) = SubSeq(s, 1, n)
  BY FrontOfConcat
<1>2. /\ SubSeq(s, 1, n) \in Seq(S) /\ SubSeq(s, n + 1, Len(s)) \in Seq(S)
      /\ SubSeq(s, 1, n) \o SubSeq(s, n + 1, Len(s)) = s
  <2>1. SubSeq(s, 1, n) \in Seq(S)  BY SplitProperties
  <2>2. SubSeq(s, n + 1, Len(s)) \in Seq(S)  BY SplitProperties
  <2>3. SubSeq(s, 1, n) \o SubSeq(s, n + 1, Len(s)) = s  BY SplitProperties
  <2> QED  BY <2>1, <2>2, <2>3
<1>3. (SubSeq(s, 1, n) \o SubSeq(s, n + 1, Len(s))) \o t
        = SubSeq(s, 1, n) \o (SubSeq(s, n + 1, Len(s)) \o t)
  <2> DEFINE u == SubSeq(s, 1, n)
             v == SubSeq(s, n + 1, Len(s))
  <2>1. u \in Seq(S) /\ v \in Seq(S)  BY <1>2
  <2> HIDE DEF u, v
  <2>2. (u \o v) \o t = u \o (v \o t)  BY <2>1, ConcatAssociative
  <2> QED  BY <2>2 DEF u, v
<1> QED  BY <1>1, <1>2, <1>3, Zenon

LEMMA SplitBoth ==
    ASSUME NEW S, NEW s \in Seq(S), NEW t \in Seq(S), NEW n \in 1..Len(s) + Len(t),
           n > Len(s)
    PROVE  /\ SubSeq(t, n - Len(s) + 1, Len(t)) \in Seq(S)
           /\ SubSeq(s \o t, 1, n) \o SubSeq(t, n - Len(s) + 1, Len(t)) = s \o t
<1>1. s \o t \in Seq(S) /\ Len(s \o t) = Len(s) + Len(t)
  BY ConcatProperties
<1>2. SubSeq(s \o t, n + 1, Len(s \o t)) = SubSeq(t, n - Len(s) + 1, Len(t))
  <2>1. CASE n = Len(s) + Len(t)
    BY <1>1, <2>1, SubSeqEmpty
  <2>2. CASE n < Len(s) + Len(t)
    <3>1. /\ n + 1 \in Len(s) + 1..Len(s) + Len(t)
          /\ Len(s) + Len(t) \in Len(s) + 1..Len(s) + Len(t)
      BY <2>2
    <3>2. SubSeq(s \o t, n + 1, Len(s) + Len(t))
            = SubSeq(t, n + 1 - Len(s), Len(s) + Len(t) - Len(s))
      BY <3>1, SubSeqOfConcat2
    <3>3. n + 1 - Len(s) = n - Len(s) + 1 /\ Len(s) + Len(t) - Len(s) = Len(t)
      OBVIOUS
    <3> QED  BY <1>1, <3>2, <3>3
  <2> QED  BY <2>1, <2>2
<1>3. n \in 0..Len(s \o t)
  BY <1>1
<1>4. /\ SubSeq(s \o t, 1, n) \o SubSeq(s \o t, n + 1, Len(s \o t)) = s \o t
      /\ SubSeq(s \o t, n + 1, Len(s \o t)) \in Seq(S)
  BY <1>1, <1>3, SplitProperties
<1> QED  BY <1>2, <1>4, Zenon

LEMMA PrefixOfConcat ==
    ASSUME NEW S, NEW s \in Seq(S), NEW t \in Seq(S)
    PROVE  IsPrefix(s, s \o t)
<1>1. Len(s \o t) = Len(s) + Len(t)
  BY ConcatProperties
<1>2. SubSeq(s \o t, 1, Len(s)) = SubSeq(s, 1, Len(s))
  BY FrontOfConcat
<1> QED  BY <1>1, <1>2 DEF IsPrefix

LEMMA PrefixGrows ==
    ASSUME NEW S, NEW s \in Seq(S), NEW t \in Seq(S), NEW u \in Seq(S), IsPrefix(s, t)
    PROVE  IsPrefix(s, t \o u)
<1>1. Len(t \o u) = Len(t) + Len(u)
  BY ConcatProperties
<1>2. SubSeq(t \o u, 1, Len(s)) = SubSeq(t, 1, Len(s))
  BY FrontOfConcat DEF IsPrefix
<1> QED  BY <1>1, <1>2 DEF IsPrefix

----------------------------------------------------------------------------
(* The stream of the writes                                                *)

Sendable == (Writes \cup Replies) \X (1..MsgLen)

OutTypes ==
    /\ outbound \in Seq(Sendable) /\ accepted \in Seq(Sendable) /\ sent \in Seq(Sendable)
    /\ room \in 0..Room /\ enableFailed \in BOOLEAN

OutInv == OutTypes /\ OutboundStream /\ InterestMatchesOutbound

LEMMA BytesProperties ==
    ASSUME NEW m \in Writes \cup Replies
    PROVE  Bytes(m) \in Seq(Sendable) /\ Len(Bytes(m)) = MsgLen /\ Bytes(m) # <<>>
<1>1. MsgLen \in Nat /\ MsgLen > 0
  BY SizeAssumption
<1>2. \A i \in 1..MsgLen : <<m, i>> \in Sendable
  BY DEF Sendable
<1>3. Bytes(m) \in Seq(Sendable)
  BY <1>1, <1>2, IsASeq DEF Bytes
<1>4. Len(Bytes(m)) = MsgLen
  BY <1>1, <1>3 DEF Bytes
<1> QED  BY <1>1, <1>3, <1>4, EmptySeq

LEMMA TransmitProperties ==
    ASSUME OutTypes, NEW s \in Seq(Sendable), Transmit(s, Fitting(s))
    PROVE  /\ outbound' \in Seq(Sendable) /\ sent' \in Seq(Sendable)
           /\ sent' \o outbound' = sent \o s
           /\ room' \in 0..Room
<1> DEFINE n == Fitting(s)
<1>1. n \in 0..Len(s) /\ n <= room /\ Room \in Nat /\ room \in 0..Room
  BY SizeAssumption, LenProperties DEF Fitting, OutTypes
<1>2. /\ sent' = sent \o SubSeq(s, 1, n)
      /\ room' = room - n
      /\ outbound' = SubSeq(s, n + 1, Len(s))
  BY DEF Transmit
<1> HIDE DEF n
<1>3. /\ SubSeq(s, 1, n) \in Seq(Sendable) /\ SubSeq(s, n + 1, Len(s)) \in Seq(Sendable)
      /\ SubSeq(s, 1, n) \o SubSeq(s, n + 1, Len(s)) = s
  BY <1>1, SplitProperties
<1>4. sent \in Seq(Sendable) /\ sent' \in Seq(Sendable)
  BY <1>2, <1>3, ConcatProperties DEF OutTypes
<1>5. sent' \o outbound' = sent \o s
  <2>1. \A u, v, w \in Seq(Sendable) : (u \o v) \o w = u \o (v \o w)
    BY Regroup
  <2>2. (sent \o SubSeq(s, 1, n)) \o SubSeq(s, n + 1, Len(s))
          = sent \o (SubSeq(s, 1, n) \o SubSeq(s, n + 1, Len(s)))
    BY <1>3, <1>4, <2>1, Zenon
  <2> QED  BY <1>2, <1>3, <2>2, Zenon
<1>6. room' \in 0..Room
  BY <1>1, <1>2
<1> QED  BY <1>2, <1>3, <1>4, <1>5, <1>6

\* A step that takes or sends nothing.
LEMMA OutKept ==
    ASSUME OutInv, UNCHANGED <<accepted, sent, enableFailed>>,
           outbound' \in Seq(Sendable), room' \in 0..Room,
           \/ connected' = FALSE
           \/ UNCHANGED <<connected, interest, outbound>>
    PROVE  OutInv'
<1>1. OutTypes'
  BY DEF OutInv, OutTypes
<1>2. IsPrefix(sent', accepted')
  BY DEF OutInv, OutboundStream
<1>3. CASE connected' = FALSE
  BY <1>1, <1>2, <1>3 DEF OutInv, OutboundStream, InterestMatchesOutbound
<1>4. CASE UNCHANGED <<connected, interest, outbound>>
  <2>1. OutboundStream'  BY <1>2, <1>4 DEF OutInv, OutboundStream
  <2>2. InterestMatchesOutbound'  BY <1>4 DEF OutInv, InterestMatchesOutbound
  <2> QED  BY <1>1, <2>1, <2>2 DEF OutInv
<1> QED  BY <1>3, <1>4

LEMMA WriteKeepsOut ==
    ASSUME OutInv, ControlTypes, NEW m \in Writes \cup Replies, NEW returnTo,
           WriteOut(Bytes(m), returnTo)
    PROVE  OutInv'
<1> DEFINE b == Bytes(m)
<1>1. b \in Seq(Sendable) /\ b # <<>>
  BY BytesProperties
<1> HIDE DEF b
<1>2. CASE NoWrite /\ (connected' = FALSE \/ UNCHANGED <<connected, interest>>)
  BY <1>2, OutKept DEF NoWrite, OutInv, OutTypes
<1>3. CASE /\ connected /\ outbound # <<>>
           /\ outbound' = outbound \o b /\ accepted' = accepted \o b
           /\ UNCHANGED <<sent, room, enableFailed, connected, interest>>
  <2>1. /\ outbound' \in Seq(Sendable) /\ accepted' \in Seq(Sendable)
        /\ outbound' # <<>>
    BY <1>1, <1>3, ConcatProperties, ConcatEqualIffEmpty DEF OutInv, OutTypes
  <2>2. sent \o (outbound \o b) = accepted \o b
    <3>1. sent \o outbound = accepted /\ sent \in Seq(Sendable) /\ outbound \in Seq(Sendable)
      BY <1>3 DEF OutInv, OutTypes, OutboundStream
    <3>2. \A u, v, w \in Seq(Sendable) : (u \o v) \o w = u \o (v \o w)
      BY Regroup
    <3>3. (sent \o outbound) \o b = sent \o (outbound \o b)
      BY <1>1, <3>1, <3>2, Zenon
    <3> QED  BY <3>1, <3>3, Zenon
  <2>3. OutTypes'  BY <1>3, <2>1 DEF OutInv, OutTypes
  <2>4. IsPrefix(sent', accepted')
    BY <1>3, <2>1, <2>2, PrefixOfConcat DEF OutInv, OutTypes
  <2> QED
    BY <1>3, <2>1, <2>2, <2>3, <2>4
    DEF OutInv, OutTypes, OutboundStream, InterestMatchesOutbound
<1>4. CASE /\ connected /\ outbound = <<>>
           /\ accepted' = accepted \o b
           /\ Transmit(b, Fitting(b))
           /\ IF outbound' # <<>> THEN EnableReadWrite ELSE UNCHANGED <<interest, enableFailed>>
           /\ UNCHANGED connected
  <2>1. /\ outbound' \in Seq(Sendable) /\ sent' \in Seq(Sendable)
        /\ sent' \o outbound' = sent \o b /\ room' \in 0..Room
    BY <1>1, <1>4, TransmitProperties DEF OutInv
  <2>2. sent = accepted
    BY <1>4, ConcatEmptySeq DEF OutInv, OutTypes, OutboundStream
  <2>3. accepted' \in Seq(Sendable)
    BY <1>1, <1>4, ConcatProperties DEF OutInv, OutTypes
  <2>4. OutTypes'
    BY <1>4, <2>1, <2>3 DEF OutInv, OutTypes, EnableReadWrite
  <2>5. OutboundStream'
    BY <1>4, <2>1, <2>2, PrefixOfConcat DEF OutboundStream
  <2>6. InterestMatchesOutbound'
    BY <1>4 DEF OutInv, InterestMatchesOutbound, EnableReadWrite, ControlTypes
  <2> QED  BY <2>4, <2>5, <2>6 DEF OutInv
<1> QED  BY <1>2, <1>3, <1>4 DEF WriteOut, HandleClose, b

LEMMA InitOut == Init => OutInv
<1>1. <<>> \in Seq(Sendable) /\ Room \in 0..Room
  BY SizeAssumption, EmptySeq
<1>2. <<>> \o <<>> = <<>> /\ IsPrefix(<<>>, <<>>)
  <2>1. <<>> \o <<>> = <<>>  BY <1>1, ConcatEmptySeq
  <2>2. IsPrefix(<<>>, <<>> \o <<>>)  BY <1>1, PrefixOfConcat
  <2> QED  BY <2>1, <2>2
<1> QED
  BY <1>1, <1>2 DEF Init, OutInv, OutTypes, OutboundStream, InterestMatchesOutbound

LEMMA NextOut ==
    ASSUME ControlInv, OutInv, [Next]_vars
    PROVE  OutInv'
<1> USE DEF connVars, bindVars, userVars, loopVars, socketVars, history
<1>0. outbound \in Seq(Sendable) /\ room \in 0..Room /\ ControlTypes
  BY DEF OutInv, OutTypes, ControlInv
<1>1. CASE UNCHANGED <<connected, interest, outbound, accepted, sent, room, enableFailed>>
  BY <1>0, <1>1, OutKept
<1>2. CASE AddRead
  <2>1. CASE UNCHANGED interest
    BY <1>0, <1>2, <2>1, OutKept DEF AddRead
  <2>2. CASE listener = "add" /\ interest' = "read"
    <3>1. interest = "none"
      BY <2>2 DEF ControlInv, EventInv
    <3>2. OutTypes' /\ OutboundStream'
      BY <1>2 DEF AddRead, OutInv, OutTypes, OutboundStream
    <3>3. InterestMatchesOutbound'
      BY <1>2, <2>2, <3>1 DEF AddRead, OutInv, InterestMatchesOutbound
    <3> QED  BY <3>2, <3>3 DEF OutInv
  <2> QED  BY <1>2, <2>1, <2>2 DEF AddRead
<1>3. CASE CloseFd
  <2>1. connected' = FALSE /\ outbound' = <<>>
    BY <1>3 DEF CloseFd, Release, ControlInv, ControlTypes, CloseInv, Closing
  <2> QED  BY <1>0, <1>3, <2>1, EmptySeq, OutKept DEF CloseFd, Release
<1>4. CASE HandleErr
  BY <1>0, <1>4, CloseCases, OutKept DEF HandleErr, StartsClosing, GoesOn, ControlTypes
<1>5. CASE HandleWrite
  <2>1. CASE reset
    BY <1>0, <1>5, <2>1, CloseCases, OutKept
    DEF HandleWrite, NoWrite, StartsClosing, GoesOn, ControlTypes
  <2>2. CASE ~reset
    <3>1. /\ Transmit(outbound, Fitting(outbound))
          /\ interest' = IF outbound' = <<>> THEN "read" ELSE interest
          /\ UNCHANGED <<connected, accepted, enableFailed>>
          /\ outbound # <<>> /\ connected
      BY <1>5, <2>2
      DEF HandleWrite, Dispatch, ControlInv, ControlTypes, CloseInv, EventInv, Closing
    <3>2. /\ outbound' \in Seq(Sendable) /\ sent' \in Seq(Sendable) /\ room' \in 0..Room
          /\ sent' \o outbound' = sent \o outbound
      BY <1>0, <3>1, TransmitProperties DEF OutInv
    <3>3. OutTypes'  BY <3>1, <3>2 DEF OutInv, OutTypes
    <3>4. sent' \o outbound' = accepted'
      BY <3>1, <3>2 DEF OutInv, OutboundStream
    <3>5. OutboundStream'
      BY <3>2, <3>4, PrefixOfConcat DEF OutboundStream
    <3>6. InterestMatchesOutbound'
      BY <3>1 DEF OutInv, InterestMatchesOutbound
    <3> QED  BY <3>3, <3>5, <3>6 DEF OutInv
  <2> QED  BY <2>1, <2>2
<1>6. CASE HandleRead
  BY <1>0, <1>6, CloseCases, OutKept DEF HandleRead, StartsClosing, GoesOn, ControlTypes
<1>7. ASSUME NEW n \in 1..Len(inbound) + Len(buffer), Packet(n)
      PROVE  OutInv'
  <2>1. CASE \E m \in Replies : WriteOut(Bytes(m), "unpack")
    BY <1>0, <2>1, WriteKeepsOut
  <2>2. CASE NoWrite /\ UNCHANGED <<connected, interest>>
    BY <1>0, <2>2, OutKept DEF NoWrite
  <2> QED  BY <1>7, <2>1, <2>2 DEF Packet
<1>8. CASE RunJob
  <2>1. CASE Head(pending) \in Writes /\ WriteOut(Bytes(Head(pending)), "idle")
    BY <1>0, <2>1, WriteKeepsOut
  <2>2. CASE HandleClose("idle") /\ NoWrite
    BY <1>0, <2>2, CloseCases, OutKept DEF NoWrite, StartsClosing, GoesOn, ControlTypes
  <2> QED  BY <1>8, <2>1, <2>2 DEF RunJob
<1>9. CASE PeerReads
  <2>1. Room \in 0..Room  BY SizeAssumption
  <2> QED  BY <1>0, <1>9, <2>1, OutKept DEF PeerReads
<1>10. CASE Store \/ DeleteHandler
  BY <1>1, <1>10 DEF Store, DeleteHandler
<1>11. CASE EpollWait \/ NoHandler \/ HandleNothing \/ NoPacket \/ Unbind \/ OnClose
  BY <1>1, <1>11 DEF EpollWait, NoHandler, HandleNothing, NoPacket, Unbind, OnClose
<1>12. CASE PeerSend \/ PeerShutdown \/ PeerReset
  BY <1>1, <1>12 DEF PeerSend, PeerShutdown, PeerReset
<1>13. ASSUME NEW j \in Calls, Check(j) \/ Trigger(j)
       PROVE  OutInv'
  BY <1>1, <1>13 DEF Check, Trigger
<1>14. CASE UNCHANGED vars
  BY <1>1, <1>14 DEF vars
<1> QED
  BY <1>2, <1>3, <1>4, <1>5, <1>6, <1>7, <1>8, <1>9, <1>10, <1>11, <1>12, <1>13, <1>14
  DEF Next, ListenerNext, LoopNext, PeerNext

LEMMA AlwaysOut == Spec => []OutInv
BY InitOut, NextOut, AlwaysControl, PTL DEF Spec

\* The kernel gets the bytes of Write calls and replies in the order write took
\* them, for any message length and any room in the send buffer; a closed
\* connection has sent a prefix (conn.go, write and handleWrite).
THEOREM OutputInOrder == Spec => []OutboundStream
<1>1. OutInv => OutboundStream  BY DEF OutInv
<1> QED  BY <1>1, AlwaysOut, PTL

\* The connection waits for EventWrite exactly while it keeps bytes, in every
\* order of BindHandler, writes and events, unless EnableReadWrite failed.
THEOREM InterestFollowsOutput == Spec => []InterestMatchesOutbound
<1>1. OutInv => InterestMatchesOutbound  BY DEF OutInv
<1> QED  BY <1>1, AlwaysOut, PTL

----------------------------------------------------------------------------
(* The stream of the peer                                                  *)

InTypes ==
    /\ buffer \in Seq(1..MaxIn) /\ inbound \in Seq(1..MaxIn) /\ rcv \in Seq(1..MaxIn)
    /\ delivered \in Seq(1..MaxIn)
    /\ peerSent \in 0..MaxIn /\ eof \in BOOLEAN /\ reset \in BOOLEAN

Stream(n) == [i \in 1..n |-> i]

InInv == InTypes /\ InboundStream

LEMMA StreamProperties ==
    ASSUME NEW n \in 0..MaxIn
    PROVE  /\ Stream(n) \in Seq(1..MaxIn)
           /\ n < MaxIn => Stream(n + 1) = Append(Stream(n), n + 1)
<1>1. MaxIn \in Nat /\ n \in Nat
  BY SizeAssumption
<1>2. \A k \in 0..MaxIn : Stream(k) \in Seq(1..MaxIn) /\ Len(Stream(k)) = k
  <2> SUFFICES ASSUME NEW k \in 0..MaxIn
               PROVE  Stream(k) \in Seq(1..MaxIn) /\ Len(Stream(k)) = k
    OBVIOUS
  <2>1. Stream(k) \in Seq(1..MaxIn)
    BY <1>1, IsASeq DEF Stream
  <2> QED  BY <1>1, <2>1 DEF Stream
<1>3. ASSUME n < MaxIn
      PROVE  Stream(n + 1) = Append(Stream(n), n + 1)
  <2>1. /\ Stream(n) \in Seq(1..MaxIn) /\ Len(Stream(n)) = n
        /\ Stream(n + 1) \in Seq(1..MaxIn) /\ Len(Stream(n + 1)) = n + 1
        /\ n + 1 \in 1..MaxIn
    BY <1>1, <1>2, <1>3
  <2>2. Len(Append(Stream(n), n + 1)) = n + 1
    BY <2>1
  <2>3. \A i \in 1..n + 1 : Stream(n + 1)[i] = Append(Stream(n), n + 1)[i]
    BY <2>1 DEF Stream
  <2> QED  BY <2>1, <2>2, <2>3, SeqEqual
<1> QED  BY <1>2, <1>3

LEMMA UnpackedType == InTypes => Unpacked \in Seq(1..MaxIn)
BY ConcatProperties DEF InTypes, Unpacked

\* A step that reads and delivers nothing.
LEMMA InKept ==
    ASSUME InInv, InTypes', UNCHANGED <<delivered, peerSent>>,
           \/ connected' = FALSE
           \/ UNCHANGED <<connected, rcv>> /\ (connected => Unpacked' = Unpacked)
    PROVE  InInv'
<1>1. CASE connected' = FALSE
  BY <1>1 DEF InInv, InboundStream
<1>2. CASE UNCHANGED <<connected, rcv>> /\ (connected => Unpacked' = Unpacked)
  BY <1>2 DEF InInv, InboundStream
<1> QED  BY <1>1, <1>2

LEMMA InitIn == Init => InInv
<1> SUFFICES ASSUME Init PROVE InInv
  OBVIOUS
<1>1. <<>> \in Seq(1..MaxIn) /\ MaxIn \in Nat /\ 0 \in 0..MaxIn
  BY SizeAssumption, EmptySeq
<1>2. InTypes
  BY <1>1 DEF Init, InTypes
<1>3. (<<>> \o <<>>) \o <<>> = <<>>
  BY <1>1, ConcatEmptySeq
<1>4. [i \in 1..peerSent |-> i] = <<>>
  BY DEF Init
<1>5. IsPrefix(<<>>, <<>>)
  <2>1. IsPrefix(<<>>, <<>> \o <<>>)  BY <1>1, PrefixOfConcat
  <2>2. <<>> \o <<>> = <<>>  BY <1>1, ConcatEmptySeq
  <2> QED  BY <2>1, <2>2
<1> QED  BY <1>2, <1>3, <1>4, <1>5 DEF Init, InInv, InboundStream, Unpacked

LEMMA ReadKeepsIn ==
    ASSUME ControlInv, InInv, HandleRead
    PROVE  InInv'
<1> DEFINE n == IF Len(rcv) < PacketSize THEN Len(rcv) ELSE PacketSize
           A == SubSeq(rcv, 1, n)
           B == SubSeq(rcv, n + 1, Len(rcv))
<1>0. InTypes /\ ControlTypes /\ Len(rcv) \in Nat /\ PacketSize \in Nat
  BY SizeAssumption, LenProperties DEF InInv, InTypes, ControlInv
<1>1. UNCHANGED <<inbound, peerSent, eof, reset, delivered>>
  BY DEF HandleRead, history
<1>2. CASE n > 0
  <2>1. /\ buffer' = A /\ rcv' = B /\ connected' = connected
        /\ loopPc = "idle" /\ loopPc' = "unpack" /\ connected
    BY <1>2 DEF HandleRead, Dispatch, ControlInv, ControlTypes, CloseInv, EventInv, Closing
  <2>2. n \in 0..Len(rcv)
    BY <1>0
  <2> HIDE DEF n
  <2>3. A \in Seq(1..MaxIn) /\ B \in Seq(1..MaxIn) /\ A \o B = rcv
    BY <1>0, <2>2, SplitProperties DEF InTypes
  <2> HIDE DEF A, B
  <2>4. InTypes'
    BY <1>0, <1>1, <2>1, <2>3 DEF InTypes
  <2>5. /\ Unpacked = inbound /\ Unpacked' = inbound \o A
        /\ inbound \in Seq(1..MaxIn) /\ delivered \in Seq(1..MaxIn)
        /\ (delivered \o inbound) \o rcv = [i \in 1..peerSent |-> i]
        /\ IsPrefix(delivered, [i \in 1..peerSent |-> i])
    BY <1>0, <1>1, <2>1 DEF Unpacked, InTypes, InInv, InboundStream
  <2>6. (delivered \o (inbound \o A)) \o B = (delivered \o inbound) \o (A \o B)
    <3>1. \A u, v, w \in Seq(1..MaxIn) : (u \o v) \o w = u \o (v \o w)
      BY Regroup
    <3>2. delivered \o inbound \in Seq(1..MaxIn)
      BY <2>5, ConcatProperties
    <3>3. delivered \o (inbound \o A) = (delivered \o inbound) \o A
      BY <2>3, <2>5, <3>1, Zenon
    <3>4. ((delivered \o inbound) \o A) \o B = (delivered \o inbound) \o (A \o B)
      BY <2>3, <3>1, <3>2, Zenon
    <3> QED  BY <3>3, <3>4, Zenon
  <2> QED
    BY <1>1, <2>1, <2>3, <2>4, <2>5, <2>6 DEF InInv, InboundStream
<1>3. CASE ~(n > 0)
  <2>1. /\ UNCHANGED <<buffer, rcv>> /\ loopPc = "idle"
        /\ \/ UNCHANGED <<connected, loopPc>>
           \/ HandleClose("idle")
    BY <1>3 DEF HandleRead, Dispatch
  <2>2. \/ connected' = FALSE
        \/ UNCHANGED <<connected, loopPc>>
    BY <1>0, <2>1, CloseCases DEF StartsClosing, GoesOn, ControlTypes
  <2>3. InTypes'
    BY <1>0, <1>1, <2>1 DEF InTypes
  <2>4. UNCHANGED loopPc => Unpacked' = Unpacked
    BY <1>1, <2>1 DEF Unpacked
  <2> QED  BY <1>1, <2>1, <2>2, <2>3, <2>4, InKept
<1> QED  BY <1>2, <1>3

LEMMA PacketKeepsIn ==
    ASSUME ControlInv, InInv, NEW n \in 1..Len(inbound) + Len(buffer), Packet(n)
    PROVE  InInv'
<1> DEFINE P == SubSeq(inbound \o buffer, 1, n)
<1>0. /\ InTypes /\ ControlTypes /\ loopPc = "unpack" /\ connected
      /\ UNCHANGED <<rcv, peerSent, eof, reset>>
      /\ delivered' = delivered \o P
  BY DEF InInv, ControlInv, Packet
<1> HIDE DEF P
<1>1. \/ connected' = FALSE
      \/ UNCHANGED <<connected, loopPc>>
  BY <1>0, WriteCases DEF Packet, StartsClosing, GoesOn
<1>2. /\ inbound' \in Seq(1..MaxIn) /\ buffer' \in Seq(1..MaxIn)
      /\ P \in Seq(1..MaxIn)
      /\ P \o (inbound' \o buffer') = inbound \o buffer
  <2>1. inbound \in Seq(1..MaxIn) /\ buffer \in Seq(1..MaxIn)
    BY <1>0 DEF InTypes
  <2>2. n \in 0..Len(inbound \o buffer) /\ inbound \o buffer \in Seq(1..MaxIn)
    BY <2>1, ConcatProperties
  <2>3. P \in Seq(1..MaxIn)
    BY <2>2, SplitProperties DEF P
  <2>4. Len(inbound) \in Nat /\ n \in Nat
    BY <2>1, LenProperties
  <2>5. CASE n <= Len(inbound)
    <3>1. inbound' = SubSeq(inbound, n + 1, Len(inbound)) /\ buffer' = buffer
      BY <2>5 DEF Packet, ShiftN
    <3>2. n \in 0..Len(inbound)
      BY <2>4, <2>5
    <3>3. /\ SubSeq(inbound, n + 1, Len(inbound)) \in Seq(1..MaxIn)
          /\ P \o (SubSeq(inbound, n + 1, Len(inbound)) \o buffer) = inbound \o buffer
      BY <2>1, <3>2, SplitFirst DEF P
    <3> QED  BY <2>1, <2>3, <3>1, <3>3, Zenon
  <2>6. CASE n > Len(inbound)
    <3>1. /\ inbound' = <<>>
          /\ buffer' = SubSeq(buffer, n - Len(inbound) + 1, Len(buffer))
      BY <2>4, <2>6 DEF Packet, ShiftN
    <3>2. /\ SubSeq(buffer, n - Len(inbound) + 1, Len(buffer)) \in Seq(1..MaxIn)
          /\ P \o SubSeq(buffer, n - Len(inbound) + 1, Len(buffer)) = inbound \o buffer
      BY <2>1, <2>6, SplitBoth DEF P
    <3>3. inbound' \in Seq(1..MaxIn)  BY <3>1, EmptySeq
    <3>4. buffer' \in Seq(1..MaxIn) /\ P \o buffer' = inbound \o buffer
      BY <3>1, <3>2, Zenon
    <3>5. inbound' \o buffer' = buffer'
      BY <3>1, <3>3, <3>4, ConcatEqualIffEmpty
    <3> QED  BY <2>3, <3>3, <3>4, <3>5, Zenon
  <2>7. n <= Len(inbound) \/ n > Len(inbound)
    BY <2>4
  <2> QED  BY <2>5, <2>6, <2>7, Zenon
<1>3. delivered \in Seq(1..MaxIn) /\ rcv \in Seq(1..MaxIn) /\ delivered' \in Seq(1..MaxIn)
  BY <1>0, <1>2, ConcatProperties DEF InTypes
<1>4. InTypes'
  BY <1>0, <1>2, <1>3 DEF InTypes
<1> DEFINE rest == inbound' \o buffer'
<1>5. rest \in Seq(1..MaxIn) /\ P \o rest = inbound \o buffer
  BY <1>2, ConcatProperties
<1> HIDE DEF rest
<1>6. (delivered' \o rest) \o rcv = [i \in 1..peerSent |-> i]
  <2>1. \A u, v, w \in Seq(1..MaxIn) : (u \o v) \o w = u \o (v \o w)
    BY Regroup
  <2>2. (delivered \o P) \o rest = delivered \o (P \o rest)
    <3>1. delivered \in Seq(1..MaxIn) /\ P \in Seq(1..MaxIn) /\ rest \in Seq(1..MaxIn)
      BY <1>2, <1>3, <1>5
    <3> QED  BY <2>1, <3>1, Zenon
  <2>3. (delivered \o (inbound \o buffer)) \o rcv = [i \in 1..peerSent |-> i]
    BY <1>0 DEF InInv, InboundStream, Unpacked
  <2> QED  BY <1>0, <1>5, <2>2, <2>3, Zenon
<1>7. IsPrefix(delivered', [i \in 1..peerSent |-> i])
  <2>1. \A u, v, w \in Seq(1..MaxIn) : (u \o v) \o w = u \o (v \o w)
    BY Regroup
  <2>2. (delivered' \o rest) \o rcv = delivered' \o (rest \o rcv)
    BY <1>3, <1>5, <2>1, Zenon
  <2>3. IsPrefix(delivered', delivered' \o (rest \o rcv))
    BY <1>3, <1>5, ConcatProperties, PrefixOfConcat
  <2> QED  BY <1>6, <2>2, <2>3
<1>8. connected' => Unpacked' = rest
  BY <1>0, <1>1 DEF Unpacked, rest
<1> QED  BY <1>0, <1>4, <1>6, <1>7, <1>8 DEF InInv, InboundStream

LEMMA NextIn ==
    ASSUME ControlInv, InInv, [Next]_vars
    PROVE  InInv'
<1> USE DEF connVars, bindVars, userVars, loopVars, socketVars, history
<1>0. InTypes /\ ControlTypes
  BY DEF InInv, ControlInv
<1>1. CASE /\ UNCHANGED <<buffer, inbound, rcv, delivered, peerSent, eof>>
           /\ reset' \in BOOLEAN
           /\ connected' = FALSE \/ UNCHANGED <<connected, loopPc>>
  <2>1. InTypes'  BY <1>0, <1>1 DEF InTypes
  <2>2. UNCHANGED loopPc => Unpacked' = Unpacked  BY <1>1 DEF Unpacked
  <2> QED  BY <1>1, <2>1, <2>2, InKept
<1>2. CASE ListenerNext \/ EpollWait \/ NoHandler \/ HandleNothing
  BY <1>0, <1>1, <1>2 DEF ListenerNext, Store, AddRead, DeleteHandler,
     EpollWait, NoHandler, HandleNothing, InTypes
<1>3. CASE HandleErr
  BY <1>0, <1>1, <1>3, CloseCases
  DEF HandleErr, Dispatch, StartsClosing, GoesOn, ControlTypes, InTypes
<1>4. CASE HandleWrite
  BY <1>0, <1>1, <1>4, CloseCases
  DEF HandleWrite, Dispatch, StartsClosing, GoesOn, ControlTypes, InTypes
<1>5. CASE HandleRead
  BY <1>5, ReadKeepsIn
<1>6. ASSUME NEW n \in 1..Len(inbound) + Len(buffer), Packet(n)
      PROVE  InInv'
  BY <1>6, PacketKeepsIn
<1>7. CASE NoPacket
  <2>1. inbound \o buffer \in Seq(1..MaxIn)
    BY <1>0, ConcatProperties DEF InTypes
  <2>2. InTypes'  BY <1>0, <1>7, <2>1 DEF NoPacket, InTypes
  <2>3. connected => Unpacked' = Unpacked
    BY <1>7 DEF NoPacket, Unpacked
  <2> QED  BY <1>7, <2>2, <2>3, InKept DEF NoPacket
<1>8. CASE Unbind \/ OnClose
  <2>1. connected' = FALSE
    BY <1>8 DEF Unbind, OnClose, ControlInv, ControlTypes, CloseInv, Closing
  <2> QED  BY <1>0, <1>1, <1>8, <2>1 DEF Unbind, OnClose, InTypes
<1>9. CASE CloseFd
  <2>1. connected' = FALSE
    BY <1>9 DEF CloseFd, ControlInv, ControlTypes, CloseInv, Closing
  <2>2. InTypes'  BY <1>0, <1>9, EmptySeq DEF CloseFd, Release, InTypes
  <2> QED  BY <1>9, <2>1, <2>2, InKept DEF CloseFd, Release
<1>10. CASE RunJob
  <2>1. connected' = FALSE \/ UNCHANGED <<connected, loopPc>>
    BY <1>0, <1>10, WriteCases, CloseCases DEF RunJob, StartsClosing, GoesOn, ControlTypes
  <2> QED  BY <1>0, <1>1, <1>10, <2>1 DEF RunJob, InTypes
<1>11. ASSUME NEW j \in Calls, Check(j) \/ Trigger(j)
       PROVE  InInv'
  BY <1>0, <1>1, <1>11 DEF Check, Trigger, InTypes
<1>12. CASE PeerShutdown
  <2>1. InTypes'  BY <1>0, <1>12 DEF PeerShutdown, InTypes
  <2>2. Unpacked' = Unpacked  BY <1>12 DEF PeerShutdown, Unpacked
  <2> QED  BY <1>12, <2>1, <2>2, InKept DEF PeerShutdown
<1>13. CASE PeerReset \/ PeerReads
  BY <1>0, <1>1, <1>13 DEF PeerReset, PeerReads, InTypes
<1>14. CASE PeerSend
  <2>1. /\ peerSent \in 0..MaxIn /\ peerSent < MaxIn /\ MaxIn \in Nat
        /\ peerSent' = peerSent + 1 /\ peerSent + 1 \in 1..MaxIn
        /\ rcv' = Append(rcv, peerSent + 1)
        /\ rcv \in Seq(1..MaxIn) /\ delivered \in Seq(1..MaxIn)
    BY <1>0, <1>14, SizeAssumption DEF PeerSend, InTypes
  <2>2. /\ Stream(peerSent) \in Seq(1..MaxIn)
        /\ Stream(peerSent') = Append(Stream(peerSent), peerSent + 1)
    BY <2>1, StreamProperties
  <2>3. InTypes'
    <3>1. rcv' \in Seq(1..MaxIn)  BY <2>1, AppendProperties
    <3> QED  BY <1>0, <1>14, <2>1, <3>1 DEF PeerSend, InTypes
  <2>4. Unpacked' = Unpacked /\ Unpacked \in Seq(1..MaxIn) /\ UNCHANGED <<connected, delivered>>
    BY <1>0, <1>14, UnpackedType DEF PeerSend, Unpacked
  <2> DEFINE done == delivered \o Unpacked
             one == <<peerSent + 1>>
  <2>5. done \in Seq(1..MaxIn) /\ one \in Seq(1..MaxIn)
    BY <2>1, <2>4, ConcatProperties
  <2>6. rcv' = rcv \o one /\ Stream(peerSent') = Stream(peerSent) \o one
    BY <2>1, <2>2, AppendIsConcat
  <2>7. connected' => (delivered' \o Unpacked') \o rcv' = Stream(peerSent')
    <3>1. \A u, v, w \in Seq(1..MaxIn) : (u \o v) \o w = u \o (v \o w)
      BY Regroup
    <3> HIDE DEF done, one
    <3>2. (done \o rcv) \o one = done \o (rcv \o one)
      BY <2>1, <2>5, <3>1, Zenon
    <3>3. connected => done \o rcv = Stream(peerSent)
      BY DEF InInv, InboundStream, Stream, done
    <3>4. delivered' \o Unpacked' = done
      BY <2>4 DEF done
    <3>5. connected => (delivered' \o Unpacked') \o rcv' = Stream(peerSent')
      BY <2>6, <3>2, <3>3, <3>4, Zenon
    <3> QED  BY <2>4, <3>5
  <2>8. IsPrefix(delivered', Stream(peerSent'))
    <3>1. IsPrefix(delivered, Stream(peerSent))
      BY DEF InInv, InboundStream, Stream
    <3> QED  BY <2>1, <2>2, <2>4, <2>5, <2>6, <3>1, PrefixGrows
  <2> QED  BY <2>3, <2>7, <2>8 DEF InInv, InboundStream, Stream
<1>15. CASE UNCHANGED vars
  BY <1>0, <1>1, <1>15 DEF vars, InTypes
<1> QED
  BY <1>2, <1>3, <1>4, <1>5, <1>6, <1>7, <1>8, <1>9, <1>10, <1>11, <1>12, <1>13, <1>14, <1>15
  DEF Next, LoopNext, PeerNext

LEMMA AlwaysIn == Spec => []InInv
BY InitIn, NextIn, AlwaysControl, PTL DEF Spec

\* The packets that OnPacket gets are the peer's stream, cut where unPacket cuts
\* it: no byte is lost, repeated or moved between reads, buffer, ring buffer
\* and packets, for any reads and any cuts (conn.go, handleRead and ShiftN).
THEOREM InputInOrder == Spec => []InboundStream
<1>1. InInv => InboundStream  BY DEF InInv
<1> QED  BY <1>1, AlwaysIn, PTL

----------------------------------------------------------------------------
(* Types                                                                   *)

UserTypes ==
    /\ call \in [Calls -> {"idle", "checked", "refused", "queued"}]
    /\ pending \in Seq(Calls) /\ executed \in Seq(Calls)

LEMMA InitUsers == Init => UserTypes
BY EmptySeq DEF Init, UserTypes, Queue!Init

LEMMA NextUsers ==
    ASSUME UserTypes, [Next]_vars
    PROVE  UserTypes'
<1> USE DEF connVars, bindVars, userVars, loopVars, socketVars, history
<1>1. CASE UNCHANGED userVars
  BY <1>1 DEF UserTypes
<1>2. CASE RunJob
  <2>1. Head(pending) \in Calls /\ Tail(pending) \in Seq(Calls)
    BY <1>2, HeadTailProperties DEF RunJob, UserTypes
  <2>2. Append(executed, Head(pending)) \in Seq(Calls)
    BY <2>1, AppendProperties DEF UserTypes
  <2> QED  BY <1>2, <2>1, <2>2 DEF RunJob, Queue!Execute, UserTypes
<1>3. ASSUME NEW j \in Calls, Check(j)
      PROVE  UserTypes'
  BY <1>3 DEF Check, UserTypes
<1>4. ASSUME NEW j \in Calls, Trigger(j)
      PROVE  UserTypes'
  <2>1. Append(pending, j) \in Seq(Calls)
    BY AppendProperties DEF UserTypes
  <2> QED  BY <1>4, <2>1 DEF Trigger, Queue!Submit, UserTypes
<1>5. CASE ListenerNext \/ PeerNext
  BY <1>1, <1>5 DEF ListenerNext, Store, AddRead, DeleteHandler,
     PeerNext, PeerSend, PeerShutdown, PeerReset, PeerReads
<1>6. CASE LoopNext
  BY <1>1, <1>6 DEF LoopNext, EpollWait, NoHandler, HandleErr, HandleNothing, HandleWrite,
     HandleRead, Packet, NoPacket, Unbind, OnClose, CloseFd, Release
<1> QED
  BY <1>1, <1>2, <1>3, <1>4, <1>5, <1>6 DEF Next, vars

\* Every variable keeps to the values the code can give it, and a connection
\* whose descriptor is closed is not registered and holds no bytes.
THEOREM TypeCorrect == Spec => []TypeOK
<1>1. ControlInv /\ OutInv /\ InInv /\ UserTypes => TypeOK
  BY DEF ControlInv, ControlTypes, CloseInv, EventInv, ReleaseInv, Closing,
         OutInv, OutTypes, Sendable, InInv, InTypes, UserTypes, TypeOK
<1>2. Spec => []UserTypes
  BY InitUsers, NextUsers, PTL DEF Spec
<1> QED  BY <1>1, <1>2, AlwaysControl, AlwaysOut, AlwaysIn, PTL
=============================================================================
