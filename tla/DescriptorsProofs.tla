------------------------- MODULE DescriptorsProofs -------------------------
(***************************************************************************)
(* Who has a descriptor's number, whom its events reach, what is watched   *)
(* for and why connections are closed, for any number of connections,      *)
(* descriptors and other users of them.                                    *)
(***************************************************************************)
EXTENDS Descriptors, TLAPS

Domains ==
    /\ owner \in [Fds -> Conns \cup {None, Other}]
    /\ handlers \in [Fds -> Conns \cup {None}]
    /\ fd \in [Conns -> Fds \cup {None}]
    /\ connected \in [Conns -> BOOLEAN]
    /\ closeAsked \subseteq Conns

\* The connection that the listener binds has been accepted.
BindingInv ==
    listener = Idle \/ listener \in [pc : {"store", "add", "delete"},
                                     c : {c \in Conns : fd[c] \in Fds}]

\* The connection that the loop closes is not open any more, and its number has
\* not been given back.
ClosingInv ==
    loop = Idle \/ /\ loop.c \in Conns /\ ~connected[loop.c]
                   /\ fd[loop.c] \in Fds /\ owner[fd[loop.c]] = loop.c

OwnerInv ==
    \A c \in Conns : connected[c] => fd[c] \in Fds /\ owner[fd[c]] = c

\* A handler is under its own number, and is open, was stored too late, or is
\* about to be removed.
HandlerInv ==
    \A f \in Fds : handlers[f] # None =>
        /\ fd[handlers[f]] = f
        /\ \/ connected[handlers[f]] \/ handlers[f] \in storedDead
           \/ loop = [pc |-> "unbind", c |-> handlers[f]]

Inv ==
    /\ Domains /\ BindingInv /\ ClosingInv /\ OwnerInv /\ HandlerInv
    /\ \A e \in batch : e.fd \in Fds
    /\ NoEventToTheDead

\* handleClose of a connection keeps the facts about owners and handlers: it
\* takes an open one out of the open ones and into the loop's hands.
LEMMA HandleCloseInv ==
    ASSUME Inv, NEW c \in Conns, loop = Idle, HandleClose(c),
           UNCHANGED <<owner, handlers, listener, fd>>,
           closeAsked' = closeAsked, storedDead' = storedDead
    PROVE  (Domains /\ BindingInv /\ ClosingInv /\ OwnerInv /\ HandlerInv)'
<1>1. CASE connected[c]
  <2>1. connected' = [connected EXCEPT ![c] = FALSE] /\ loop' = [pc |-> "unbind", c |-> c]
    BY <1>1 DEF HandleClose
  <2>2. (Domains /\ BindingInv)'  BY <2>1 DEF Inv, Domains, BindingInv
  <2>3. (ClosingInv /\ OwnerInv)'
    BY <2>1, <1>1 DEF Inv, Domains, OwnerInv, ClosingInv
  <2>4. HandlerInv'  BY <2>1 DEF Inv, Domains, HandlerInv, Idle
  <2> QED  BY <2>2, <2>3, <2>4
<1>2. CASE ~connected[c]
  <2>1. UNCHANGED <<connected, loop>>  BY <1>2 DEF HandleClose
  <2> QED
    BY <2>1 DEF Inv, Domains, BindingInv, ClosingInv, OwnerInv, HandlerInv
<1> QED  BY <1>1, <1>2

\* What handleRead, handleWrite and write do to them is that of handleClose, or
\* nothing.
LEMMA WorkInv ==
    ASSUME Inv, NEW c \in Conns, loop = Idle,
           HandleClose(c) \/ UNCHANGED <<connected, loop>>,
           UNCHANGED <<owner, handlers, listener, fd>>,
           closeAsked' = closeAsked, storedDead' = storedDead
    PROVE  (Domains /\ BindingInv /\ ClosingInv /\ OwnerInv /\ HandlerInv)'
<1>1. CASE HandleClose(c)  BY <1>1, HandleCloseInv
<1>2. CASE UNCHANGED <<connected, loop>>
  BY <1>2 DEF Inv, Domains, BindingInv, ClosingInv, OwnerInv, HandlerInv
<1> QED  BY <1>1, <1>2

LEMMA Works ==
    ASSUME NEW c, Write(c) \/ HandleRead(c) \/ HandleWrite(c) \/ \E e \in batch : Handle(c, e)
    PROVE  HandleClose(c) \/ UNCHANGED <<connected, loop>>
BY DEF Write, HandleRead, HandleWrite, Handle, Stay

\* Poll reports no numbers but those that are registered.
LEMMA EntriesOwn ==
    ASSUME NEW f \in Fds, NEW S \in Entries(f), NEW e \in S
    PROVE  e.fd = f
BY DEF Entries

LEMMA InitInv == Init => Inv
BY OwnerAssumption
DEF Init, Inv, Domains, BindingInv, ClosingInv, OwnerInv, HandlerInv, NoEventToTheDead

LEMMA NextInv ==
    ASSUME Inv, [Next]_vars
    PROVE  Inv'
<1> USE OwnerAssumption DEF history, connVars, peerVars, pollVars, NoEventToTheDead
<1>1. ASSUME NEW c \in Conns, NEW f \in Fds, Accept(c, f)
      PROVE  Inv'
  <2> USE <1>1 DEF Accept, Inv
  <2>1. (Domains /\ BindingInv)'  BY DEF Domains, BindingInv
  <2>2. (ClosingInv /\ OwnerInv)'
    BY OwnerAssumption DEF Domains, ClosingInv, OwnerInv, Idle
  <2>3. HandlerInv'
    BY DEF Domains, HandlerInv
  <2> QED  BY <2>1, <2>2, <2>3
<1>2. CASE Store
  <2>1. listener # Idle  BY <1>2 DEF Store, Idle
  <2>2. listener.c \in Conns /\ fd[listener.c] \in Fds  BY <2>1 DEF Inv, BindingInv
  <2>3. (Domains /\ ClosingInv /\ OwnerInv)'
    BY <1>2, <2>2 DEF Store, Inv, Domains, ClosingInv, OwnerInv
  <2>4. BindingInv'  BY <1>2, <2>1 DEF Store, Inv, BindingInv
  <2>5. HandlerInv'  BY <1>2, <2>2 DEF Store, Inv, Domains, HandlerInv
  <2>6. NoEventToTheDead'  BY <1>2 DEF Store, Inv
  <2>7. batch' = batch  BY <1>2 DEF Store
  <2> QED  BY <2>3, <2>4, <2>5, <2>6, <2>7 DEF Inv
<1>3. CASE AddRead
  <2>1. listener # Idle  BY <1>3 DEF AddRead, Idle
  <2>2. listener.c \in Conns /\ fd[listener.c] \in Fds  BY <2>1 DEF Inv, BindingInv
  <2>3. UNCHANGED <<owner, handlers, loop, connVars, history>>  BY <1>3 DEF AddRead
  <2>4. listener' = Idle \/ listener' = [listener EXCEPT !.pc = "delete"]
    BY <1>3 DEF AddRead
  <2> QED
    BY <2>1, <2>2, <2>3, <2>4, <1>3
    DEF AddRead, Inv, Domains, BindingInv, ClosingInv, OwnerInv, HandlerInv
<1>4. CASE DeleteHandler
  BY <1>4 DEF DeleteHandler, Inv, Domains, BindingInv, ClosingInv, OwnerInv, HandlerInv
<1>5. ASSUME NEW f \in Fds, OtherOpens(f)
      PROVE  Inv'
  BY <1>5, OwnerAssumption
  DEF OtherOpens, Inv, Domains, BindingInv, ClosingInv, OwnerInv, HandlerInv
<1>6. ASSUME NEW f \in Fds, OtherCloses(f)
      PROVE  Inv'
  BY <1>6, OwnerAssumption
  DEF OtherCloses, Inv, Domains, BindingInv, ClosingInv, OwnerInv, HandlerInv
<1>7. CASE Unbind
  <2>1. loop # Idle  BY <1>7 DEF Unbind, Idle
  <2>2. /\ loop.c \in Conns /\ ~connected[loop.c]
        /\ fd[loop.c] \in Fds /\ owner[fd[loop.c]] = loop.c
    BY <2>1 DEF Inv, ClosingInv
  <2>3. loop'.c = loop.c  BY <1>7 DEF Unbind, Inv
  <2>4. (Domains /\ BindingInv /\ OwnerInv)'
    BY <1>7 DEF Unbind, Inv, Domains, BindingInv, OwnerInv
  <2>5. ClosingInv'  BY <1>7, <2>2, <2>3 DEF Unbind, ClosingInv
  <2>6. HandlerInv'  BY <1>7, <2>2 DEF Unbind, Inv, Domains, HandlerInv
  <2> QED  BY <1>7, <2>4, <2>5, <2>6 DEF Unbind, Inv
<1>8. CASE CloseFd
  <2>1. loop # Idle /\ loop.pc = "closefd"  BY <1>8 DEF CloseFd, Idle
  <2>2. /\ loop.c \in Conns /\ ~connected[loop.c]
        /\ fd[loop.c] \in Fds /\ owner[fd[loop.c]] = loop.c
    BY <2>1 DEF Inv, ClosingInv
  <2>3. (Domains /\ BindingInv /\ ClosingInv)'
    BY <1>8 DEF CloseFd, Inv, Domains, BindingInv, ClosingInv
  <2>4. OwnerInv'  BY <1>8, <2>2 DEF CloseFd, Inv, Domains, OwnerInv
  <2>5. HandlerInv'  BY <1>8, <2>1 DEF CloseFd, Inv, Domains, HandlerInv
  <2> QED  BY <1>8, <2>3, <2>4, <2>5 DEF CloseFd, Inv
<1>9. CASE HandleEvent
  <2>1. PICK e \in batch :
          LET c == handlers[e.fd]
          IN  /\ deadEvent' = IF c # None /\ ~connected[c] THEN deadEvent \cup {c} ELSE deadEvent
              /\ IF c # None /\ connected[c] THEN Handle(c, e) ELSE Stay
    BY <1>9 DEF HandleEvent
  <2>2. e.fd \in Fds  BY DEF Inv
  <2>3. UNCHANGED <<owner, handlers, listener, fd, closeAsked, storedDead>>
        /\ loop = Idle /\ \A d \in batch' : d.fd \in Fds
    BY <1>9 DEF HandleEvent, Inv
  <2>4. CASE handlers[e.fd] # None /\ connected[handlers[e.fd]]
    <3>1. handlers[e.fd] \in Conns  BY <2>2, <2>4 DEF Inv, Domains
    <3>2. HandleClose(handlers[e.fd]) \/ UNCHANGED <<connected, loop>>
      BY <2>1, <2>4, Works
    <3>3. (Domains /\ BindingInv /\ ClosingInv /\ OwnerInv /\ HandlerInv)'
      BY <2>3, <3>1, <3>2, WorkInv
    <3> QED  BY <2>1, <2>3, <2>4, <3>3 DEF Inv
  <2>5. CASE ~(handlers[e.fd] # None /\ connected[handlers[e.fd]])
    <3>1. UNCHANGED <<connected, loop>>  BY <2>1, <2>5 DEF Stay
    <3>2. handlers[e.fd] # None => handlers[e.fd] \in storedDead
      BY <2>2, <2>3, <2>5 DEF Inv, HandlerInv, Idle
    <3>3. NoEventToTheDead'  BY <2>1, <2>3, <3>2 DEF Inv
    <3> QED
      BY <2>3, <3>1, <3>3 DEF Inv, Domains, BindingInv, ClosingInv, OwnerInv, HandlerInv
  <2> QED  BY <2>4, <2>5
<1>10. ASSUME NEW c \in Conns, WriteJob(c)
       PROVE  Inv'
  <2>1. HandleClose(c) \/ UNCHANGED <<connected, loop>>  BY <1>10, Works DEF WriteJob
  <2>2. (Domains /\ BindingInv /\ ClosingInv /\ OwnerInv /\ HandlerInv)'
    BY <1>10, <2>1, WorkInv DEF WriteJob
  <2> QED  BY <1>10, <2>2 DEF WriteJob, Inv
<1>11. ASSUME NEW c \in Conns, CloseJob(c)
       PROVE  Inv'
  BY <1>11, HandleCloseInv DEF CloseJob, Inv
<1>12. ASSUME NEW c \in Conns, Close(c)
       PROVE  Inv'
  BY <1>12 DEF Close, Inv, Domains, BindingInv, ClosingInv, OwnerInv, HandlerInv
<1>13. ASSUME NEW c \in Conns, Peer(c)
       PROVE  Inv'
  BY <1>13 DEF Peer, Inv, Domains, BindingInv, ClosingInv, OwnerInv, HandlerInv
<1>14. CASE Poll
  <2>1. \A e \in batch' : e.fd \in Fds
    <3> DEFINE Watched == {f \in Fds : reg[f] # {}}
    <3>1. PICK report \in [Watched -> UNION {Entries(f) : f \in Fds}] :
            /\ \A f \in DOMAIN report : report[f] \in Entries(f)
            /\ batch' = UNION {report[f] : f \in DOMAIN report}
      BY <1>14 DEF Poll
    <3> SUFFICES ASSUME NEW e \in batch' PROVE e.fd \in Fds  OBVIOUS
    <3>2. PICK f \in Watched : e \in report[f]  BY <3>1
    <3> QED  BY <3>1, <3>2, EntriesOwn
  <2> QED
    BY <1>14, <2>1 DEF Poll, Inv, Domains, BindingInv, ClosingInv, OwnerInv, HandlerInv
<1>15. CASE UNCHANGED vars
  BY <1>15 DEF vars, Inv, Domains, BindingInv, ClosingInv, OwnerInv, HandlerInv
<1> QED
  BY <1>1, <1>2, <1>3, <1>4, <1>5, <1>6, <1>7, <1>8, <1>9, <1>10, <1>11, <1>12, <1>13,
     <1>14, <1>15
  DEF Next, ListenerNext, LoopNext

LEMMA Invariance == Spec => []Inv
BY InitInv, NextInv, PTL DEF Spec

\* An open connection owns its number, and the loop closes no number but that
\* of the connection it is closing, whoever else opens and closes descriptors.
THEOREM OwnsItsNumber == Spec => []OwnDescriptor
<1>1. Inv => OwnDescriptor  BY DEF Inv, OwnerInv, ClosingInv, OwnDescriptor
<1> QED  BY <1>1, Invariance, PTL

\* Only a connection that was closed before its Store is handed an event after
\* its release, however batches, jobs and the reuse of numbers interleave.
THEOREM DeadHandlersComeFromStore == Spec => []NoEventToTheDead
<1>1. Inv => NoEventToTheDead  BY DEF Inv
<1> QED  BY <1>1, Invariance, PTL

----------------------------------------------------------------------------
(* What is watched for, and why a connection is closed                     *)

\* The poller's notes and registrations.
RegInv ==
    /\ poller \in {"epoll", "kqueue"}
    /\ reg \in [Fds -> SUBSET {"read", "write"}]
    /\ sockets \in [Fds -> {{}, {"read"}}]

\* A number that is given out is registered for nothing, and a connection that
\* is accepted has nothing to send.
FreshInv ==
    /\ \A f \in Fds : reg[f] # {} => owner[f] # None
    /\ backlog \in [Conns -> BOOLEAN]
    /\ \A c \in Conns : fd[c] = None => ~backlog[c]

InterestInv ==
    /\ RegInv /\ FreshInv /\ WriteInterest
    /\ enableFailed \subseteq Conns

LEMMA EnableReg ==
    ASSUME RegInv, NEW f \in Fds, NEW new \in {{"read"}, {"read", "write"}}, Enable(f, new)
    PROVE  /\ sockets' = sockets /\ reg' \in [Fds -> SUBSET {"read", "write"}]
           /\ \A g \in Fds \ {f} : reg'[g] = reg[g]
           /\ ~CannotEnable(f) /\ "write" \in new => "write" \in reg'[f]
           /\ poller = "epoll" /\ "write" \notin new => "write" \notin reg'[f]
<1>1. CASE CannotEnable(f)
  BY <1>1 DEF Enable, CannotEnable, RegInv, pollVars
<1>2. CASE ~CannotEnable(f) /\ poller = "epoll"
  BY <1>2 DEF Enable, RegInv
<1>3. CASE ~CannotEnable(f) /\ poller = "kqueue"
  <2>1. sockets[f] = {"read"}  BY <1>3 DEF CannotEnable, RegInv
  <2>2. sockets[f] \ new = {}  BY <2>1
  <2>3. ~KEvents(f, new).fails /\ KEvents(f, new).reg = reg[f] \cup (new \ sockets[f])
    BY <2>2 DEF KEvents
  <2>4. sockets' = sockets /\ reg' = [reg EXCEPT ![f] = reg[f] \cup (new \ sockets[f])]
    BY <1>3, <2>3 DEF Enable
  <2> QED  BY <1>3, <2>1, <2>4 DEF RegInv
<1> QED  BY <1>1, <1>2, <1>3 DEF RegInv

LEMMA DelReg ==
    ASSUME RegInv, NEW f \in Fds, Del(f)
    PROVE  /\ sockets' \in [Fds -> {{}, {"read"}}]
           /\ reg' \in [Fds -> SUBSET {"read", "write"}]
           /\ \A g \in Fds \ {f} : reg'[g] = reg[g]
           /\ reg'[f] \subseteq reg[f]
<1>1. KEvents(f, {}).reg = reg[f] \ sockets[f]
  BY DEF KEvents
<1> QED  BY <1>1 DEF Del, RegInv

\* What the loop does to the open connection c.
LEMMA WorkInterest ==
    ASSUME Inv, InterestInv, NEW c \in Conns, connected[c],
           \/ Write(c)
           \/ HandleClose(c) /\ UNCHANGED <<backlog, enableFailed>>
           \/ backlog[c] /\ HandleWrite(c)
           \/ Stay,
           UNCHANGED <<poller, owner, fd>>
    PROVE  InterestInv'
<1> USE DEF pollVars
<1>0. /\ fd[c] \in Fds /\ owner[fd[c]] = c /\ c # None
      /\ \A d \in Conns : connected[d] => fd[d] \in Fds /\ owner[fd[d]] = d
      /\ \A d \in Conns \ {c} : connected[d] => fd[d] # fd[c]
      /\ connected \in [Conns -> BOOLEAN]
  BY OwnerAssumption DEF Inv, OwnerInv, Domains
<1>1. CASE Stay
  BY <1>1 DEF Stay, InterestInv, RegInv, FreshInv, WriteInterest
<1>2. CASE HandleClose(c) /\ UNCHANGED <<backlog, enableFailed>>
  <2>1. connected' = [connected EXCEPT ![c] = FALSE] /\ Del(fd[c])
    BY <1>2 DEF HandleClose
  <2>2. /\ sockets' \in [Fds -> {{}, {"read"}}]
        /\ reg' \in [Fds -> SUBSET {"read", "write"}]
        /\ \A g \in Fds \ {fd[c]} : reg'[g] = reg[g]
        /\ reg'[fd[c]] \subseteq reg[fd[c]]
    BY <1>0, <2>1, DelReg DEF InterestInv
  <2>3. RegInv'  BY <2>2 DEF InterestInv, RegInv
  <2>4. FreshInv'  BY <1>0, <1>2, <2>2 DEF InterestInv, FreshInv
  <2>5. WriteInterest'
    BY <1>0, <1>2, <2>1, <2>2 DEF InterestInv, WriteInterest
  <2> QED  BY <1>2, <2>3, <2>4, <2>5 DEF InterestInv
<1>3. ASSUME NEW new \in {{"read"}, {"read", "write"}}, Enable(fd[c], new),
             UNCHANGED connected,
             backlog' = [backlog EXCEPT ![c] = "write" \in new],
             IF "write" \in new /\ CannotEnable(fd[c])
             THEN enableFailed' = enableFailed \cup {c}
             ELSE UNCHANGED enableFailed
      PROVE  InterestInv'
  <2>1. /\ sockets' = sockets /\ reg' \in [Fds -> SUBSET {"read", "write"}]
        /\ \A g \in Fds \ {fd[c]} : reg'[g] = reg[g]
        /\ ~CannotEnable(fd[c]) /\ "write" \in new => "write" \in reg'[fd[c]]
        /\ poller = "epoll" /\ "write" \notin new => "write" \notin reg'[fd[c]]
    BY <1>0, <1>3, EnableReg DEF InterestInv
  <2>2. RegInv'  BY <2>1 DEF InterestInv, RegInv
  <2>3. FreshInv'  BY <1>0, <1>3, <2>1, OwnerAssumption DEF InterestInv, FreshInv
  <2>4. WriteInterest'
    <3> SUFFICES ASSUME NEW d \in Conns, connected[d]
                 PROVE  /\ backlog'[d] /\ "write" \notin reg'[fd[d]] => d \in enableFailed'
                        /\ ~backlog'[d] /\ "write" \in reg'[fd[d]] => poller = "kqueue"
      BY <1>3 DEF WriteInterest
    <3>1. CASE d = c
      BY <1>3, <2>1, <3>1 DEF InterestInv, FreshInv, RegInv
    <3>2. CASE d # c
      BY <1>0, <1>3, <2>1, <3>2 DEF InterestInv, FreshInv, WriteInterest
    <3> QED  BY <3>1, <3>2
  <2>5. enableFailed' \subseteq Conns  BY <1>3 DEF InterestInv
  <2> QED  BY <2>2, <2>3, <2>4, <2>5 DEF InterestInv
<1>4. CASE Write(c)
  <2>1. CASE backlog[c]
    <3>1. backlog' = backlog  BY <1>4, <2>1 DEF Write, InterestInv, FreshInv
    <3> QED
      BY <1>4, <2>1, <3>1 DEF Write, InterestInv, RegInv, FreshInv, WriteInterest
  <2>2. CASE ~backlog[c] /\ peer[c] # "rst"
    BY <1>3, <1>4, <2>2 DEF Write
  <2> QED  BY <1>2, <1>4, <2>1, <2>2 DEF Write
<1>5. CASE backlog[c] /\ HandleWrite(c)
  <2>1. CASE /\ backlog' = [backlog EXCEPT ![c] = FALSE]
             /\ Enable(fd[c], {"read"})
             /\ UNCHANGED <<connected, loop, enableFailed>>
    <3> DEFINE new == {"read"}
    <3>1. ("write" \in new) = FALSE  OBVIOUS
    <3> QED  BY <1>3, <2>1, <3>1
  <2> QED  BY <1>1, <1>2, <1>5, <2>1 DEF HandleWrite
<1> QED  BY <1>1, <1>2, <1>4, <1>5

LEMMA InitInterest == Init => InterestInv
BY PollerAssumption DEF Init, InterestInv, RegInv, FreshInv, WriteInterest

LEMMA NextInterest ==
    ASSUME Inv, InterestInv, [Next]_vars
    PROVE  InterestInv'
<1> USE OwnerAssumption DEF history, connVars, peerVars, pollVars
<1>1. CASE UNCHANGED <<poller, pollVars, connVars, enableFailed>>
           /\ (\A f \in Fds : owner[f] # None => owner'[f] # None)
  BY <1>1 DEF InterestInv, RegInv, FreshInv, WriteInterest
<1>2. ASSUME NEW c \in Conns, NEW f \in Fds, Accept(c, f)
      PROVE  InterestInv'
  <2>1. RegInv' /\ FreshInv'
    BY <1>2 DEF Accept, InterestInv, RegInv, FreshInv, Inv, Domains
  <2>2. reg[f] = {} /\ ~backlog[c]
    BY <1>2 DEF Accept, InterestInv, FreshInv
  <2>3. WriteInterest'
    BY <1>2, <2>2 DEF Accept, InterestInv, WriteInterest, Inv, Domains
  <2> QED  BY <1>2, <2>1, <2>3 DEF Accept, InterestInv
<1>3. CASE AddRead
  <2>1. listener.c \in Conns /\ fd[listener.c] \in Fds
    BY <1>3 DEF AddRead, Inv, BindingInv, Idle
  <2>2. RegInv'
    BY <1>3, <2>1 DEF AddRead, InterestInv, RegInv
  <2>3. FreshInv'
    BY <1>3, <2>1 DEF AddRead, InterestInv, RegInv, FreshInv
  <2>4. \A f \in Fds : "write" \in reg'[f] <=> "write" \in reg[f]
    BY <1>3, <2>1 DEF AddRead, InterestInv, RegInv
  <2>5. WriteInterest'
    BY <1>3, <2>4 DEF AddRead, InterestInv, WriteInterest, Inv, OwnerInv
  <2> QED  BY <1>3, <2>2, <2>3, <2>5 DEF AddRead, InterestInv
<1>4. CASE Store \/ DeleteHandler \/ Poll \/ Unbind
  BY <1>1, <1>4 DEF Store, DeleteHandler, Poll, Unbind
<1>5. ASSUME NEW f \in Fds, OtherOpens(f)
      PROVE  InterestInv'
  BY <1>1, <1>5 DEF OtherOpens, Inv, Domains
<1>6. ASSUME NEW f \in Fds, OtherCloses(f)
      PROVE  InterestInv'
  <2>1. \A c \in Conns : connected[c] => fd[c] \in Fds \ {f}
    BY <1>6 DEF OtherCloses, Inv, OwnerInv
  <2>2. RegInv' /\ FreshInv'
    BY <1>6 DEF OtherCloses, InterestInv, RegInv, FreshInv, Inv, Domains
  <2>3. WriteInterest'
    BY <1>6, <2>1 DEF OtherCloses, InterestInv, RegInv, WriteInterest
  <2> QED  BY <1>6, <2>2, <2>3 DEF OtherCloses, InterestInv
<1>7. CASE CloseFd
  <2>1. /\ loop.c \in Conns /\ ~connected[loop.c]
        /\ fd[loop.c] \in Fds /\ owner[fd[loop.c]] = loop.c
    BY <1>7 DEF CloseFd, Inv, ClosingInv, Idle
  <2>2. \A c \in Conns : connected[c] => fd[c] \in Fds \ {fd[loop.c]} /\ c # loop.c
    BY <2>1 DEF Inv, OwnerInv
  <2>3. RegInv' /\ FreshInv'
    BY <1>7, <2>1 DEF CloseFd, InterestInv, RegInv, FreshInv, Inv, Domains
  <2>4. WriteInterest'
    BY <1>7, <2>2 DEF CloseFd, InterestInv, RegInv, FreshInv, WriteInterest
  <2> QED  BY <1>7, <2>3, <2>4 DEF CloseFd, InterestInv
<1>8. CASE HandleEvent
  <2>1. PICK e \in batch :
          LET c == handlers[e.fd]
          IN  IF c # None /\ connected[c] THEN Handle(c, e) ELSE Stay
    BY <1>8 DEF HandleEvent
  <2>2. UNCHANGED <<poller, owner, fd>> /\ e.fd \in Fds
    BY <1>8 DEF HandleEvent, Inv
  <2>3. CASE Stay
    BY <2>2, <2>3 DEF Stay, InterestInv, RegInv, FreshInv, WriteInterest
  <2>4. CASE handlers[e.fd] # None /\ connected[handlers[e.fd]] /\ Handle(handlers[e.fd], e)
    <3>1. handlers[e.fd] \in Conns  BY <2>2, <2>4 DEF Inv, Domains
    <3>2. LET c == handlers[e.fd]
          IN  \/ Write(c)
              \/ HandleClose(c) /\ UNCHANGED <<backlog, enableFailed>>
              \/ backlog[c] /\ HandleWrite(c)
              \/ Stay
      BY <2>4 DEF Handle, HandleRead
    <3> QED  BY <2>2, <2>4, <3>1, <3>2, WorkInterest
  <2> QED  BY <2>1, <2>3, <2>4
<1>9. ASSUME NEW c \in Conns, WriteJob(c)
      PROVE  InterestInv'
  BY <1>9, WorkInterest DEF WriteJob
<1>10. ASSUME NEW c \in Conns, CloseJob(c)
       PROVE  InterestInv'
  <2>1. CASE connected[c]
    BY <1>10, <2>1, WorkInterest DEF CloseJob
  <2>2. CASE ~connected[c]
    BY <1>1, <1>10, <2>2 DEF CloseJob, HandleClose
  <2> QED  BY <2>1, <2>2
<1>11. ASSUME NEW c \in Conns, Close(c) \/ Peer(c)
       PROVE  InterestInv'
  BY <1>1, <1>11 DEF Close, Peer
<1>12. CASE UNCHANGED vars
  BY <1>1, <1>12 DEF vars
<1> QED
  BY <1>2, <1>3, <1>4, <1>5, <1>6, <1>7, <1>8, <1>9, <1>10, <1>11, <1>12
  DEF Next, ListenerNext, LoopNext

LEMMA AlwaysInterest == Spec => []InterestInv
BY InitInterest, NextInterest, Invariance, PTL DEF Spec

\* A connection that keeps bytes is watched for room, unless EnableReadWrite came
\* before AddRead; one that keeps none is watched for room only under kqueue,
\* for any number of connections that share the numbers.
THEOREM InterestFollowsBacklog == Spec => []WriteInterest
<1>1. InterestInv => WriteInterest  BY DEF InterestInv
<1> QED  BY <1>1, AlwaysInterest, PTL

\* A reported error of a connection is its peer's doing.
BatchInv ==
    \A e \in batch : "err" \in e.evs /\ e.of \in Conns =>
        \/ peer[e.of] = "rst"
        \/ peer[e.of] = "fin" /\ poller = "kqueue"

ReasonInv ==
    /\ unread \in [Conns -> BOOLEAN] /\ peer \in [Conns -> {"open", "fin", "rst"}]
    /\ BatchInv /\ ClosedForAReason

\* The reasons for which c may be closed now.
MayClose(c) ==
    \/ c \in closeAsked \cup staleErr'
    \/ peer[c] # "open" /\ (peer[c] = "fin" /\ unread[c] => poller = "kqueue")

\* A step that closes no connection but c, and that one for a reason.
LEMMA CloseKeepsReason ==
    ASSUME ReasonInv, Inv, NEW c \in Conns,
           \/ UNCHANGED connected
           \/ connected' = [connected EXCEPT ![c] = FALSE] /\ MayClose(c) /\ UNCHANGED unread,
           \/ UNCHANGED unread
           \/ connected[c] /\ UNCHANGED connected /\ unread' = [unread EXCEPT ![c] = FALSE],
           staleErr \subseteq staleErr',
           UNCHANGED <<poller, peer, fd, closeAsked>>, batch' \subseteq batch
    PROVE  ReasonInv'
<1>1. BatchInv'  BY DEF ReasonInv, BatchInv
<1>2. unread' \in [Conns -> BOOLEAN] /\ peer' \in [Conns -> {"open", "fin", "rst"}]
  BY DEF ReasonInv
<1>3. ClosedForAReason'
  BY DEF ReasonInv, ClosedForAReason, MayClose, Inv, Domains
<1> QED  BY <1>1, <1>2, <1>3 DEF ReasonInv

LEMMA ErrorEntries ==
    ASSUME NEW f \in Fds, NEW S \in Entries(f), NEW e \in S, "err" \in e.evs, e.of \in Conns,
           RegInv
    PROVE  peer[e.of] = "rst" \/ (peer[e.of] = "fin" /\ poller = "kqueue")
<1>1. owner[f] \in Conns /\ e.of = owner[f]
  BY DEF Entries
<1>2. CASE poller = "epoll"
  BY <1>1, <1>2 DEF Entries, RegInv
<1>3. CASE poller # "epoll"
  BY <1>1, <1>3 DEF Entries, RegInv
<1> QED  BY <1>2, <1>3

LEMMA InitReason == Init => ReasonInv
BY DEF Init, ReasonInv, BatchInv, ClosedForAReason

LEMMA NextReason ==
    ASSUME Inv, RegInv, ReasonInv, [Next]_vars
    PROVE  ReasonInv'
<1> USE OwnerAssumption DEF history, connVars, peerVars, pollVars
<1>1. CASE UNCHANGED <<poller, batch, fd, connected, unread, peer, staleErr>>
           /\ closeAsked \subseteq closeAsked'
  BY <1>1 DEF ReasonInv, BatchInv, ClosedForAReason
<1>2. ASSUME NEW c \in Conns, NEW f \in Fds, Accept(c, f)
      PROVE  ReasonInv'
  BY <1>2 DEF Accept, ReasonInv, BatchInv, ClosedForAReason, Inv, Domains
<1>3. CASE Store \/ AddRead \/ DeleteHandler \/ Unbind \/ CloseFd
  BY <1>1, <1>3 DEF Store, AddRead, DeleteHandler, Unbind, CloseFd
<1>4. ASSUME NEW f \in Fds, OtherOpens(f) \/ OtherCloses(f)
      PROVE  ReasonInv'
  BY <1>1, <1>4 DEF OtherOpens, OtherCloses
<1>5. CASE Poll
  <2>1. BatchInv'
    <3> DEFINE Watched == {f \in Fds : reg[f] # {}}
    <3>1. PICK report \in [Watched -> UNION {Entries(f) : f \in Fds}] :
            /\ \A f \in DOMAIN report : report[f] \in Entries(f)
            /\ batch' = UNION {report[f] : f \in DOMAIN report}
      BY <1>5 DEF Poll
    <3> SUFFICES ASSUME NEW e \in batch', "err" \in e.evs, e.of \in Conns
                 PROVE  peer[e.of] = "rst" \/ (peer[e.of] = "fin" /\ poller = "kqueue")
      BY <1>5 DEF Poll, BatchInv
    <3>2. PICK f \in Watched : e \in report[f]  BY <3>1
    <3>3. report[f] \in Entries(f)  BY <3>1
    <3> QED  BY <3>2, <3>3, ErrorEntries
  <2> QED  BY <1>5, <2>1 DEF Poll, ReasonInv, ClosedForAReason
<1>6. CASE HandleEvent
  <2>1. PICK e \in batch :
          LET c == handlers[e.fd]
          IN  /\ staleErr' = IF c \notin {None, e.of} /\ "err" \in e.evs THEN staleErr \cup {c}
                                                                         ELSE staleErr
              /\ IF c # None /\ connected[c] THEN Handle(c, e) ELSE Stay /\ UNCHANGED unread
    BY <1>6 DEF HandleEvent
  <2>2. /\ UNCHANGED <<poller, fd, peer, closeAsked>> /\ batch' \subseteq batch /\ e.fd \in Fds
        /\ staleErr \subseteq staleErr'
    BY <1>6, <2>1 DEF HandleEvent, Inv
  <2> DEFINE c == handlers[e.fd]
  <2>3. CASE Stay /\ UNCHANGED unread
    BY <2>2, <2>3 DEF Stay, ReasonInv, BatchInv, ClosedForAReason
  <2>4. CASE c # None /\ connected[c] /\ Handle(c, e)
    <3>1. c \in Conns  BY <2>2, <2>4 DEF Inv, Domains
    <3>2. CASE "err" \in e.evs
      <4>1. MayClose(c)
        BY <2>1, <2>4, <3>1, <3>2 DEF MayClose, ReasonInv, BatchInv
      <4> QED
        BY <2>2, <2>4, <3>1, <3>2, <4>1, CloseKeepsReason DEF Handle, HandleClose
    <3>3. CASE "err" \notin e.evs /\ backlog[c]
      <4>1. /\ UNCHANGED unread
            /\ \/ UNCHANGED connected
               \/ connected' = [connected EXCEPT ![c] = FALSE] /\ peer[c] = "rst"
        BY <2>4, <3>3 DEF Handle, HandleWrite, HandleClose, Stay
      <4> QED  BY <2>2, <3>1, <4>1, CloseKeepsReason DEF MayClose
    <3>4. CASE "err" \notin e.evs /\ ~backlog[c]
      <4>1. \/ UNCHANGED <<connected, unread>>
            \/ UNCHANGED connected /\ unread' = [unread EXCEPT ![c] = FALSE]
            \/ /\ connected' = [connected EXCEPT ![c] = FALSE] /\ UNCHANGED unread
               /\ peer[c] # "open" /\ (peer[c] = "rst" \/ ~unread[c])
        BY <2>4, <3>4 DEF Handle, HandleRead, Write, HandleClose, Stay
      <4> QED  BY <2>2, <2>4, <3>1, <4>1, CloseKeepsReason DEF MayClose
    <3> QED  BY <3>2, <3>3, <3>4
  <2> QED  BY <2>1, <2>3, <2>4
<1>7. ASSUME NEW c \in Conns, WriteJob(c)
      PROVE  ReasonInv'
  <2>1. /\ UNCHANGED unread
        /\ \/ UNCHANGED connected
           \/ connected' = [connected EXCEPT ![c] = FALSE] /\ peer[c] = "rst"
    BY <1>7 DEF WriteJob, Write, HandleClose
  <2> QED  BY <1>7, <2>1, CloseKeepsReason DEF WriteJob, MayClose
<1>8. ASSUME NEW c \in Conns, CloseJob(c)
      PROVE  ReasonInv'
  BY <1>8, CloseKeepsReason DEF CloseJob, HandleClose, MayClose
<1>9. ASSUME NEW c \in Conns, Close(c)
      PROVE  ReasonInv'
  BY <1>1, <1>9 DEF Close
<1>10. ASSUME NEW c \in Conns, Peer(c)
       PROVE  ReasonInv'
  <2>1. /\ \A d \in Conns : d # c => peer'[d] = peer[d] /\ unread'[d] = unread[d]
        /\ connected[c] /\ UNCHANGED <<poller, batch, fd, connected, closeAsked, staleErr>>
        /\ peer[c] # "rst" /\ (peer[c] # "open" => peer'[c] # "open")
        /\ unread' \in [Conns -> BOOLEAN] /\ peer' \in [Conns -> {"open", "fin", "rst"}]
    BY <1>10 DEF Peer, ReasonInv
  <2>2. BatchInv'  BY <2>1 DEF ReasonInv, BatchInv
  <2>3. ClosedForAReason'  BY <2>1 DEF ReasonInv, ClosedForAReason
  <2> QED  BY <2>1, <2>2, <2>3 DEF ReasonInv
<1>11. CASE UNCHANGED vars
  BY <1>1, <1>11 DEF vars
<1> QED
  BY <1>2, <1>3, <1>4, <1>5, <1>6, <1>7, <1>8, <1>9, <1>10, <1>11
  DEF Next, ListenerNext, LoopNext

LEMMA AlwaysReason == Spec => []ReasonInv
<1>1. InterestInv => RegInv  BY DEF InterestInv
<1> QED  BY <1>1, InitReason, NextReason, Invariance, AlwaysInterest, PTL DEF Spec

\* A connection is closed by a Close, its peer or a stale error event, and what
\* the peer sent before it ended its stream is read first, but under kqueue,
\* for any number of connections that share the numbers.
THEOREM ClosedOnlyForAReason == Spec => []ClosedForAReason
<1>1. ReasonInv => ClosedForAReason  BY DEF ReasonInv
<1> QED  BY <1>1, AlwaysReason, PTL

----------------------------------------------------------------------------
(* Types                                                                   *)

TypeInv ==
    /\ loop \in [pc : {"idle", "unbind", "closefd"}, c : Conns \cup {None}]
    /\ staleErr \cup storedDead \cup deadEvent \subseteq Conns

LEMMA NextTypeInv ==
    ASSUME Inv, TypeInv, [Next]_vars
    PROVE  TypeInv'
<1> USE DEF TypeInv, history, connVars
<1>1. CASE Store
  <2>1. listener.c \in Conns  BY <1>1 DEF Store, Inv, BindingInv, Idle
  <2> QED  BY <1>1, <2>1 DEF Store
<1>2. CASE HandleEvent
  <2>1. PICK e \in batch :
          LET c == handlers[e.fd]
          IN  /\ staleErr' = IF c \notin {None, e.of} /\ "err" \in e.evs THEN staleErr \cup {c}
                                                                         ELSE staleErr
              /\ deadEvent' = IF c # None /\ ~connected[c] THEN deadEvent \cup {c} ELSE deadEvent
              /\ IF c # None /\ connected[c] THEN Handle(c, e) ELSE Stay
    BY <1>2 DEF HandleEvent
  <2>2. handlers[e.fd] \in Conns \cup {None} /\ storedDead' = storedDead
    BY <1>2 DEF HandleEvent, Inv, Domains
  <2>3. \/ UNCHANGED loop
        \/ handlers[e.fd] \in Conns /\ loop' = [pc |-> "unbind", c |-> handlers[e.fd]]
    BY <2>1, <2>2, Works DEF HandleClose, Stay
  <2> QED  BY <2>1, <2>2, <2>3
<1>3. ASSUME NEW c \in Conns, WriteJob(c) \/ CloseJob(c)
      PROVE  TypeInv'
  <2>1. UNCHANGED loop \/ loop' = [pc |-> "unbind", c |-> c]
    BY <1>3, Works DEF WriteJob, CloseJob, HandleClose
  <2> QED  BY <1>3, <2>1 DEF WriteJob, CloseJob
<1>4. CASE Unbind \/ CloseFd
  BY <1>4 DEF Unbind, CloseFd, Idle
<1>5. CASE AddRead \/ DeleteHandler \/ Poll
  BY <1>5 DEF AddRead, DeleteHandler, Poll
<1>6. ASSUME NEW c \in Conns, Close(c) \/ Peer(c) \/ \E f \in Fds : Accept(c, f)
      PROVE  TypeInv'
  BY <1>6 DEF Close, Peer, Accept
<1>7. ASSUME NEW f \in Fds, OtherOpens(f) \/ OtherCloses(f)
      PROVE  TypeInv'
  BY <1>7 DEF OtherOpens, OtherCloses
<1>8. CASE UNCHANGED vars
  BY <1>8 DEF vars
<1> QED
  BY <1>1, <1>2, <1>3, <1>4, <1>5, <1>6, <1>7, <1>8 DEF Next, ListenerNext, LoopNext

\* Every variable keeps to the values the code can give it: only an open number
\* is registered, and kqueue's note of an interest is never more than "read".
THEOREM TypeCorrect == Spec => []TypeOK
<1>1. Inv /\ InterestInv /\ ReasonInv /\ TypeInv => TypeOK
  <2> SUFFICES ASSUME Inv, InterestInv, ReasonInv, TypeInv PROVE TypeOK
    OBVIOUS
  <2>1. /\ listener.pc \in {"idle", "store", "add", "delete"}
        /\ listener.c \in Conns \cup {None}
    BY DEF Inv, BindingInv, Idle
  <2> QED
    BY <2>1 DEF Inv, Domains, InterestInv, RegInv, FreshInv, ReasonInv, TypeInv, TypeOK
<1>2. Init => TypeInv
  BY DEF Init, TypeInv, Idle
<1>3. Spec => []TypeInv
  BY <1>2, NextTypeInv, Invariance, PTL DEF Spec
<1> QED  BY <1>1, <1>3, Invariance, AlwaysInterest, AlwaysReason, PTL
=============================================================================
