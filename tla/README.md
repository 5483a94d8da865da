# limnet in TLA+

limnet is a small network library in Go: a listener accepts TCP connections and
hands each to one of several event loops, which read, cut the stream into
packets, call the application and write the replies. WebSocket connections are
served next to it, without event loops. This directory models its core, checks
the models with TLC and proves theorems about them with TLAPS.

Paths below are relative to the repository's `src/`.

## The system

| Component | State | Operations | Who calls it |
|---|---|---|---|
| Event loop, `pkg/eventloop/eventloop.go` | `handlers` (fd to handler), `eventHandling` | `Run`, `Stop`, `BindHandler`, `DeleteFdInLoop`, `Trigger`, `handleEvent` | its own goroutine, the listener's, users', the one that calls `Stop` |
| Job queue, `pkg/eventloop/queue.go` | `jobs`, a spin lock | `Push`, `ExecuteJobs` | `Trigger`; the loop |
| Poller, `pkg/limpoller/epoll.go` | epoll set, eventfd, `running`, `waitDone` | `Poll`, `Wake`, `Close`, `AddRead`, `EnableReadWrite`, `EnableRead`, `Del` | the event loop, connections |
| kqueue poller, `pkg/limpoller/kqueue.go` | the same, and `sockets` (fd to interest) | the same | the same, on BSD and macOS |
| Ring buffer, `pkg/ringbuffer/ringbuffer.go` | `buf`, `size`, `r`, `w`, `isEmpty` | `Write`, `Read`, `LazyRead`, `Shift`, `WithByteBuffer`, `Reset`, `malloc` | a connection |
| TCP connection, `conn.go` | `connected`, `buffer`, `inboundBuffer`, `outboundBuffer`, `byteBuffer`, `activeTime` | `Handle`, `handleRead`, `handleWrite`, `handleClose`, `write`; `Write`, `Close`, `Read`, `ReadN`, `ShiftN`, `ResetBuffer` for users | its loop; users on any goroutine; `unPacket` and `OnPacket` |
| Server, `server.go`, `server_tcp.go` | the loops, `nextLoopIndex`, `idGen`, `Stopped` | `Run`, `Stop`, `Handle` (accept), `handleNewConnection` | the application, the listener's loop |
| WebSocket, `conn_ws.go`, `server_ws.go` | as a TCP connection, without outbound buffer | `msgLoop`, `write`, `handleClose` | a goroutine per connection, users, the timer |
| Idle timer, `closeTimeoutConn` | `activeTime`, a timer of the timing wheel | re-arm or `Close` | the timing wheel |
| Buffer pools, `pkg/ringbuffer/pool.go`, `pkg/bytebuffer` | pooled buffers; `calls`, `calibrating`, `defaultSize`, `maxSize` | `Get`, `Put`, `calibrate` | connections |

What is hard here:

* `Trigger` saves a system call by not waking a loop that is handling an event.
  Whether a job can be left behind depends on the order of three accesses by
  the caller (push, test, wake) and three by the loop (clear, take, poll).
* `Stop` shuts a loop down with the loop's own jobs and wake-ups.
* Handlers run application code, which may panic, call `Trigger`, or close its
  connection, in the middle of an event.
* A connection has an owner (its loop), but it is created by the listener and
  given to users before the loop knows it.
* The ring buffer cannot tell empty from full by its pointers, wraps, and grows
  while it is wrapped.
* A closed descriptor's number is given out again at once, while events reported
  for its old owner wait in the loop's batch and the listener may still be
  storing the old owner under it.
* Packets point into pooled buffers that have been given back.
* Both streams of a connection live in two places (a temporary buffer and a ring
  buffer; a ring buffer and the socket) and must not be reordered or lost.

What makes each component correct:

* event loop: jobs run one at a time, in order, at most once; none is forgotten;
  after `Stop`, silence;
* descriptors: a connection uses and closes its own; a released connection gets no
  event;
* poller: `Close` returns; interest follows what the connection has to do;
* ring buffer: it is a queue of bytes;
* connection: packets are the peer's stream cut up, the peer gets the
  application's writes in order, `OnClose` is called once and nothing after it;
* server: `Stop` returns, has asked every bound connection to close and leaves no loop
  running;
* WebSocket connection: whoever closes it, `OnClose` is called, the goroutine ends
  and packets stay in order;
* WebSocket writes: nil means sent, and closing frees who is blocked in one;
* buffer pools: a buffer has one owner, and a packet keeps its bytes while in use;
  the limit keeps the capacities that most calls had;
* idle timer: an active connection is not closed, an idle one is, or its loop is asked
  to close it.

`PROJECT.json` lists the hazards at their lines, with the properties that guard
each.

## The modules

    JobExecutor  <---- implements ----  EventLoop  <-- EXTENDS --  EventLoopFaults
         ^                                                        ^
         | INSTANCE                                               EventLoopProofs
         |
      TCPConn  - - uses, as a queue - ->  ByteFifo  <-- implements --  RingBuffer
                                                                        ^     ^
                                          PoolClasses <--  MCRingBuffer --+     RingBufferProofs

      TCPConn      <-- EXTENDS --  TCPConnProofs
      WSConn       <-- EXTENDS --  WSWrite  <-- EXTENDS --  WSProofs
      Descriptors  <-- EXTENDS --  DescriptorsProofs, MCDescriptors
      Server       <-- EXTENDS --  ServerProofs
      IdleTimer    <-- EXTENDS --  IdleTimerProofs
      BufferPool   <-- EXTENDS --  BufferPoolProofs

**`JobExecutor`** is what `Trigger` promises: accepted jobs run in the order they
were accepted. Its two actions are what a caller and a loop look like from
outside.

**`EventLoop`** is the code that has to keep that promise. Every access to
shared state is a step: `PushLock` and `PushUnlock` (`append` reads the slice and
stores it; `seen[j]` is what was read), `CheckHandling`, `Wake`; on the loop's side
`EpollWait`, `WakeHandlerRead`, `NextEvent`, `Enter`, `Handle`, `Leave`, `TakeLock`,
`TakeUnlock`, `RunJob`, `JobsDone`; on the side of `Stop`, `StopCall`, the calls in
`StopJobs`, `PollerClose`, `CloseWake`, `CloseFds`. `loopPc` says where `Poll` and
`handleEvent` stand, `batch` what epoll_wait returned and is still to be handled.
A handler or a job may call `Trigger` on its own loop (`TriggerFromLoop`, `nested`).
The eventfd is its counter; the kernel's level-triggered readiness is `ready`.

**`EventLoopFaults`** adds panics. A panic with an error is recovered by
`handleEvent`, which skips what it had left to do; any other value makes the
recover itself panic, which ends `Poll`.

**`ByteFifo`** is a queue of bytes; **`RingBuffer`** is the circular buffer, with the
code's two-part copies, pointer arithmetic and growth; **`MCRingBuffer`** gives it
`CeilToPowerOfTwo` as the code computes it with shifts and checks, as assumptions
that TLC evaluates, that this is the least power of two and that `& mask` is the
subtraction that `RingBuffer` writes.

**`TCPConn`** composes one connection with its listener, its loop, users and the
peer. The loop's job queue is `JobExecutor`, the two ring buffers are byte
sequences: both refinements are checked and proved in the modules above. A
message is a sequence of distinct bytes so that loss, repetition and reordering
show. `handleClose` is four steps (`HandleClose`, `Unbind`, `OnClose`, `CloseFd`)
because the listener may be in `BindHandler` meanwhile. `unPacket` may find a
packet of any length in what `Read` shows it; `OnPacket` may reply.

**`WSConn`** is a connection without an event loop. `pc[p]` says where each
goroutine stands: that of `msgLoop` (`Loop`), those of users who call `Close`
(`Closers`) and the idle timer's (`Timer`). `CloseCall`, `HandleTest`, `HandleSet`, `OnClose`,
`CloseConn`, `ReleasePut`, `ReleaseNil` are `Close`, `handleClose` and `release`, one step for
each access that another goroutine may observe; `ReadMessage`, `ReadError`, `ReadTest`
or `ReadN`, `ReadLook`, `Shift`, `OnPacket` are `msgLoop` with `unPacket`, which begins with
`Read`, that tests `connected`, or with `ReadN`, that does not. `inbound` says who has the
ring buffer: the connection, the pool while the connection still points to it, or
nobody. While the connection holds it nothing writes to it. While the pool has it
a TCP connection may take it and fill it, so `ReadLook` and `Shift` may find another
connection's byte there (`RingHolds`, `Foreign`), which `Read` puts before `buffer` and
`ShiftN` counts. Using it then may also panic, and using a nil one always ends the
program (`crashed`). `buffer` is replaced by each message, as in the code, so the bytes
a packet leaves over are lost.

**`Descriptors`** is several connections on one loop, and somebody else in the
process, with the numbers of descriptors that the kernel gives out again. `owner`
is the kernel's table, `handlers` the loop's map, `reg` what the poller's kernel
object watches, `sockets` the note of it that `kqueue.go` keeps; `poller` chooses
between the two builds, which differ in `Enable`, `Del`, `AddRead` and in what
`Entries` a batch has. Each event of `batch` remembers whose it was when reported
(`of`), for the properties only: `HandleEvent` looks its number up in `handlers`, as
`handleEvent` does. Binding (`Accept`, `Store`, `AddRead`, `DeleteHandler`) and closing
(`HandleClose`, `Unbind`, `CloseFd`) interleave step by step; streams are reduced to
`unread` and `backlog`, since `TCPConn` has their bytes.

**`Server`** is `LIMNet`: `Run` starts the WebSocket server and spawns the loops one by
one (`StartWs`, `Spawn`, `EnterPoll`), `Accept` and `Bind` are the listener's handler
with `nextLoop`, and `Stop` is `TcpStop`, `WsStop`, and `Range`, `PollerClose`, `WaitDone`
for each loop, then `WaitStopped`. A loop is reduced to what `EventLoop` shows of it: it
takes what is queued after an event or a wake-up, runs it, and after a wake-up
ends when `running` is cleared. `eventHandling` is set by a handler that runs or has
panicked, and keeps `Trigger` from waking. A queue is a set: the order of jobs matters
only for which of them a panic drops, and any may come first. `Event`, `RunJob` and a
`Trigger` of `Close` close connections; `OnConnect`, `OnPacket` and `OnClose` may panic in a
handler (`OnConnectPanics`, `HandlerPanics`) or, `OnClose`, in a job of `Close` or of a `Write`
that fails (`JobPanics`), which drops the jobs taken with it (`dropped`); a value that is
no error ends the loop (`AfterPanic`). `TcpStop` may also be called from elsewhere, and
the number of the listening descriptor may be given out again (`TakeNumber`), which
is seen only by a listener loop that has a job in hand, and happens only then.

**`IdleTimer`** is `closeTimeoutConn`, the same code in `conn.go` and `conn_ws.go`. `now` is
real time and `Wall` the clock the code reads: `time.Unix` has no monotonic reading,
so `intervals` follows every setting of the clock. `Fire`, `Compare` and `TimeoutClose`
are the test of `connected`, the comparison with its re-arming, and `Close`. `kind` is the
kind of the connection: `Close` of a WebSocket connection closes it (`CloseAtOnce`), that
of a TCP connection gives its loop a job (`CloseByJob`), which the loop runs at some
time (`CloseJob`) or loses to another job's panic (`DropJob`). The timing wheel
(external) runs the function within `Jitter` of its time.

**`BufferPool`** is the pool of byte buffers. `byteBuffer` is the connection's field, `view`
what the packet in `OnPacket` points into, `pool[b]` how often a buffer is in the
pool (`Put` does not look), `writer` whose bytes it has. `Read` takes a buffer and
forgets an earlier one; `Packet` is an `unPacket` that ends with `ShiftN` or `ResetBuffer`,
which give it back before `OnPacket` runs; a loop handles one event at a time, other loops go on.

**`WSWrite`** extends `WSConn` by writing: `WriteCall` and `WriteTest` are the tests of
`connected` in `Write` and `write`, `WriteMessage` and `WriteFails` the library's answer.
`msgLoop` goes on (`LoopGoesOn`) once the reply of `ReplyOrNot` is written. `atClear` remembers
where every writer was when `connected` was cleared. Two goroutines in `WriteMessage`
may make the library `Panic`.

**`PoolClasses`** is the arithmetic of the ring buffer pool: `Index`, by halving as the
code does it, and what `calibrate` computes from the counters; `Orders` leaves open, as
`sort.Sort` does, which of equally frequent classes comes first. `MCRingBuffer` has its
reference definitions, as assumptions that TLC evaluates.

Operators named after a defect (`LeaveWithFlagSet`, `WriteAtOnce`, ...) are not
part of any specification: each stands before the operator of which it is a
broken variant, and shows that a property notices.

## The runs

| Run | Instance | Shows |
|---|---|---|
| `EventLoop` | 3 calls of `Trigger`, one of them made by `Stop`; 1 descriptor | `NoLostWakeup`, `ExecutorSpec`, `JobsRun`, `StoppedIsQuiet` hold |
| `EventLoopFaults` | 2 calls, panics anywhere | `AtMostOnce`, `CloseReturnsAnyway`, `NextEventRecovers` hold |
| `EventLoopPanic` | 2 calls, panics anywhere | `NoLostWakeup` fails after a panic |
| `RingBuffer` | bytes 0 and 1; chunks of 0, 1, 2, 3 bytes; sizes 0, 2, 4, 8 | `TypeOK`, `FifoSpec`, `GrowsOnlyWhenFull` hold |
| `TCPConn` | 2 writes and a reply of 2 bytes, 1 close, 2 bytes from the peer, 3 bytes of send buffer | the nine properties of `TCPConn` hold |
| `TCPConnFlush` | 1 write of 2 bytes, 1 byte of send buffer | `Flushed` fails before registration |
| `WSWrite` | `msgLoop`, a `Write`, a `Close` at any time; 2 messages of 2 bytes, 2 bytes of others | the six properties of `WSConn` and the three of `WSWrite` hold |
| `WSConnRelease` | `msgLoop`, a `Close` by a user and one by the timer; 1 message of 1 byte | `NoUseAfterPut` fails |
| `Descriptors` (`MCDescriptors`) | 2 connections, 2 numbers, a stranger; epoll and kqueue | `OwnDescriptor`, `ClosedForAReason`, `NoEventToTheDead`, `WriteInterest` hold |
| `Server` | 2 connect loops and the listener's, 2 connections and others between them, `Stop` and another `TCPServer.Stop` | `LoopsEnd`, `CloseAsked`, `StopReturns`, `SecondStopIsHarmless` hold |
| `IdleTimer` | a second of 3 units, idle time of 7, jitter 1, clock off by 1, 18 units | `NotWhileActive`, `IdleIsClosed` hold |
| `BufferPool` | 3 connections on 2 loops, 3 buffers | `OneOwner`, `PacketKeptByLoop` hold |

Bounds. Two concurrent callers of `Trigger` and a third actor that stops the loop are
enough for every pairwise order of the handshake and for a Push inside an
`ExecuteJobs`; jobs and the loop only interact through the queue, so a further
caller repeats an order that is there. One descriptor is enough for a batch that
holds an event and a wake-up, in both orders. In the ring buffer a slice of 8
bytes is reached from each smaller size, at every offset, with chunks shorter and
longer than the space before the wrap. In `TCPConn` a send buffer of 3 bytes takes
one message and a half, so that partial writes, full buffers and backlogs occur;
2 bytes from the peer make packets that span two reads. `WSWrite` has one call of
`Close` besides `msgLoop`'s own `handleClose`, so that a close may overlap another or come
after it. It is the timer's, which stands for a user's: that one differs only in
coming after the application has met the connection, and a third `handleClose`
would have 5 times the states (the proofs are for any number). Two messages make
a byte left over meet the next message, and two calls that find another
connection's byte (`MaxForeign`) are one `ReadLook` and one `Shift`. `Descriptors`
needs two connections so that one takes the other's number while events, a
binding or a close of the first are under way, and a second number for the
stranger; connections are alike, and so are numbers, which gives the symmetry.
`Server` has two connect loops so that one is stopped while the other serves, and
two calls that close the listening descriptor; its two connections are on one loop
or on two, since others may be accepted in between (`AcceptAnother`), so that a
panic drops one's job with the other's. In `IdleTimer` `ConnIdleTime` is not a
multiple of a second, so rounding shows, and 18 units hold two idle times and a
re-arming. In `BufferPool` two of the three connections share a loop. In `WSWrite` one call
of `Write` is enough to overlap with a reply. Deadlock is not
checked where the system may stop: nobody has to call `Trigger`, `Write` or `Stop`.
The ring buffer's run does check it. `maxArg` bounds the sizes a buffer grows to;
`MaxIn` the peer's bytes; the sets of calls bound everything else.

Fairness. `EventLoop`: the goroutine of the loop, the calls of `Trigger` under way and
`Stop`'s `Close` go on when they can (the Go scheduler is preemptive and fair to
runnable goroutines); the spin lock is not assumed to be fair, since who holds
it releases it, and a caller may spin forever in `PushLock` (no property says that a
call begins its Push). Nobody has to call anything and no event has to arrive.
`TCPConn`: the listener, the loop and begun calls go on; the loop runs its jobs
however busy its descriptors are (strong fairness of `RunJob`, which is what
`EventLoop`'s `JobsRun` says); the peer reads in the end. The peer need not
send, end or reset. `WSConn`: a `handleClose` under way and `msgLoop` go on, which are
runnable goroutines; nobody has to call `Close`, and the peer may be silent. `WSWrite`
adds a `Write` under way; the peer need not read, and a `WriteMessage` it blocks waits. `Server`:
`Run`'s goroutine, the loops and a `Stop` under way go on, and `OnConnect` ends, with a
panic or not; clients, events and calls of `Stop` need not come. The other
modules have only safety properties.

## What the failing runs show

* `EventLoopPanic`: `handleEvent` clears `eventHandling` and runs the queue after the
  handler, not in its `defer`. After a panic the flag stays set, and a `Trigger`
  that reads it does not wake the loop; its job waits for an unrelated event.
  `NextEventRecovers` shows that such an event suffices.
* `TCPConnFlush`: the application may `Write` in `OnConnect`, before `BindHandler` has
  registered the descriptor. If the job runs first and the socket takes a
  part, `EnableReadWrite` fails and `AddRead` then asks for EPOLLIN only. The rest is
  never sent, and `Handle` ignores what the peer sends.
* `WSConnRelease`: a `Close` outside `msgLoop` runs `release` while `msgLoop` looks at the ring
  buffer; `pool.go:72` forbids that. One `Close` is enough. In between a TCP connection
  may have taken the buffer and filled it. `PacketsInOrder`, `AtMostOneLatePacket` and
  `OnCloseTwiceOnlyByOverlap` say how far the damage goes.

## What else the models showed

These are behaviours of the code that passing runs contain; the properties named
say how far each goes.

* `Stop` pushes a Close job per connection and then ends the loop that has to run
  it. A loop that has already taken its queue finds `running` cleared and ends: the
  remaining connections get no `OnClose`, and their descriptors stay open.
  `CloseAsked` claims the job, not its run. (`eventloop.go:70-85`)
* `OnClose` is application code, called in the jobs of `Close` and `Write`. If it panics
  there, the jobs taken after it are dropped, `Close` jobs of other connections among
  them, which stay open although `Stop` has asked them to close (`dropped` in
  `CloseAsked`). (`queue.go:45-49`, `conn.go:196`)
* A loop whose `Poll` has not begun when `Stop` comes refuses to be closed and then
  runs for good. For a connect loop `Stop` only logs that: `refused` in `LoopsEnd`.
  (`epoll.go:75`, `server.go:131-135`)
* A panic of `OnConnect` with a value that is no error ends the listener loop;
  `Stop` then waits for `Stopped` for ever (`StopReturns`). `Stop` before `Run` uses a
  nil HTTP server and panics (`stopPc = "panicked"`).
* A second `TCPServer.Stop` closes whatever has the listener's number by then, and
  then closes `Stopped` again, which panics (`SecondStopIsHarmless`).
* A `Close` from `OnConnect` may be carried out before `BindHandler`'s `Store`. The
  handlers map keeps the released connection, and it gets events: what the batch
  still has for its number, what `AddRead` has registered if a stranger has the
  number by then, or, under kqueue, what the next connection with that number
  registers by a write before its own `Store`. `NoEventToTheDead` shows that this is
  the only way.
* A hang-up reported for a closed connection closes a new one that has its
  number, if it was accepted before the batch was done (`staleErr` in
  `ClosedForAReason`).
* Under kqueue, `EV_EOF` closes a connection although bytes are still to be read; and
  `EnableRead` computes its change from a note that was never updated, so that the
  filter for writing stays and the loop spins (`WriteInterest`).
* A calibration of the ring buffer pool that meets no calls, because another one
  has just taken the counters, lifts the limit to the largest class
  (`NoCallsLiftLimit`).
* `Write` on a WebSocket connection returns nil, and sends nothing, when the
  connection is closed between the two tests of `connected` (`NilMeansSent`). Two
  writers may be in the library at once.
* A packet in `OnPacket` may be overwritten by a connection of another loop that has
  taken its buffer from the pool (`PacketKeptByLoop`).
* An event between the idle timer's comparison and its `Close` does not keep the
  connection open (`NotWhileActive` speaks of the comparison). The `Close` of a TCP
  connection is a job: the connection stays open while its loop is busy, and for
  good if a panic drops the job, since the timer is not armed again. `IdleIsClosed`
  bounds the time up to the job only. (`conn.go:100-101`)
* `ReadN` of a WebSocket connection does not test `connected`. An `unPacket` that uses it
  goes on handing over what is left of the message after `OnClose`, packet by packet;
  `AtMostOneLatePacket` is about `Read`. `msgLoop` ends nevertheless (`MsgLoopEnds`).
  (`conn_ws.go:150`)
* A WebSocket message that ends inside a packet loses that end: `msgLoop` keeps no rest
  (`PacketsInOrder` permits it). And once `release` has put the ring buffer back, a TCP
  connection may have filled it, so that a packet begins with a stranger's bytes, or
  `ShiftN` leaves bytes that were handed over; `PacketsInOrder` claims that this takes a
  connection already closed. (`conn_ws.go:76`, `conn_ws.go:115-116`)

## The proofs

TLAPS checks everything in the modules whose name ends in `Proofs`, for all values of
the constants that satisfy the modules' assumptions.

`EventLoopProofs` assumes only that the names of calls, descriptors and
processes are distinct.

* `TypeCorrect`: `Spec => []TypeOK`.
* `WakeUpNotLost`: `Spec => []NoLostWakeup`. The invariant is not inductive: a
  `CheckHandling` that returns without a wake-up relies on a set flag meaning that
  the loop has still to take the queue (`FlagInv`), and a `Wake` that the closed
  eventfd refuses relies on the loop having ended by then (`StopInv`). `WakeInv` is
  the three together.
* `QuietOnceStopped`: `Spec => StoppedIsQuiet`, from the invariant that `stopPc = "done"`
  implies that the loop has ended.
* `ImplementsJobExecutor`: `Spec => ExecutorSpec`, under `pending <- taken \o jobs`. Its
  invariant says that the slice a locked Push has read is still the queue, that the
  holder of the lock is where its program counter says, and that a job is in the
  queue or has run only when its call has pushed it.
* `OnceDespitePanics`: `FaultySpec => []AtMostOnce`. `OnceInv` says that the jobs run,
  taken and queued are three sequences without repetition and without a common
  job, which a panic keeps although it drops jobs; `InjectiveCardinality` turns that
  into the property.
* `CloseWakeNotLost`: `FaultySpec => LastBatch`. `Trigger` and `Close` write to one eventfd, and
  one read empties it. `CloseInv` says that while `Close` waits for a loop that has
  not ended, the eventfd still counts the wake-up or the loop has read it and will look
  for jobs and then at `running` before it polls again, whichever write it was. It is also what
  `QuietDespitePanics` (`FaultySpec => StoppedIsQuiet`) rests on: a panic may not skip
  the loop's end.

`RingBufferProofs` assumes of `CeilToPowerOfTwo` only that the result is positive and
large enough, so it holds for any growth policy.

* `TypeCorrect`: `Spec => []TypeOK`.
* `ImplementsByteFifo`: `Spec => FifoSpec`. `ContentsProperties` shows that
  `LazyReadAll` returns, as its i-th byte, the one at `Position(i)`, across the wrap.
  `MallocProperties` shows that growing moves no byte relative to the others and makes
  room; `CopiesProperties` that one or two copies put the new bytes behind the
  old; `HeadTailFront` and `AdvanceProperties` that a read returns and drops the front.
  From these every call is a step of the queue.
* `GrowthNeeded`: `Spec => GrowsOnlyWhenFull`.

`TCPConnProofs` assumes that the names of calls and replies are distinct, and that
messages, packets and send buffers are not empty. It proves every safety property of
`TCPConn`, for any number of calls, any lengths and any cuts of the stream.

* `ClosedOnce` and `QuietOnceClosed`: `Spec => []OnCloseOnce` and
  `Spec => QuietAfterOnClose`. `ControlInv` is the life of the connection without its
  bytes: `CloseInv` says that the descriptor is open until `handleClose` closes it and
  that `OnClose` was not called before (`onCloses <= 1` alone is not inductive), and
  `EventInv` that events come only after `BindHandler`, so that no late `Store` brings
  a closed connection back to them.
* `OutputInOrder` and `InterestFollowsOutput`: `Spec => []OutboundStream` and
  `Spec => []InterestMatchesOutbound`. They are inductive together with
  `ControlInv`: `handleWrite` asks for EventRead only on an open connection whose
  interest is registered.
* `InputInOrder`: `Spec => []InboundStream`. `SplitFirst` and `SplitBoth` are the step of
  `ShiftN` that takes a packet off the ring buffer alone, or off it and the packet
  buffer together.
* `TypeCorrect`: `Spec => []TypeOK`, the three invariants and the queue's types together.

`WSProofs` assumes that the goroutines are distinct, writers among them, and messages
not empty. Reading and closing:

* `LatePackets`: `Spec => []AtMostOneLatePacket`. `LateInv` adds that after the late packet
  `msgLoop` is past every test of `connected` that could let another one through, and
  unpacks only what `ReadN` has begun with, which is not counted.
* `DoubleClose`: `Spec => []OnCloseTwiceOnlyByOverlap`. `CloseInv` adds that without an
  overlap one goroutine at most is on its way to `OnClose`, and none once it was
  called.
* `PacketOrder`: `Spec => []PacketsInOrder`. `OrderInv` follows the bytes: `StreamInv` says that
  what the library has read and `buffer` are the messages' bytes in order, and
  `PacketInv` that a packet in hand follows what was delivered and `buffer` follows the
  packet, unless a release has emptied it. `DeliveryInv` has the latter until the ring
  buffer is used after `Put`, and `ReleaseInv` that this takes a closed connection.
* `TypeCorrect`: `Spec => []TypeOK`, whose last part says that the ring buffer goes back to
  the pool only when the `websocket.Conn` is closed.
* `LoopEndsSoon`: `ConnSpec => LoopWinds`, the safety half of `MsgLoopEnds`. `LoopWork` is four
  for each byte in `buffer`, for each message that may still come and for each of its
  bytes, since `ReadN` may hand over a packet for each, plus `msgLoop`'s distance from
  its return. On a closed connection each of its steps lowers that, and no step of
  the peer or of a caller raises it, until the ring buffer is used after `Put`, where
  other connections may keep it filled: that case is TLC's (`MsgLoopEnds`), with two
  such uses.

Writing:

* `NilMeansGiven` and `LateWrites`: `WriteSpec => []NilMeansSent` and
  `WriteSpec => []LateOnlyIfBegun`. Both look back to where a writer stood when
  `connected` was cleared; `WriteInv` says what that implies for where it stands now:
  a writer before its second test finds the connection closed, one behind it
  has one message to give away and none after that. `OnlyCleared` is needed for
  it: once cleared, `connected` is not set again.
* `WriteImplementsConn`: `WriteSpec => ConnSpec`, where `ConnSpec` is `WSConn` with a panic that may
  end the program at any time. Every step of a writer, and `msgLoop`'s reply, is a
  stutter of the connection. `ConnInv`, the conjunction of the invariants above, is
  kept by that panic too, so that `WritesDisturbNothing` has `TypeOK`, `PacketsInOrder`,
  `AtMostOneLatePacket` and `OnCloseTwiceOnlyByOverlap` for `WriteSpec`, each with the
  exceptions it states.

`DescriptorsProofs` assumes that strangers, connections and "none" differ and that the
poller is epoll or kqueue.

* `OwnsItsNumber`: `Spec => []OwnDescriptor`. `OwnerInv` says that an open connection's
  number is its own, `ClosingInv` the same of the one that the loop is closing, which
  is not open any more: what keeps a second `unix.Close` of the number away is
  that `handleClose` tests and clears `connected` in one turn of the loop.
* `DeadHandlersComeFromStore`: `Spec => []NoEventToTheDead`. `HandlerInv` says that a
  handler is open, was stored too late, or is about to be removed.
* `InterestFollowsBacklog`: `Spec => []WriteInterest`. `RegInv` says that kqueue's note of an
  interest is never more than reading, so that enabling writing always adds the
  filter; `FreshInv` that a number just given out is not registered and that an
  accepted connection has kept no bytes.
* `ClosedOnlyForAReason`: `Spec => []ClosedForAReason`. `BatchInv` says that an error which a
  batch reports was caused by the peer of the connection that had the number then.
* `TypeCorrect`: `Spec => []TypeOK`.

`ServerProofs` assumes that there is a connect loop and that the names of calls and
connections differ.

* `NoLoopLeft`: `Spec => []LoopsEnd`. `PassInv` says that every loop Stop is past has ended
  or was refused.
* `EveryConnAsked`: `Spec => []CloseAsked`. The hazard is a `BindHandler` after Stop has
  looked at the handlers. `PassInv` has it that no connect loop is looked at before
  the listener loop has ended, and the type invariant that a connection which is
  not bound yet keeps that loop in its handler. What a panic of `OnClose` drops is in
  `dropped`; `QueueInv` is needed because the other panic of a job, the second close of
  `Stopped`, drops jobs too, and is never on a connect loop.
* `SecondStop`: `Spec => SecondStopIsHarmless`, since `Stopped` is closed only together
  with the descriptor.
* `TypeCorrect`: `Spec => []TypeOK`, which the others need.

`IdleTimerProofs` assumes only that the times are natural numbers, a second and
`ConnIdleTime` positive ones.

* `ClosesOnlyIdle`: `Spec => []NotWhileActive`, from the bounds on what `activeTime` may be
  off from the last event.
* `IdleCloses`: `Spec => []IdleIsClosed`. The invariant says that an armed timer is due
  `Idle` after the last event it knew of at the latest, and that time does not pass
  a due timer by. `IdleWSCloses`: for a WebSocket connection, which no job waits for,
  the bound is that of its closing.

`BufferPoolProofs` assumes that the buffers are not `None` or the loop's own.

* `BuffersHaveOneOwner`: `Spec => []OneOwner`, which is inductive once the variables have
  their types: `PutBackInv` is what each call that returns a buffer keeps.
* `PacketsKept`: `Spec => []PacketKeptByLoop`, from the invariant that one connection of a
  loop at most is inside `handleRead`.

The runs of `EventLoop`, `Descriptors` and `Server` leave `TypeOK` to these proofs.

Only model-checked: every liveness property (the prover has no ENABLED or
fairness), those under panics included; `CeilToPowerOfTwo`'s bit arithmetic and that
of `PoolClasses`. `LoopEndsSoon` and `CloseWakeNotLost` are bounds on the steps that are
left; that those steps are taken is fairness, and with it `MsgLoopEnds` and the
end of `Close` are checked by TLC alone.

## What is not modelled

Errors of epoll_wait, of the eventfd and of allocation; `AddWrite` and
`EnableWrite`, which nothing calls; logging; option setters; the goroutine pool,
which nothing uses. EINTR makes `EpollWait` return nothing, which is a stutter.
A write to the eventfd of a closed poller is modelled as failing. A second
`LIMNet.Stop` meets the timing wheel's `Stop` first, which is a library's.
The atomics
and wait groups are thin wrappers of the standard library's. The WebSocket
library is external: `WSWrite` has only that a message is taken, blocks or fails, and
that overlapping writes may panic. The HTTP server's
handshake is a library's, and its `Start` and `Stop` are one step each in `Server`. The
order in which goroutines access the counters of `pool.go` is left out: it changes
how large new buffers are, and which are kept.

## Plan

What is left, in this order:

1. A measure for the event loop after `Close`, like `LoopWork`: how many handlers and
   jobs it still runs.
2. The HTTP server's `Shutdown` with connections in the middle of their handshake.
3. `calibrate` step by step, with goroutines that count meanwhile.
