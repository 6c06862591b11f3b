# A TLA+ development of IOEvent (boost_io_context_server)

IOEvent is a TCP library on top of boost::asio: one `IOLoop` (an `io_context`)
per thread, a `TcpServer` that spreads its connections over a pool of loops, a
`TcpClient`, a thread pool, a timer queue and the buffers and codecs they use.
This directory holds models of its parts, the TLC runs that check them on
small instances and TLAPS proofs for every instance.

## Inventory

| Part | State | Operations | What is hard | What makes it correct |
|---|---|---|---|---|
| `TcpConnection` | `state_`, the output buffer, outstanding `async_read` and `async_write`, callbacks | `send`, `shutdown`, `forceClose` from any thread; completions and `connectEstablished`/`connectDestroyed` on its loop | calls of other threads test and set the unprotected `state_`; posted handlers and completions in any order; who keeps the object alive | output in order and never stranded; one read outstanding; the disconnect reported once; no assertion fails; a closed connection is freed |
| `TcpServer`, `Acceptor` | `connections_`, `nextConnId_` | `newConnection`, `removeConnection`, destructor | removals queued on `baseLoop_` while loops go on, teardown with handlers in flight | the map matches the open connections; one `connectDestroyed` each; teardown ends |
| `IOLoop`, `IOLoopThread`, `IOLoopThreadPool`, `Thread`, `CountDownLatch` | handler queue, `quit_`, `next_`, `loop_`, the latch | `start`, `post`, `dispatch`, `quit`, `run`, `getNextIOLoop`, `stop` | two waits for the new thread, each with its condition variable; `dispatch` runs in place on the loop's thread and posts elsewhere | start ends, with every loop up; handlers in order; balance; no handler of the teardown overtaken by quit |
| `ThreadPool` | `queue_`, `runing_`, mutex, `notFull_`, `notEmpty_` | `post`, `take`, `stop` | lost wake-ups, barging, stop against everything | the bound; no wake-up lost; tasks are taken |
| `Buffer` | vector, `readerIndex_`, `writerIndex_` | append, prepend, retrieve, unwrite, shrink | moving and growing under any mix of calls | it is a queue of bytes; its memory is bounded by its use |
| `TimerQueue`, `Timer` | `timers_`, `activeTimers_`, `cancelingTimers_`, one `steady_timer` | `addTimer`, `cancel`, expiry | callbacks that add and cancel; stale wake-ups; rounding to seconds | the sets agree; every `Timer` deleted once; the loop is woken in time |
| `TcpClient`, `Connector` | `connection_`, `connect_`, `retry_`, connector state, back-off | `connect`, `disconnect`, `stop`, retry | retry timers, posted calls and closes against stop, reconnect and destruction; the connector's states after errors | one attempt or connection at a time; stop is final; retry goes on; no assertion fails |
| `TimerWheel` | slots of linked events, current position | `addTimer`, `cencel`, `tick` | callbacks that change the list being walked; rotations; `CancelId`s of deleted events | the lists stay whole; every timer runs in its tick |
| `LengthHeaderCodec`, `ProtobufCodec`, the connection's input | `inputBuffer_` | `readHeader`, `readBody`, `onMessage`, `send` | connection and codec each read the length at the front of the buffer; what the codec leaves there | messages whole and in order, without delay; room for the next header; `onMessage` returns |

Components meet in three ways: handlers posted to another loop (`closeCallback_`
posts the removal to `baseLoop_`, the server posts `connectDestroyed` to the
connection's loop), shared memory (`state_`, the pool's queue), and
`shared_ptr`s that decide when an object dies. `PROJECT.json` lists, under
"hazards", the lines where this gets difficult.

## Modules

| Module | Models | State and actions |
|---|---|---|
| `TcpConnection` | TcpConnection.cpp, the part of TcpServer that owns a connection | members as variables; a handler of the loop is one step, a call from another thread is one step per access to `state_` (`TestState`, `SetDisconnecting`, `PostSend`, `PostClose`) |
| `TcpServer` | TcpServer.cpp, Accept.cpp, IOLoop(Thread(Pool)).cpp, Thread.cpp, CountDownLatch.h | `start`, `startThread`, `latchWait`, `loopWait` are the steps of the starting thread, `countDown`, `threadFunc` those of the new one; one handler queue per loop, loop 0 is `baseLoop_`; `destroyServer`, `stopNext`, `serverDestroyed` are the steps of `~TcpServer` |
| `ThreadPool` | ThreadPool.cpp | a critical section is a step, a wait splits it; waiters are "wait…" until notified and "woken…" until they have the mutex again |
| `Buffer` | Buffer.cpp | the object as a record, every method an operator on it |
| `ByteQueue` | – | what Buffer promises: a queue of bytes |
| `TimerQueue` | TimerQueue.cpp, Timer.cpp | the sets and the one armed wait; the expiry handler is one step per callback, so that calls made by callbacks come in between |
| `TcpClient` | TcpClient.cpp, Connector.cpp | the connector's members, its outstanding connects and retry timers; connections reduced to their state; a call of another thread is its flags and then its post; `removeConnection` is split before `restart()` |
| `TimerWheel` | TimerWheel.cpp, TimerWheel.h | heads, `pNext_` and `pPrev_` of every event; `tick` is one step per event, and a callback is the time between `run` and `CallbackReturns`, in which the wheel may be called |
| `Delays` | – | what TimerWheel promises: a count-down per timer |
| `Codec` | Codec.cpp, ProtobufCodec.cpp, `readHeader` and `readBody` of TcpConnection.cpp, the integers of Buffer.cpp | composes the operators of `Buffer`; a completed read is a step, a round of the loop in `onMessage` is a step |
| `TcpConnectionProofs`, `ThreadPoolProofs`, `BufferProofs`, `TcpServerProofs`, `TimerQueueProofs`, `TcpClientProofs`, `TimerWheelProofs`, `CodecProofs` | – | theorems about the module each is named after |
| `MC…` | – | the instances TLC checks |

Definitions carry the names of the source; `PROJECT.json` maps each to its
lines. Definitions marked "Faulty" are the same code with a plausible mistake;
they are used only to show that a property notices it.

### Choices worth knowing

- *A completion is one step.* The kernel finishing an operation and the handler
  running are one action that can come at any time; this covers every order of
  handlers on the loop.
- *Outcomes of undefined behaviour.* A `StringPiece` into a dead string, or a
  buffer that moved under an outstanding `async_write`, sends either the right
  bytes or garbage. `addTimer` reading the sequence of a deleted timer returns
  a TimerId that names no timer.
- *Assertions.* The build keeps them: a failing one ends the process
  (`failed`), and the model stops there.
- *Messages* are a sender and a number; bytes appear only in `Buffer` and `Codec`.
- A failed `async_write` may already have handed some bytes to a connection the
  peer has closed; that part is not recorded in `wire`.
- *Threads.* In `TcpConnection` the connection's loop is not `baseLoop_` (a
  server with `setThreadNum` > 0). With a single loop the removal runs in place;
  `TcpServer` covers that case too.
- The program may keep a `TcpConnectionPtr` of its own, so destruction is a
  step of its own that comes some time after the last handler.
- In `TcpClient` a socket that is replaced while its connect is outstanding
  leaves that connect's handler behind (`stale`); the handler works on whatever
  `socket_` is when it runs, as in the code. `disconnect()` is called on the
  loop's thread: the race of a `shutdown()` elsewhere is in `TcpConnection`.
  `stopped` records a `stop()` on the loop; one on another thread can come
  between the test in `removeConnection` and `restart()`, which sets `connect_`
  again. A write of `connect_` inside `restart()`, between its assignment and
  the test two lines later, is not modelled.
- In `TcpServer` a peer that closes after `~TcpServer`'s `connectDestroyed` and
  before the loop's quit runs `handleClose` on a disconnected connection: the
  model ends with `failed = "handleClose"`, the assertion `conn_force_close`
  refutes for another caller.
- `TimerWheel` starts at an undetermined `currentSlotPos_`, as the constructor
  does not set it; one value stands for all that are no slot (`"badSlot"`). The
  `circular_buffer` is constructed with a capacity and indexed like an array,
  which is what it does without Boost's debug assertions. `CancelId`s are
  addresses: the code never compares their sequence number, so a cancel after
  the event ran meets a deleted event (`"deletedEvent"`) or the timer that now
  lives there. With the mutex, a callback that calls the wheel locks it twice
  (`"relock"`).
- In `Codec` an integer is four bytes, most significant first, as in the code, and
  a byte has `Base` values; the run has 4 instead of 256, so that lengths and
  limits are small, scaled so that, as in the code, the longest message does not
  fit into a new buffer. A `size_t` is twice as long as an integer, and sums of
  `size_t` are taken modulo `SizeWords`, as in `makeSpace`. The strings and
  serialised messages that are sent are a parameter: their length with everything
  around it fits into an `int32_t`. So are the negative lengths that are sent.
  The checksum is a sum of the bytes; no property depends on which function it is.
  `LengthHeaderCodec::send` has an empty body, so its frames come from outside.
  The result of `ParseFromArray` is ignored, as in the code. After `shutdown()`
  the connection reads on.
- `Codec` reads past the vector of `inputBuffer_` where the code does. A negative
  length (`EnsureNegative`) fails an assertion, throws from `resize`, or cuts the
  vector to less than `writerIndex_`; then the assertion of `ensureWritableBytes`
  holds and `readBody` reads to behind the vector (`pc = "past"`). A header for which
  there is no room is written behind the vector before `hasWritten` asserts. In both
  cases `readPast` ends the process (`failed = "overrun"`), or the read goes on: what
  is overwritten is undefined behaviour.
- In `TimerQueue` the system clock and the steady clock advance together.

## Runs

| Run | Instance | Shows |
|---|---|---|
| `conn` | 2 threads, all 7 kinds of calls, at most 3 accepted calls; 243,705 states | all properties of `TcpConnection` |
| `conn_force_close` | one `forceClose` | **violation**: a second `handleClose` on a closed connection (assert TcpConnection.cpp:130) |
| `conn_thread_shutdown` | one `shutdown` of another thread | **violation**: destroyed in `kDisconnecting` (assert TcpConnection.cpp:24) |
| `pool` | 3 producers, 3 workers, limits 0, 1 and 2, 5 posts | bound, lost wake-ups on both sides, mutex, tasks taken |
| `pool_stop` | 2 workers | **violation**: an ordinary `stop()` ends in `LOG(FATAL)` (ThreadPool.cpp:108) |
| `server` | 0, 1 or 3 pool threads, 4 connections; 66,831 states | start-up, balance, map, single destruction, order and end of the teardown |
| `buffer` | bytes {0, 1}, prepend space 2, initial size 2, calls of up to 2 bytes, vectors up to 9; 212,608 states | indices, room, growth, refinement of `ByteQueue` |
| `timers` | 2 timers, times 0 to 3, a second of 2 ticks, one-shot and repeating; 518,234 states | sets, ownership, cancellation, arming in time, every due timer runs |
| `wheel` | 3 slots, 3 timers, timeouts 0, 3 and 5; 628,517 states | the lists stay whole under callbacks; refinement of `Delays`, and every timer runs |
| `codec` | 3 frames of every kind, either codec; 213,544 states | indices and room for the body, order, no delay, room for the header, `onMessage` returns |
| `client` | 4 calls, 2 connections, delays 1 to 3, retry enabled or not; 258,538 states | one effort at a time, stop is final, safety with one `connect()`, back-off range, only unretried errors end the attempts |
| `client_reconnect` | 3 calls, 2 connections | **violation**: a reconnect that times out is not tried again (Connector.cpp:91, README line 10) |

Why the bounds are enough. *conn*: three accepted calls are a send while a
write is outstanding plus a close, from three different actors. *pool*: three
of each are needed for one blocked, one woken and one newly arrived at the same
time; five posts fill and refill a queue of two. *server*: four connections on
three threads wrap `next_`. *buffer*: the vector can be grown twice and moved,
and the prepend space is consumed and restored. *timers*: two timers give a
batch in which one callback cancels the other or itself, and a wake-up that is
stale. *client*: four calls are a connect, a stop, a connect and a disconnect,
two connections one reconnect, and three failures reach the cap of the delay.
*wheel*: three events in a slot are one to run with a neighbour on each side; 0,
3 and 5 are less than a tick, a whole turn, and a turn and a part. *codec*: three
frames are one that leaves something in the buffer, one that is read behind it
and one that is read late; bodies go from none to one more than the limit, and
the three negative lengths are one after which bytes are only moved, one that cuts
the vector and one that asks for more than a vector can have.
Runs say `CHECK_DEADLOCK FALSE` where the program may stop: the
connection destroyed or aborted, the bound on calls reached.

`OneEffort` and `OneConnectIsSound` speak of programs that
call `connect()` once. A second `connect()` while the first is under way
replaces the socket, and on a connected client it fails the assertion at
Connector.cpp:120; nothing in the repository says whether it may be called.

The properties of `TcpConnection` that speak of `used` hold for programs that
keep to certain calls: `ReadsUntilReported` needs that only the loop's thread
closes the connection, `OrderlyCloseIsSafe` also that
`forceClose` is not used. The two violation runs show that these conditions
are necessary.

The codecs' properties are about what the other side sends. With good frames
only, nothing is delayed and no assertion is met. An empty message stays in
`LengthHeaderCodec`'s buffer until more arrives, and from then on every message
is one frame late (`AtMostOneBehind`); a long message behind it can leave no
room for the next header (`readPast`). `TypeOK` therefore promises less than that
every read stays inside the vector: a body does unless its length is negative, a
header does by `GoodTrafficIsSafe` only. A refused frame is never taken out of the buffer, so
nothing behind it is delivered. A protobuf frame of an unknown type or with a
wrong checksum makes `onMessage` spin, which is why `OnMessageReturns` leaves
those out.

## Fairness

- *Loops run*: weak fairness of the handlers of a loop, and of the completions
  of its outstanding operations. `io_context::run` does nothing else. That a
  write completes assumes that the peer reads or closes; only
  `ShutdownCompletes` and `PeerCloseFreesConnection` rest on it.
- *Start-up*: the starting thread goes on when it is woken, and a created thread
  gets to run. `StartAndTeardownEnd` holds without any spurious wake-up.
- *Ticks*: `tick()` is called again and again and its callbacks return; a
  `~TimerWheel` that has begun ends. Only the liveness half of
  `ImplementsDelays` rests on it.
- *Codec*: a handler that runs `onMessage` goes on with its loop.
- *Calls finish*: a thread that passed its test of `state_` goes on to the
  post; there is no blocking in between.
- *Workers*: a worker that can run does; tasks return, and the mutex does not
  starve one thread for ever.
- *Time* advances and callbacks return.
- Nothing is assumed of peers, of users (they may never send, stop or close)
  or of spurious wake-ups.

## Proofs

All theorems hold for every value of the constants, that is for any number of
threads, calls, connections, workers, timers, slots, limits, bytes and sizes.
A safety theorem is proved from an inductive invariant `Inv` of its module; what
`Inv` adds to the property is what the property needs to survive a step.

- `TcpConnectionProofs`. The inductive invariant has two halves. `OutputOK`
  ties the outstanding write to the buffer: it covers a prefix, and until a
  write fails it is absent exactly when the buffer is empty; it also gives the
  sequences their types. The life-cycle half follows a connection through its
  handlers: in which order `connectEstablished`, the read, the removal and
  `connectDestroyed` can be pending at all, in terms of `state`, `reading`,
  `owner` and `removals`. It is conditional on the kinds of calls made, as the
  properties are: one part for programs in which only the loop writes `state_`,
  a stronger one for those that also avoid `forceClose`. The properties are not
  inductive by themselves: that `connectDestroyed` reports nothing a second
  time needs that it is only ever queued after the state became
  `kDisconnected`.

  `OutputInOrder` needs a second invariant, `Order`, on top. A message is in one
  of three places, on the wire, in the buffer or in a posted handler, so
  `Ordered` speaks of `wire \o outputBuffer` and of the queue behind it: the
  numbers of one sender increase through both (`Numbered`), none is missing
  before one that is there (`NoGap`), and until the connection is disconnected
  none is missing at all (`NoneLost`). The last one is what makes a gap
  impossible: messages are dropped only in `kDisconnected`, and that state is
  never left, unless another thread's `shutdown()` or `forceClose()` overwrites
  it, which is why the property excludes those. That a shut socket leaves nothing
  of the loop behind follows from `ShutInv`: `state_` leaves `kConnected` before
  the shutdown is posted.
- `TcpServerProofs`. Four parts. `StartInv` says how far the started thread is
  at each wait of `start()`. `RobinInv` counts connections: the loops up to
  `next_` have one more than those behind it. `QueueInv`, `ConnInv`, `UpInv` and
  `DownInv` say which handlers may be queued where: each at most once, on the
  loop of its connection, `connectEstablished` before `connectDestroyed` and
  both before quit, a removal exactly for the disconnected connections that are
  still in the map, and, once `~TcpServer` has begun, a `connectDestroyed` for
  every connection that is open. Lemmas about appending to and taking from a
  queue carry them over a step. The last part is `DisconnectedBeforeQuit` itself.
- `ThreadPoolProofs`. The invariant counts: while somebody is blocked on
  `notEmpty_`, tasks are matched by woken workers; while somebody is blocked on
  `notFull_`, free places are matched by woken producers; and the queue is
  bounded because a producer pushes only after a test under the same mutex.
  The proof of each action adjusts cardinalities of finite sets.
- `BufferProofs`. A lemma per method says what it does to the readable bytes
  and to the size of the vector. The invariant adds that the vector never gets
  smaller than a new one, which `retrieveAll` needs to reset its indices. The
  refinement theorem maps the readable bytes to the abstract queue: every step
  is a step of the queue, or leaves it alone.
- `TimerQueueProofs`. `Owners` says that every timer created is in exactly one
  place: the handler that will add it, the sets, the batch whose callbacks run,
  or freed; a cardinality argument turns that into `OneOwnerInBothSets`. `CancelInv` says that
  a cancelled timer is freed or noted in `cancelingTimers_`, so that `reset`
  does not repeat it. `ArmedInTime` is inductive with these; its lemmas are about
  the earliest of a set of times and the rounding of the wait.
- `TcpClientProofs`. `OneInv` holds until a second `connect()`: connects, retry
  timers, restarts and open connections are at most one together, and `state_`
  says which. `StopInv` says that after `stop()` on the loop neither
  `connect_` nor a pending restart is left, from which `StopIsFinal`, an
  action property, follows for each step.
- `TimerWheelProofs`. Lists are pointers, so the invariant says that every
  living event is the head of its slot or behind a living one, that links agree
  in both directions, and that no list is a circle: the events can be numbered
  upwards along `pNext_`. During a tick, the events already met come first in the
  slot (`Walk`), which keeps the walk right when callbacks add and cancel. That
  `~TimerWheel` leaks none and that a tick misses none is an argument by the least
  number. `WheelKeepsTime` maps an event's rotation and its distance from the
  current slot to the count-down of `Delays`: every step of the wheel is a step of
  `Delays` or leaves it alone. It is the safety half of `ImplementsDelays`.
- `CodecProofs`. The lemmas of `BufferProofs` are used for `inputBuffer_`; others
  say that `hostToNetwork` and `networkToHost` are inverse to each other and that
  what the other side writes are frames (`IsFrame`), `parse` undoing `Body`.
  `Delivery` then says that the bytes in the buffer and on the wire together are
  exactly the frames that were sent and not delivered (`Frames`, a sequence of
  cuts): reading moves bytes and leaves them what they are, and the length at
  the front is always that of the first of these frames. From this follows
  `DeliveredInOrder`, whether or not the connection itself is in step with the
  frames. `Control` is about that: while only messages are sent, the buffer holds
  nothing, a header, or a frame when it is looked at, and, once an empty string was
  sent, one header too many (`Position`). `AtMostOneBehind` and
  `GoodTrafficIsSafe` are consequences of the two together. Once a negative length has
  cut the vector its contents are gone; `TypeCorrect` and `Delivery` speak of the
  buffer's contents while it is `Whole`, and nothing is delivered after that.

Assumptions are the named `ASSUME`s of the modules: finite sets of producers and
workers and of numbers of pool threads, bounds and limits that are natural
numbers, at least one slot, a second of at least one tick, an initial retry delay
not above its cap, 0 among the bytes, and threads whose names differ from
those of the loop and of freed memory. For `Codec`: a header fits in front of a
new buffer and into it, a body of the least length is not too long for
`ProtobufCodec`, what is sent has a length that an integer can hold, and the
negative lengths are those of an integer. Each is
true of the constants in the code.

`MethodsActAsQueue`, what every method of `Buffer` does to the readable bytes, is
only proved: the run of the refinement covers the same ground.

Only model-checked: all liveness properties, with the liveness half of
`ImplementsDelays`; fairness is out of the prover's reach. No proof needs
induction over data: an integer on the wire has four bytes, and the checksum is a
cardinality.

Every leaf cites few enough facts for its prover to find it in a second or so;
the about thirty that name a time limit (`SMTT`, `ZenonT`) are those where this depends
most on the machine. A leaf that becomes slow after a change is better split than
given more time.

## Not modelled

A `quit()` of a pool's loop by the user; tasks of a `ThreadPool` that post to
their own pool; the contents of protobuf messages; use of a `ThreadPool`, `Acceptor` or `TimerQueue` after its
destruction; `disconnect()` and `~TcpClient` on threads other than the loop's;
the template `postFuture`, which does not compile when
instantiated; logging, string views, the singleton, the dispatcher and `IOTimer`,
which hold no protocol state.

## Plan

1. Done: `TcpConnection`, `ThreadPool`, `TcpServer` with its start-up, `Buffer`
   with `ByteQueue`, `TimerQueue`, `TcpClient` with `Connector`, `TimerWheel` with
   `Delays`, `Codec`.
2. Done: every safety property the runs check, and the refinements of `ByteQueue`
   and `Delays`, proved.
