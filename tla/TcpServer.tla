------------------------------ MODULE TcpServer ------------------------------
(***************************************************************************)
(* TcpServer: the start of the pool's threads (IOLoopThread, Thread and    *)
(* CountDownLatch), the Acceptor's newConnection, the round-robin choice   *)
(* of IOLoopThreadPool, the loops and their handler queues, the map        *)
(* connections_, and the teardown by ~TcpServer and ~IOLoopThreadPool.     *)
(*                                                                         *)
(* Loop 0 is baseLoop_, loops 1..numThreads are the pool's.  A connection  *)
(* is reduced to its state_, its outstanding read and the shared_ptrs that *)
(* keep it alive; module TcpConnection has the rest of it.                 *)
(***************************************************************************)
EXTENDS Naturals, Sequences, FiniteSets, SequencesExt

CONSTANTS
  ThreadNums,  \* the values setThreadNum may have been given
  MaxConns     \* bound: connections accepted

ASSUME ThreadNumsAssumption == ThreadNums \subseteq Nat /\ IsFiniteSet(ThreadNums)
ASSUME MaxConnsAssumption == MaxConns \in Nat

VARIABLES
  numThreads,   \* numThreads_
  next,         \* next_ of the pool
  nextConnId,   \* nextConnId_
  connections,  \* connections_: the ids of the connections in the map
  loopOf,       \* loop_ of each connection accepted
  state,        \* state_ of each connection accepted
  reading,      \* connections with an outstanding async_read
  gone,         \* connections destroyed
  queue,        \* the handlers each loop has not run yet, in order
  thread,       \* each pool thread: "none", "created", "counted" after countDown(),
                \* "looping" with loop_ set, "ended"
  server,       \* "new"; "creating", "latch", "loop" in start(); "started"; "stopping" in
                \* ~TcpServer; "destroyed"
  starting,     \* the pool's thread that start() starts now: the size of threads_
  asleep,       \* start() sleeps in a condition_.wait
  stopping,     \* the pool's thread that ~IOLoopThreadPool stops now, 0 before the first
  destroyed,    \* how often connectDestroyed was bound for each connection
  failed        \* the assertion or dangling use that ended the process, or "none"

poolVars == <<numThreads, next, nextConnId, loopOf>>
startVars == <<starting, asleep>>
stopVars == <<thread, server, stopping>>
vars == <<poolVars, startVars, stopVars, connections, state, reading, gone, queue, destroyed, failed>>

Ids == 1..MaxConns
Loops == UNION {0..n : n \in ThreadNums}
Accepted == 1..(nextConnId - 1)
Open == {"kConnected", "kDisconnecting"}
Handlers == {"connectEstablished", "connectDestroyed", "removeConnection", "quit"}
Task(h, c) == [run |-> h, conn |-> c]
Post(l, task) == queue' = [queue EXCEPT ![l] = Append(@, task)]

InStart == {"creating", "latch", "loop"}

\* A loop runs its handlers; baseLoop_'s thread is busy while it is in start() or
\* ~TcpServer.
Runs(l) ==
  failed = "none" /\ IF l = 0 THEN server \notin InStart \cup {"stopping"} ELSE thread[l] = "looping"

-----------------------------------------------------------------------------
Init ==
  /\ numThreads \in ThreadNums
  /\ next = 0 /\ nextConnId = 1
  /\ connections = {} /\ reading = {} /\ gone = {}
  /\ loopOf = [c \in Ids |-> 0]
  /\ state = [c \in Ids |-> "kConnecting"]
  /\ destroyed = [c \in Ids |-> 0]
  /\ queue = [l \in Loops |-> <<>>]
  /\ thread = [l \in Loops |-> "none"]
  /\ server = "new" /\ starting = 0 /\ asleep = FALSE /\ stopping = 0
  /\ failed = "none"

-----------------------------------------------------------------------------
(* TcpServer::start and IOLoopThreadPool::run, on baseLoop_'s thread, and   *)
(* what the new thread does meanwhile.                                      *)

otherVars == <<poolVars, stopping, connections, state, reading, gone, queue, destroyed, failed>>
Becomes(l, phase) == thread' = [thread EXCEPT ![l] = phase]

start ==
  /\ server = "new" /\ server' = "creating"
  /\ UNCHANGED <<thread, startVars, otherVars>>

\* IOLoopThread::start and Thread::start up to latch_.wait(); after the last thread
\* accept_->start().
startThread ==
  /\ server = "creating"
  /\ \/ /\ starting < numThreads
        /\ starting' = starting + 1 /\ Becomes(starting + 1, "created") /\ server' = "latch"
     \/ starting = numThreads /\ server' = "started" /\ UNCHANGED <<starting, thread>>
  /\ UNCHANGED <<asleep, otherVars>>

\* Waiting under the mutex for a condition: test it, go on or sleep until woken.
Await(here, condition, next_) ==
  /\ server = here /\ ~asleep
  /\ \/ condition /\ server' = next_ /\ UNCHANGED asleep
     \/ ~condition /\ asleep' = TRUE /\ UNCHANGED server
  /\ UNCHANGED <<thread, starting, otherVars>>

latchWait == Await("latch", thread[starting] # "created", "loop")

\* Faulty: goes on when it is woken without testing loop_ again.
loopWaitOnce ==
  /\ server = "loop"
  /\ \/ thread[starting] = "looping" /\ server' = "creating" /\ UNCHANGED asleep
     \/ thread[starting] # "looping" /\ asleep' = ~asleep
        /\ server' = IF asleep THEN "creating" ELSE server
  /\ UNCHANGED <<thread, starting, otherVars>>

loopWait == Await("loop", thread[starting] = "looping", "creating")

\* A wait may end without a notification.
SpuriousWakeup == asleep /\ asleep' = FALSE /\ UNCHANGED <<stopVars, starting, otherVars>>

\* Wakes start() if it sleeps in this wait of this thread.
notify(l, here) == asleep' = (asleep /\ ~(server = here /\ starting = l))

\* Faulty: wakes nobody.
countDownSilent(l) ==
  /\ thread[l] = "created" /\ Becomes(l, "counted")
  /\ UNCHANGED <<server, startVars, otherVars>>

\* runInThread: tid_ is set and the latch opens.
countDown(l) ==
  /\ thread[l] = "created" /\ Becomes(l, "counted") /\ notify(l, "latch")
  /\ UNCHANGED <<server, starting, otherVars>>

\* threadFunc: the loop exists, and is run.
threadFunc(l) ==
  /\ thread[l] = "counted" /\ Becomes(l, "looping") /\ notify(l, "loop")
  /\ UNCHANGED <<server, starting, otherVars>>

-----------------------------------------------------------------------------
(* newConnection.                                                           *)

\* Faulty: next_ wraps one too late.
getNextIOLoopLate ==
  IF numThreads = 0 THEN <<0, next>>
  ELSE <<next + 1, IF next + 1 > numThreads THEN 0 ELSE next + 1>>

\* Faulty: next_ wraps one too early.
getNextIOLoopEarly ==
  IF numThreads = 0 THEN <<0, next>>
  ELSE <<next + 1, IF next + 2 >= numThreads THEN 0 ELSE next + 1>>

\* The loop to use and the new value of next_.
getNextIOLoop ==
  IF numThreads = 0 THEN <<0, next>>
  ELSE <<next + 1, IF next + 1 >= numThreads THEN 0 ELSE next + 1>>

\* Faulty: does not enter the connection into connections_.
registerNothing(c) == UNCHANGED connections

register(c) == connections' = connections \cup {c}

\* dispatch runs connectEstablished in place when the connection stays on baseLoop_.
newConnection ==
  LET c == nextConnId
      l == getNextIOLoop[1] IN
  /\ c \in Ids
  /\ next' = getNextIOLoop[2]
  /\ nextConnId' = c + 1
  /\ loopOf' = [loopOf EXCEPT ![c] = l]
  /\ register(c)
  /\ \/ /\ l = 0
        /\ state' = [state EXCEPT ![c] = "kConnected"]
        /\ reading' = reading \cup {c}
        /\ UNCHANGED queue
     \/ /\ l # 0
        /\ Post(l, Task("connectEstablished", c))
        /\ UNCHANGED <<state, reading>>
  /\ UNCHANGED <<numThreads, gone, startVars, stopVars, destroyed, failed>>

\* The accept handler on baseLoop_.  It always accepts again, so it stays enabled; an error
\* only closes the new socket and changes nothing here.
accept == Runs(0) /\ server = "started" /\ newConnection

-----------------------------------------------------------------------------
(* Closing a connection.                                                    *)

\* Faulty: leaves the connection in connections_.
removeConnectionKeeps(c, q) ==
  /\ queue' = [q EXCEPT ![loopOf[c]] = Append(@, Task("connectDestroyed", c))]
  /\ destroyed' = [destroyed EXCEPT ![c] = @ + 1]
  /\ UNCHANGED <<connections, failed>>

\* TcpServer::removeConnectionInThisThread, run by baseLoop_ when the queues are q.
removeConnectionInThisThread(c, q) ==
  LET erased == server # "destroyed" /\ c \in connections IN
  /\ connections' = connections \ {c}
  /\ queue' = IF erased
              THEN [q EXCEPT ![loopOf[c]] = Append(@, Task("connectDestroyed", c))]
              ELSE q
  /\ destroyed' = IF erased THEN [destroyed EXCEPT ![c] = @ + 1] ELSE destroyed
  /\ failed' = CASE erased -> failed
                 [] server = "destroyed" -> "danglingServer"
                 [] OTHER -> "removeConnection"

\* closeCallback_: dispatch runs the removal in place on baseLoop_ and posts it otherwise.
removeConnection(c) ==
  \/ loopOf[c] = 0 /\ removeConnectionInThisThread(c, queue)
  \/ /\ loopOf[c] # 0
     /\ Post(0, Task("removeConnection", c))
     /\ UNCHANGED <<connections, destroyed, failed>>

\* A read ends with an error: the peer closed.  handleClose tells the server.
ReadFailed(c) ==
  /\ c \in reading /\ Runs(loopOf[c])
  /\ reading' = reading \ {c}
  /\ \/ /\ state[c] \in Open
        /\ state' = [state EXCEPT ![c] = "kDisconnected"]
        /\ removeConnection(c)
     \/ /\ state[c] \notin Open
        /\ failed' = "handleClose"
        /\ UNCHANGED <<state, connections, queue, destroyed>>
  /\ UNCHANGED <<poolVars, startVars, stopVars, gone>>

\* A handler of the connection's loop calls shutdown().
shutdown(c) ==
  /\ c \in Accepted /\ Runs(loopOf[c]) /\ state[c] = "kConnected"
  /\ state' = [state EXCEPT ![c] = "kDisconnecting"]
  /\ UNCHANGED <<poolVars, startVars, stopVars, connections, reading, gone, queue, destroyed, failed>>

\* ~TcpConnection, when no shared_ptr to it is left.
Destroy(c) ==
  /\ failed = "none"
  /\ c \in Accepted \ (connections \cup reading \cup gone)
  /\ \A l \in Loops : \A i \in 1..Len(queue[l]) : queue[l][i].conn # c
  /\ gone' = gone \cup {c}
  /\ failed' = IF state[c] = "kDisconnected" THEN failed ELSE "destructor"
  /\ UNCHANGED <<poolVars, startVars, stopVars, connections, state, reading, queue, destroyed>>

-----------------------------------------------------------------------------
(* A loop runs the handler at the head of its queue.                        *)

connectDestroyed(c) ==
  state' = IF state[c] = "kConnected" THEN [state EXCEPT ![c] = "kDisconnected"] ELSE state

\* After run() has returned the loop is destroyed, with the handlers it still holds.
quitInThisThread(l) ==
  /\ Becomes(l, "ended")
  /\ queue' = [queue EXCEPT ![l] = <<>>]
  /\ reading' = {c \in reading : loopOf[c] # l}

Run(l) ==
  /\ Runs(l) /\ queue[l] # <<>>
  /\ LET task == Head(queue[l])
         c == task.conn
         rest == [queue EXCEPT ![l] = Tail(@)] IN
     \/ /\ task.run = "connectEstablished"
        /\ queue' = rest
        /\ state' = [state EXCEPT ![c] = "kConnected"]
        /\ reading' = reading \cup {c}
        /\ failed' = IF state[c] = "kConnecting" THEN failed ELSE "connectEstablished"
        /\ UNCHANGED <<thread, connections, destroyed>>
     \/ /\ task.run = "connectDestroyed"
        /\ queue' = rest
        /\ connectDestroyed(c)
        /\ UNCHANGED <<thread, reading, connections, destroyed, failed>>
     \/ /\ task.run = "removeConnection"
        /\ removeConnectionInThisThread(c, rest)
        /\ UNCHANGED <<thread, state, reading>>
     \/ /\ task.run = "quit"
        /\ quitInThisThread(l)
        /\ UNCHANGED <<state, connections, destroyed, failed>>
  /\ UNCHANGED <<poolVars, startVars, server, stopping, gone>>

-----------------------------------------------------------------------------
(* Teardown, on baseLoop_'s thread.                                         *)

\* The body of ~TcpServer: connectDestroyed for every connection of the map, in place
\* for those of baseLoop_.  The map is ordered by the connections' names, which say
\* nothing about the order of the handlers: any order stands for it.
destroyServer ==
  LET Of(l) == SetToSeq({c \in connections : loopOf[c] = l})
      Bound(l) == [i \in 1..Len(Of(l)) |-> Task("connectDestroyed", Of(l)[i])] IN
  /\ Runs(0) /\ server \in {"new", "started"}
  /\ server' = "stopping"
  /\ connections' = {}
  /\ queue' = [l \in Loops |-> IF l = 0 THEN queue[l] ELSE queue[l] \o Bound(l)]
  /\ state' = [c \in Ids |->
       IF c \in connections /\ loopOf[c] = 0 /\ state[c] = "kConnected"
       THEN "kDisconnected" ELSE state[c]]
  /\ destroyed' = [c \in Ids |-> IF c \in connections THEN destroyed[c] + 1 ELSE destroyed[c]]
  /\ UNCHANGED <<poolVars, startVars, thread, stopping, reading, gone, failed>>

Joined == stopping = 0 \/ thread[stopping] = "ended"

\* Faulty: stops the io_context at once instead of posting quitInThisThread.
stopNextAtOnce ==
  /\ failed = "none" /\ server = "stopping" /\ Joined /\ stopping < starting
  /\ stopping' = stopping + 1
  /\ quitInThisThread(stopping + 1)
  /\ UNCHANGED <<poolVars, startVars, server, connections, state, gone, destroyed, failed>>

\* ~IOLoopThreadPool stops one thread after the other: quit() posts quitInThisThread,
\* join() waits for the loop to end.
stopNext ==
  /\ failed = "none" /\ server = "stopping" /\ Joined /\ stopping < starting
  /\ stopping' = stopping + 1
  /\ Post(stopping + 1, Task("quit", 0))
  /\ UNCHANGED <<poolVars, startVars, thread, server, connections, state, reading, gone, destroyed, failed>>

serverDestroyed ==
  /\ failed = "none" /\ server = "stopping" /\ Joined /\ stopping = starting
  /\ server' = "destroyed"
  /\ UNCHANGED <<poolVars, startVars, thread, stopping, connections, state, reading, gone, queue, destroyed, failed>>

-----------------------------------------------------------------------------
Startup == startThread \/ latchWait \/ loopWait
Teardown == stopNext \/ serverDestroyed

Next ==
  \/ start \/ Startup \/ SpuriousWakeup
  \/ \E l \in Loops : countDown(l) \/ threadFunc(l)
  \/ accept
  \/ \E c \in Ids : ReadFailed(c) \/ shutdown(c) \/ Destroy(c)
  \/ \E l \in Loops : Run(l)
  \/ destroyServer
  \/ Teardown

(* Every thread gets on with its start and every loop keeps running its     *)
(* handlers; the thread in start() goes on when woken, and the thread in    *)
(* ~TcpServer once join() returns.  Clients and users owe nothing, and no   *)
(* wake-up comes by itself.                                                 *)
Fairness ==
  /\ WF_vars(Startup) /\ \A l \in Loops : WF_vars(countDown(l) \/ threadFunc(l))
  /\ \A l \in Loops : WF_vars(Run(l))
  /\ \A c \in Ids : WF_vars(Destroy(c))
  /\ WF_vars(Teardown)

Spec == Init /\ [][Next]_vars
FairSpec == Spec /\ Fairness

-----------------------------------------------------------------------------
(* Properties.                                                              *)

\* Every variable holds a value of the member it stands for; next_ always indexes
\* io_contexts_, so that getNextIOLoop reads inside the vector.
TypeOK ==
  /\ numThreads \in ThreadNums
  /\ next \in Nat /\ (numThreads > 0 => next < numThreads)
  /\ nextConnId \in 1..(MaxConns + 1)
  /\ connections \subseteq Accepted /\ reading \subseteq Accepted /\ gone \subseteq Accepted
  /\ loopOf \in [Ids -> 0..numThreads]
  /\ state \in [Ids -> {"kDisconnected", "kConnecting"} \cup Open]
  /\ destroyed \in [Ids -> Nat]
  /\ queue \in [Loops -> Seq([run : Handlers, conn : 0..MaxConns])]
  /\ thread \in [Loops -> {"none", "created", "counted", "looping", "ended"}]
  /\ server \in {"new", "started", "stopping", "destroyed"} \cup InStart
  /\ starting \in 0..numThreads /\ stopping \in 0..starting /\ asleep \in BOOLEAN
  /\ failed \in {"none", "connectEstablished", "handleClose", "removeConnection", "destructor",
                 "danglingServer"}

OnLoop(l) == {c \in Accepted : loopOf[c] = l}

\* The pool's loops get equally many connections, give or take one, and baseLoop_ gets
\* all of them or none (getNextIOLoop).
RoundRobinBalanced ==
  /\ \A l, m \in 1..numThreads : Cardinality(OnLoop(l)) <= Cardinality(OnLoop(m)) + 1
  /\ numThreads > 0 => OnLoop(0) = {}

\* start() goes on only when the thread it started has set tid_ and its loop_, whatever
\* wakes it: afterwards every loop in io_contexts_ exists and runs (the assertions of
\* Thread::start and IOLoopThreadPool::run; CountDownLatch::wait, IOLoopThread::start).
LoopsAreUp ==
  /\ server = "loop" => thread[starting] \in {"counted", "looping"}
  /\ server \in {"creating", "started"} => \A l \in 1..starting : thread[l] = "looping"
  /\ server = "started" => starting = numThreads

Removals(c) == Cardinality({i \in 1..Len(queue[0]) : queue[0][i] = Task("removeConnection", c)})

\* Until ~TcpServer, connections_ holds a connection exactly as long as it is open or its
\* one removal is queued, so nothing is forgotten, nothing is removed twice, and no
\* assertion fails; connectDestroyed is bound at most once for a connection, also when
\* ~TcpServer meets one whose removal is queued (newConnection, handleClose,
\* removeConnectionInThisThread, ~TcpServer; TcpConnection.h: it may only be called once).
MapMatchesConnections ==
  /\ \A c \in Ids : destroyed[c] <= 1
  /\ server = "started" =>
    /\ failed = "none"
    /\ \A c \in Accepted :
         /\ Removals(c) = (IF c \in connections /\ state[c] = "kDisconnected" THEN 1 ELSE 0)
         /\ state[c] # "kDisconnected" => c \in connections

\* When a loop of the pool has ended, every connection of it has been reported as
\* disconnected or was shutting down: connectDestroyed runs before quitInThisThread
\* (~TcpServer, IOLoop::quit, IOLoopThread::stop).
DisconnectedBeforeQuit ==
  \A l \in {m \in Loops : thread[m] = "ended"} : \A c \in OnLoop(l) :
    state[c] \notin {"kConnecting", "kConnected"}

\* start() returns, and so does ~TcpServer: no wake-up is lost between the thread that
\* waits and the one it waits for, and no thread that is joined waits for the joining one
\* (CountDownLatch, IOLoopThread::start, IOLoopThread::stop).
StartAndTeardownEnd ==
  /\ server \in InStart ~> server = "started"
  /\ server = "stopping" ~> (server = "destroyed" \/ failed # "none")

\* A connection that is closed while the server runs is destroyed (handleClose to
\* connectDestroyed).
ClosedAreFreed ==
  \A c \in Ids :
    (c \in Accepted /\ state[c] = "kDisconnected") ~> (c \in gone \/ server # "started")
=============================================================================
