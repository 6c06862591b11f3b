------------------------------ MODULE TcpClient ------------------------------
(***************************************************************************)
(* A TcpClient and its Connector on one loop: connecting, retrying with a  *)
(* growing delay, stopping, reconnecting after a close, and ~TcpClient.    *)
(*                                                                         *)
(* Handlers of the loop are one step each; removeConnection is two,        *)
(* because other threads may write connect_ between its test of the        *)
(* client's connect_ and restart().  Another thread's call is one step for *)
(* the flags and one for the post.  Connections are reduced to their       *)
(* state_ and their outstanding read; module TcpConnection has the rest.   *)
(***************************************************************************)
EXTENDS Naturals, Sequences, FiniteSets

CONSTANTS
  MaxCalls,           \* bound: connect(), stop() and disconnect() calls
  MaxConns,           \* bound: connections established
  kInitRetryDelayMs,
  kMaxRetryDelayMs

ASSUME BoundsAssumption == MaxCalls \in Nat /\ MaxConns \in Nat
ASSUME DelayAssumption ==
  kInitRetryDelayMs \in Nat /\ kMaxRetryDelayMs \in Nat /\ kInitRetryDelayMs <= kMaxRetryDelayMs

VARIABLES
  \* the Connector
  connectFlag,  \* connect_
  state,        \* state_
  sock,         \* socket_: "open" or "closed"; a socket moved from is closed
  op,           \* the async_connect on socket_: "none", "pending", or its result
  stale,        \* those on earlier sockets, whose handlers have not run
  timers,       \* retry timers that have not fired
  delay,        \* retryDelayMs_
  \* the TcpClient
  client,       \* "here", "gone" after ~TcpClient
  wanted,       \* connect_
  retryOn,      \* retry_, set by enableRetry() before the first connect()
  connection,   \* connection_, 0 for none; after ~TcpClient, as it was then
  conn,         \* state_ of each connection
  made,         \* connections made so far
  restarting,   \* "yes" between the test in removeConnection and restart()
  \* the loop, the other thread, and history
  queue,        \* posted handlers: "start" or "stop"
  call,         \* the post another thread is about to make, or "none"
  calls, connects,
  errors,       \* "yes" once an error that is not retried has occurred
  stopped,      \* "yes" after stop() on the loop, until connect()
  failed        \* the assertion or dangling use that ended the process, or "none"

connectorVars == <<connectFlag, state, sock, op, stale, timers, delay>>
connVars == <<connection, conn, made>>
userVars == <<wanted, calls, connects, stopped>>
vars == <<connectorVars, connVars, userVars, client, retryOn, restarting, queue, call, errors, failed>>

Ids == 1..MaxConns
Results == {"ok", "again", "error"}
Open == {"kConnected", "kDisconnecting"}
Lesser(a, b) == IF a <= b THEN a ELSE b
Live == failed = "none"

\* The loop's thread is between two handlers.
Free == Live /\ restarting = "no"

\* Something still holds a shared_ptr to the Connector.
Held == client = "here" \/ op # "none" \/ stale # <<>> \/ timers > 0

-----------------------------------------------------------------------------
Init ==
  /\ connectFlag = "no" /\ state = "kDisconnected"
  /\ sock = "closed" /\ op = "none" /\ stale = <<>>
  /\ timers = 0 /\ delay = kInitRetryDelayMs
  /\ client = "here" /\ wanted = "no" /\ retryOn \in {"yes", "no"}
  /\ connection = 0 /\ conn = [c \in Ids |-> "none"] /\ made = 0
  /\ restarting = "no" /\ queue = <<>> /\ call = "none"
  /\ calls = 0 /\ connects = 0
  /\ errors = "no" /\ stopped = "no" /\ failed = "none"

-----------------------------------------------------------------------------
(* The Connector.                                                           *)

\* The result of an operation whose socket is closed or replaced.
Aborted(o) == IF o = "pending" THEN "error" ELSE o

\* socket_ = Socket(...) aborts what was outstanding on the old one.
connect ==
  /\ stale' = IF op = "none" THEN stale ELSE Append(stale, Aborted(op))
  /\ op' = "pending" /\ sock' = "open"

\* o is the operation on socket_ once the handler that calls this has been taken away.
close(o) == sock' = "closed" /\ op' = Aborted(o)

\* Faulty: does not cap the delay.
retryUncapped(o, d, n) ==
  /\ close(o) /\ state' = "kDisconnected"
  /\ IF connectFlag = "yes" THEN timers' = n + 1 /\ delay' = 2 * d
     ELSE timers' = n /\ delay' = d

\* Faulty: closes without trying again.
retryNever(o, d, n) ==
  /\ close(o) /\ state' = "kDisconnected"
  /\ timers' = n /\ delay' = d

\* retry() with n timers running and the delay d.
retry(o, d, n) ==
  /\ close(o) /\ state' = "kDisconnected"
  /\ IF connectFlag = "yes"
     THEN timers' = n + 1 /\ delay' = Lesser(2 * d, kMaxRetryDelayMs)
     ELSE timers' = n /\ delay' = d

\* startInThisThread, with the flag as f, n timers running and the delay d.
startInThisThread(f, d, n) ==
  /\ timers' = n /\ delay' = d /\ connectFlag' = f
  /\ failed' = IF state = "kDisconnected" THEN failed ELSE "startInThisThread"
  /\ IF f = "yes" /\ state = "kDisconnected" THEN connect ELSE UNCHANGED <<stale, op, sock>>
  /\ UNCHANGED state

\* Faulty: leaves state_ as it was.
restartOnly ==
  startInThisThread("yes", kInitRetryDelayMs, timers)

\* restart() sets state_ first, so its start always passes the assertion.
restart ==
  /\ state' = "kDisconnected"
  /\ delay' = kInitRetryDelayMs
  /\ connectFlag' = "yes"
  /\ connect
  /\ UNCHANGED <<timers, failed>>

stopInThisThread ==
  IF state = "kConnecting" THEN retry(op, delay, timers)
  ELSE UNCHANGED <<state, sock, op, timers, delay>>

-----------------------------------------------------------------------------
(* The handler of async_connect.                                            *)

\* TcpClient::newConnection, called with socket_ moved out.
newConnection ==
  /\ made < MaxConns
  /\ made' = made + 1
  /\ connection' = made + 1
  /\ conn' = [conn EXCEPT ![made + 1] = "kConnected"]
  /\ failed' = IF client = "gone" THEN "danglingClient" ELSE failed

\* Faulty: goes on after retry().
connectingOn(o, rest) ==
  /\ retry(o, delay, timers) /\ newConnection
  /\ UNCHANGED errors /\ stale' = rest

\* Faulty: does not test connect_.
connectingAnyway(o, rest) ==
  /\ state' = "kConnected" /\ newConnection
  /\ sock' = "closed" /\ op' = "none"
  /\ stale' = IF o = "none" THEN rest ELSE Append(rest, o)
  /\ UNCHANGED <<timers, delay, errors>>

\* connecting(): o is the operation on socket_, rest the stale ones, without this one.
\* get_option fails on a closed socket, and may fail or report an error on another.
connecting(o, rest) ==
  \/ /\ state' = "kConnecting" /\ close(o)
     /\ errors' = "yes" /\ stale' = rest
     /\ UNCHANGED <<timers, delay, connVars, failed>>
  \/ /\ sock = "open" /\ retry(o, delay, timers)
     /\ stale' = rest
     /\ UNCHANGED <<errors, connVars, failed>>
  \/ /\ sock = "open" /\ connectFlag = "yes"
     /\ state' = "kConnected" /\ newConnection
     /\ sock' = "closed" /\ op' = "none"
     /\ stale' = IF o = "none" THEN rest ELSE Append(rest, o)
     /\ UNCHANGED <<timers, delay, errors>>
  \/ /\ sock = "open" /\ connectFlag = "no"
     /\ state' = "kConnected" /\ close(o)
     /\ stale' = rest
     /\ UNCHANGED <<timers, delay, errors, connVars, failed>>

Handle(result, o, rest) ==
  \/ result = "ok" /\ connecting(o, rest)
  \/ /\ result = "again" /\ retry(o, delay, timers) /\ stale' = rest
     /\ UNCHANGED <<errors, connVars, failed>>
  \/ /\ result = "error" /\ close(o) /\ stale' = rest
     /\ errors' = "yes"
     /\ UNCHANGED <<state, timers, delay, connVars, failed>>

RemoveAt(s, k) == SubSeq(s, 1, k - 1) \o SubSeq(s, k + 1, Len(s))

ConnectHandler ==
  /\ Free
  /\ \/ op \in Results /\ Handle(op, "none", stale)
     \/ \E k \in 1..Len(stale) :
          stale[k] \in Results /\ Handle(stale[k], op, RemoveAt(stale, k))
  /\ UNCHANGED <<connectFlag, userVars, client, retryOn, restarting, queue, call>>

\* The kernel completes a connect; the handler runs later.
ConnectCompletes ==
  /\ Live
  /\ \E r \in Results :
       \/ op = "pending" /\ op' = r /\ UNCHANGED stale
       \/ \E k \in 1..Len(stale) :
            stale[k] = "pending" /\ stale' = [stale EXCEPT ![k] = r] /\ UNCHANGED op
  /\ UNCHANGED <<connectFlag, state, sock, timers, delay, connVars, userVars, client, retryOn,
                 restarting, queue, call, errors, failed>>

RetryTimer ==
  /\ Free /\ timers > 0
  /\ startInThisThread(connectFlag, delay, timers - 1)
  /\ UNCHANGED <<connVars, userVars, client, retryOn, restarting, queue, call, errors>>

-----------------------------------------------------------------------------
(* The end of a connection.                                                 *)

\* TcpClient::removeConnection up to its test.  The connectDestroyed it posts finds the
\* connection disconnected and does nothing.
removeConnection(c) ==
  /\ failed' = IF connection = c THEN failed ELSE "removeConnection"
  /\ connection' = 0
  /\ restarting' = IF retryOn = "yes" /\ wanted = "yes" THEN "yes" ELSE "no"

\* A read fails and handleClose calls closeCallback_; ~TcpClient has replaced that of its
\* connection_ by one that does not use the client.
ConnectionCloses == \E c \in Ids :
  /\ Free /\ conn[c] \in Open
  /\ conn' = [conn EXCEPT ![c] = "kDisconnected"]
  /\ \/ client = "here" /\ removeConnection(c)
     \/ client = "gone" /\ c = connection /\ UNCHANGED <<connection, restarting, failed>>
     \/ /\ client = "gone" /\ c # connection
        /\ failed' = "danglingClient" /\ UNCHANGED <<connection, restarting>>
  /\ UNCHANGED <<connectorVars, made, userVars, client, retryOn, queue, call, errors>>

Restart ==
  /\ Live /\ restarting = "yes"
  /\ restarting' = "no"
  /\ restart
  /\ UNCHANGED <<connVars, userVars, client, retryOn, queue, call, errors>>

-----------------------------------------------------------------------------
(* Calls.                                                                   *)

May == client = "here" /\ calls < MaxCalls
Called == calls' = calls + 1

connectCall ==
  /\ Free /\ May /\ Called
  /\ connects' = connects + 1 /\ wanted' = "yes" /\ stopped' = "no"
  /\ startInThisThread("yes", delay, timers)
  /\ UNCHANGED <<connVars, client, retryOn, restarting, queue, call, errors>>

stopCall ==
  /\ Free /\ May /\ Called
  /\ wanted' = "no" /\ stopped' = "yes"
  /\ connectFlag' = "no"
  \* connect_ is no already when the handler runs in place: retry() starts no timer.
  /\ IF state = "kConnecting" THEN close(op) /\ state' = "kDisconnected"
     ELSE UNCHANGED <<state, sock, op>>
  /\ UNCHANGED <<stale, timers, delay, connVars, connects, client, retryOn, restarting, queue,
                 call, errors, failed>>

disconnect ==
  /\ Free /\ May /\ Called
  /\ wanted' = "no"
  /\ conn' = IF connection # 0 /\ conn[connection] = "kConnected"
             THEN [conn EXCEPT ![connection] = "kDisconnecting"] ELSE conn
  /\ UNCHANGED <<connectorVars, connection, made, connects, stopped, client, retryOn,
                 restarting, queue, call, errors, failed>>

\* connect() and stop() of another thread: the flags, then the post.
threadFlags == \E what \in {"start", "stop"} :
  /\ Live /\ May /\ Called /\ call = "none"
  /\ call' = what
  /\ connectFlag' = IF what = "start" THEN "yes" ELSE "no"
  /\ wanted' = connectFlag'
  /\ connects' = IF what = "start" THEN connects + 1 ELSE connects
  /\ stopped' = IF what = "start" THEN "no" ELSE stopped
  /\ UNCHANGED <<state, sock, op, stale, timers, delay, connVars, client, retryOn, restarting,
                 queue, errors, failed>>

threadPost ==
  /\ Live /\ call # "none"
  /\ queue' = Append(queue, call) /\ call' = "none"
  /\ UNCHANGED <<connectorVars, connVars, userVars, client, retryOn, restarting, errors, failed>>

\* Handlers another thread has posted hold a raw pointer to the Connector.
RunPosted ==
  /\ Free /\ queue # <<>>
  /\ queue' = Tail(queue)
  /\ \/ /\ ~Held
        /\ failed' = "danglingConnector"
        /\ UNCHANGED connectorVars
     \/ /\ Held /\ Head(queue) = "start"
        /\ startInThisThread(connectFlag, delay, timers)
     \/ /\ Held /\ Head(queue) = "stop"
        /\ stopInThisThread
        /\ UNCHANGED <<connectFlag, stale, failed>>
  /\ UNCHANGED <<connVars, userVars, client, retryOn, restarting, call, errors>>

\* ~TcpClient on the loop's thread: with a connection it only replaces closeCallback_.
destroyClient ==
  /\ Free /\ client = "here" /\ call = "none"
  /\ client' = "gone"
  /\ IF connection # 0 THEN UNCHANGED <<connectFlag, state, sock, op>>
     ELSE /\ connectFlag' = "no"
          /\ IF state = "kConnecting" THEN close(op) /\ state' = "kDisconnected"
             ELSE UNCHANGED <<state, sock, op>>
  /\ UNCHANGED <<stale, timers, delay, connVars, userVars, retryOn, restarting, queue, call,
                 errors, failed>>

-----------------------------------------------------------------------------
Next ==
  \/ ConnectCompletes \/ ConnectHandler \/ RetryTimer \/ ConnectionCloses \/ Restart
  \/ connectCall \/ stopCall \/ disconnect \/ threadFlags \/ threadPost \/ RunPosted
  \/ destroyClient

Spec == Init /\ [][Next]_vars

-----------------------------------------------------------------------------
(* Properties.                                                              *)

\* Every variable holds a value of the member it stands for, and the retry delay stays
\* between its initial value and its cap (retry, restart).
TypeOK ==
  /\ connectFlag \in {"yes", "no"} /\ wanted \in {"yes", "no"} /\ retryOn \in {"yes", "no"}
  /\ state \in {"kDisconnected", "kConnecting", "kConnected"}
  /\ sock \in {"open", "closed"}
  /\ op \in Results \cup {"none", "pending"} /\ stale \in Seq(Results \cup {"pending"})
  /\ timers \in Nat /\ delay \in kInitRetryDelayMs..kMaxRetryDelayMs
  /\ client \in {"here", "gone"} /\ restarting \in {"yes", "no"}
  /\ connection \in 0..made /\ made \in 0..MaxConns
  /\ conn \in [Ids -> Open \cup {"none", "kDisconnected"}]
  /\ queue \in Seq({"start", "stop"}) /\ call \in {"none", "start", "stop"}
  /\ calls \in 0..MaxCalls /\ connects \in 0..MaxCalls
  /\ errors \in {"yes", "no"} /\ stopped \in {"yes", "no"}
  /\ failed \in {"none", "startInThisThread", "removeConnection", "danglingClient",
                 "danglingConnector"}

Count(b) == IF b THEN 1 ELSE 0
OpenConns == {c \in Ids : conn[c] \in Open}

\* What is under way to a connection, or is one.
Efforts ==
  Count(op # "none") + Len(stale) + timers + Count(restarting = "yes") + Count(call = "start")
    + Cardinality({k \in 1..Len(queue) : queue[k] = "start"}) + Cardinality(OpenConns)

\* A program that calls connect() once never has two connects, retry timers, restarts or
\* connections at a time, whatever fails, closes or is stopped when (Connector, TcpClient).
OneEffort == connects <= 1 => Efforts <= 1

\* Such a program fails no assertion and uses nothing after ~TcpClient, unless it destroys
\* the client under a call another thread has posted (Connector::startInThisThread,
\* TcpClient::removeConnection).
OneConnectIsSafe == connects <= 1 /\ failed # "danglingConnector" => failed = "none"

\* connection_ is the open connection: never one that has closed, and no open one is left
\* out (newConnection, removeConnection).
ConnectionIsOpen ==
  Live /\ client = "here" /\ connects <= 1 =>
    OpenConns = (IF connection = 0 THEN {} ELSE {connection})

\* A program that calls connect() once meets no assertion, and connection_ tells it the
\* truth.
OneConnectIsSound == OneConnectIsSafe /\ ConnectionIsOpen

\* The client does not give up: after one connect(), with retry enabled and neither stopped
\* nor disconnected, it is connected or under way to be.
KeepsTrying ==
  Live /\ client = "here" /\ connects = 1 /\ retryOn = "yes" /\ wanted = "yes" /\ connectFlag = "yes"
    => Efforts >= 1

\* The README's reconnecting: once a connection was made, a broken one is followed by
\* attempts until there is another (TcpClient::removeConnection, Connector::connect).
Reconnects == made > 0 => KeepsTrying

\* The client gives up only after an error it does not retry (Connector::retry, restart).
KeepsTryingUnlessError == errors = "no" => KeepsTrying

\* After stop() on the loop no new connection is made until the next connect(), wherever
\* the connect or the retry stood (Connector::stop, connecting, removeConnection).
StopIsFinal == [][stopped = "yes" /\ stopped' = "yes" => made' = made]_vars
=============================================================================
