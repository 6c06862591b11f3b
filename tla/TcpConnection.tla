--------------------------- MODULE TcpConnection ---------------------------
(***************************************************************************)
(* One TcpConnection of a TcpServer whose loops run in their own threads:  *)
(* the object itself, the handlers posted to its loop_, its outstanding    *)
(* asio operations, the calls user threads make on it, and the server's    *)
(* connections_ entry that keeps it alive.                                 *)
(*                                                                         *)
(* A handler of loop_ is one atomic step: a loop runs on one thread, and   *)
(* what its handlers share with other threads is state_ only.  A call made *)
(* by another thread is split at every access of state_.  An asio          *)
(* completion is the kernel's completion and the handler in one step; it   *)
(* may come at any time, so every order of completions and posted handlers *)
(* is covered.                                                             *)
(***************************************************************************)
EXTENDS Naturals, Sequences

CONSTANTS
  Threads,   \* threads other than loop_'s own that call the connection
  Calls,     \* the kinds of calls the program makes, a subset of CallKinds
  MaxCalls   \* bound: calls that pass their test of state_

CallKinds == {"send", "shutdown", "forceClose", "threadSend", "threadSendString",
              "threadShutdown", "threadForceClose"}

ASSUME CallsAssumption == Calls \subseteq CallKinds
ASSUME MaxCallsAssumption == MaxCalls \in Nat

\* Threads have names of their own, see Senders, Garbage and NoMsg.
ASSUME ThreadsAssumption == Threads \cap {"loop", "freed", "none"} = {}

VARIABLES
  state,         \* state_
  posted,        \* handlers bound to this connection in loop_'s io_context, in order
  reading,       \* the outstanding async_read: "none", "header" or "body"
  outputBuffer,  \* outputBuffer_, a sequence of messages
  writing,       \* how many of them the outstanding async_write covers, 0 for none
  intact,        \* "no" once makeSpace moved the bytes that async_write still reads
  broken,        \* an async_write has failed
  sock,          \* "open", or "shut" once socket_.shutdown(shutdown_send) was called
  wire,          \* the messages async_write has handed to the kernel
  peer,          \* the other end: "open" or "closed"
  owner,         \* connections_: "registered" or "removed"
  removals,      \* removeConnectionInThisThread handlers posted to baseLoop_
  call,          \* where the call of each other thread stands
  sends,         \* how many messages each sender has handed over
  calls,         \* how many calls passed their test of state_
  ups, downs,    \* connectionCallback_ calls for connect and for disconnect
  alive,         \* "yes" until the last TcpConnectionPtr is gone
  failed,        \* the assertion that aborted the process, or "none"
  used           \* the kinds of calls made so far

connVars == <<state, reading, ups, downs>>
outVars == <<outputBuffer, writing, intact, broken, sock, wire>>
ownVars == <<owner, removals>>
userVars == <<call, sends, calls, used>>
vars == <<connVars, outVars, ownVars, userVars, posted, peer, alive, failed>>

States == {"kDisconnected", "kConnecting", "kConnected", "kDisconnecting"}
Open == {"kConnected", "kDisconnecting"}
Senders == Threads \cup {"loop"}
Msg == [from : Senders, id : Nat]

\* What is read through a pointer after its memory was freed or reused.
Garbage == [from |-> "freed", id |-> 0]

NoMsg == [from |-> "none", id |-> 0]
SendHandlers == {"sendInThisThread", "sendDangling"}
CloseHandlers == {"connectEstablished", "connectDestroyed", "shutdownInThisThread",
                  "forceCloseInThisThread"}
Task == [run : SendHandlers, msg : Msg] \cup [run : CloseHandlers, msg : {NoMsg}]
Bind(h) == [run |-> h, msg |-> NoMsg]
BindMsg(h, m) == [run |-> h, msg |-> m]
CallSteps == {"idle", "threadSend", "threadSendString", "threadShutdown",
              "threadForceClose", "postShutdown", "postForceClose"}

Live == alive = "yes" /\ failed = "none"
Post(task) == posted' = Append(posted, task)

-----------------------------------------------------------------------------
(* The connection as TcpServer::newConnection leaves it: registered, with   *)
(* connectEstablished dispatched to its loop.                               *)
Init ==
  /\ state = "kConnecting"
  /\ posted = <<Bind("connectEstablished")>>
  /\ reading = "none"
  /\ outputBuffer = <<>> /\ writing = 0 /\ intact = "yes" /\ broken = "no"
  /\ sock = "open" /\ wire = <<>> /\ peer = "open"
  /\ owner = "registered" /\ removals = 0
  /\ call = [t \in Threads |-> "idle"]
  /\ sends = [s \in Senders |-> 0]
  /\ calls = 0 /\ used = {}
  /\ ups = 0 /\ downs = 0
  /\ alive = "yes" /\ failed = "none"

-----------------------------------------------------------------------------
(* Output: sendInThisThread, write and shutdownInThisThread.                *)

\* async_write covers what is readable now; later messages wait for its handler.
\* Buffer::append may have to move the bytes (makeSpace) that async_write points to.
sendInThisThread(m) ==
  /\ IF state = "kDisconnected"
     THEN UNCHANGED <<outputBuffer, writing, intact>>
     ELSE /\ outputBuffer' = Append(outputBuffer, m)
          /\ writing' = IF outputBuffer = <<>> THEN 1 ELSE writing
          /\ intact' \in IF writing = 0 THEN {"yes"} ELSE {intact, "no"}
  /\ UNCHANGED <<broken, sock, wire>>

\* Faulty: shuts the sending side whatever is still buffered.
shutdownAtOnce ==
  /\ sock' = "shut"
  /\ UNCHANGED <<outputBuffer, writing, intact, broken, wire>>

shutdownInThisThread ==
  /\ sock' = IF outputBuffer = <<>> THEN "shut" ELSE sock
  /\ UNCHANGED <<outputBuffer, writing, intact, broken, wire>>

\* The bytes the kernel sends for messages ms.
Sent(ms) == IF intact = "yes" THEN {ms} ELSE {ms, [i \in DOMAIN ms |-> Garbage]}

\* After bytes were written, buffer is left, of which an async_write covers the first
\* next, and the sending side is shut when shut holds.
Wrote(buffer, next, shut) ==
  /\ Live /\ writing > 0 /\ sock = "open"
  /\ \E bytes \in Sent(SubSeq(outputBuffer, 1, writing)) : wire' = wire \o bytes
  /\ outputBuffer' = buffer
  /\ writing' = next
  /\ intact' = "yes"
  /\ sock' = IF shut THEN "shut" ELSE sock
  /\ UNCHANGED <<connVars, ownVars, userVars, broken, posted, peer, alive, failed>>

Unwritten == SubSeq(outputBuffer, writing + 1, Len(outputBuffer))

\* Faulty: does not write the rest.
WriteDoneNoRest == Wrote(Unwritten, 0, Unwritten = <<>> /\ state = "kDisconnecting")
\* Faulty: forgets the shutdown that waits for the write.
WriteDoneNoShutdown == Wrote(Unwritten, Len(Unwritten), FALSE)

\* The handler of write(), without an error: retrieve what was written, then write the
\* rest or, when a shutdown waits for it, shut the sending side.
WriteDone ==
  Wrote(Unwritten, Len(Unwritten), Unwritten = <<>> /\ state = "kDisconnecting")

\* The handler of write() with an error: it logs, keeps the buffer and starts no write.
WriteFailed ==
  /\ Live /\ writing > 0
  /\ sock = "shut" \/ peer = "closed"
  /\ writing' = 0
  /\ intact' = "yes" /\ broken' = "yes"
  /\ UNCHANGED <<connVars, ownVars, userVars, outputBuffer, sock, wire, posted, peer, alive, failed>>

-----------------------------------------------------------------------------
(* Closing.                                                                 *)

\* Faulty: does not call closeCallback_.
handleCloseNoCallback ==
  /\ state \in Open
  /\ state' = "kDisconnected"
  /\ downs' = downs + 1
  /\ UNCHANGED <<removals, failed>>

\* handleClose tells the user, then the server through closeCallback_, which posts
\* removeConnectionInThisThread to baseLoop_.
handleClose ==
  \/ /\ state \notin Open
     /\ failed' = "handleClose"
     /\ UNCHANGED <<state, downs, removals>>
  \/ /\ state \in Open
     /\ state' = "kDisconnected"
     /\ downs' = downs + 1
     /\ removals' = removals + 1
     /\ UNCHANGED failed

forceCloseInThisThread ==
  \/ state \in Open /\ handleClose
  \/ state \notin Open /\ UNCHANGED <<state, downs, removals, failed>>

\* Faulty: does not test state_.
connectDestroyedAlways == state' = "kDisconnected" /\ downs' = downs + 1

connectDestroyed ==
  \/ state = "kConnected" /\ state' = "kDisconnected" /\ downs' = downs + 1
  \/ state # "kConnected" /\ UNCHANGED <<state, downs>>

\* TcpServer::removeConnectionInThisThread, run by baseLoop_.
removeConnectionInThisThread ==
  /\ Live /\ removals > 0
  /\ removals' = removals - 1
  /\ \/ /\ owner = "registered"
        /\ owner' = "removed"
        /\ Post(Bind("connectDestroyed"))
        /\ UNCHANGED failed
     \/ /\ owner = "removed"
        /\ failed' = "removeConnection"
        /\ UNCHANGED <<owner, posted>>
  /\ UNCHANGED <<connVars, outVars, userVars, peer, alive>>

\* ~TcpConnection, by whoever drops the last TcpConnectionPtr.
Destroy ==
  /\ Live
  /\ owner = "removed" /\ removals = 0
  /\ posted = <<>> /\ reading = "none" /\ writing = 0
  /\ \A t \in Threads : call[t] = "idle"
  /\ alive' = "no"
  /\ failed' = IF state = "kDisconnected" THEN failed ELSE "destructor"
  /\ UNCHANGED <<connVars, outVars, ownVars, userVars, posted, peer>>

-----------------------------------------------------------------------------
(* Input: readHeader and readBody keep one async_read outstanding.          *)

readHeader ==
  /\ Live /\ reading = "header"
  /\ reading' = "body"
  /\ UNCHANGED <<state, ups, downs, outVars, ownVars, userVars, posted, peer, alive, failed>>

\* The body's handler hands the message to messageCallback_ and reads the next header.
readBody ==
  /\ Live /\ reading = "body"
  /\ reading' = "header"
  /\ UNCHANGED <<state, ups, downs, outVars, ownVars, userVars, posted, peer, alive, failed>>

\* Faulty: reads on after an error.
ReadFailedReadsOn ==
  /\ Live /\ reading # "none" /\ peer = "closed"
  /\ handleClose
  /\ UNCHANGED <<reading, ups, outVars, owner, userVars, posted, peer, alive>>

ReadFailed ==
  /\ Live /\ reading # "none" /\ peer = "closed"
  /\ reading' = "none"
  /\ handleClose
  /\ UNCHANGED <<ups, outVars, owner, userVars, posted, peer, alive>>

-----------------------------------------------------------------------------
(* The loop runs the handler at the head of its queue.                      *)

connectEstablished ==
  /\ state' = "kConnected"
  /\ ups' = ups + 1
  /\ reading' = "header"
  /\ failed' = IF state = "kConnecting" THEN failed ELSE "connectEstablished"
  /\ UNCHANGED <<downs, outVars, ownVars>>

RunPosted ==
  /\ Live /\ posted # <<>>
  /\ posted' = Tail(posted)
  /\ LET task == Head(posted) IN
     \/ /\ task.run = "connectEstablished"
        /\ connectEstablished
     \/ /\ task.run = "connectDestroyed"
        /\ connectDestroyed
        /\ UNCHANGED <<reading, ups, outVars, ownVars, failed>>
     \/ /\ task.run = "shutdownInThisThread"
        /\ shutdownInThisThread
        /\ UNCHANGED <<connVars, ownVars, failed>>
     \/ /\ task.run = "forceCloseInThisThread"
        /\ forceCloseInThisThread
        /\ UNCHANGED <<reading, ups, outVars, owner>>
     \/ /\ task.run = "sendInThisThread"
        /\ sendInThisThread(task.msg)
        /\ UNCHANGED <<connVars, ownVars, failed>>
     \/ /\ task.run = "sendDangling"
        /\ \E m \in {task.msg, Garbage} : sendInThisThread(m)
        /\ UNCHANGED <<connVars, ownVars, failed>>
  /\ UNCHANGED <<userVars, peer, alive>>

-----------------------------------------------------------------------------
(* Calls made by handlers of the loop itself: the test of state_, its       *)
(* change and what dispatch runs in place are one step.                     *)

Accept(kind) ==
  /\ Live /\ kind \in Calls /\ calls < MaxCalls
  /\ calls' = calls + 1
  /\ used' = used \cup {kind}

send ==
  /\ Accept("send") /\ state = "kConnected"
  /\ sends' = [sends EXCEPT !["loop"] = @ + 1]
  /\ sendInThisThread([from |-> "loop", id |-> sends["loop"] + 1])
  /\ UNCHANGED <<connVars, ownVars, call, posted, peer, alive, failed>>

shutdown ==
  /\ Accept("shutdown") /\ state = "kConnected"
  /\ state' = "kDisconnecting"
  /\ shutdownInThisThread
  /\ UNCHANGED <<reading, ups, downs, ownVars, call, sends, posted, peer, alive, failed>>

forceClose ==
  /\ Accept("forceClose") /\ state \in Open
  /\ state' = "kDisconnecting"
  /\ Post(Bind("forceCloseInThisThread"))
  /\ UNCHANGED <<reading, ups, downs, outVars, ownVars, call, sends, peer, alive, failed>>

-----------------------------------------------------------------------------
(* Calls made by other threads: the test of state_, its change and the post *)
(* are separate steps.                                                      *)

StepCall(t, from, to) == call[t] = from /\ call' = [call EXCEPT ![t] = to]

TestState(t, kind) ==
  /\ Accept(kind)
  /\ StepCall(t, "idle", kind)
  /\ state \in (IF kind = "threadForceClose" THEN Open ELSE {"kConnected"})
  /\ UNCHANGED <<connVars, outVars, ownVars, sends, posted, peer, alive, failed>>

ThreadCalls == {"threadSend", "threadSendString", "threadShutdown", "threadForceClose"}

\* Faulty: posts a moved-from message.
PostSendMoved(t) ==
  /\ Live
  /\ StepCall(t, "threadSend", "idle") /\ Post(BindMsg("sendInThisThread", NoMsg))
  /\ sends' = [sends EXCEPT ![t] = @ + 1]
  /\ UNCHANGED <<connVars, outVars, ownVars, calls, used, peer, alive, failed>>

\* send(Buffer *) posts a copy of the bytes, send(std::string &&) posts a StringPiece
\* to a string that may be gone when the handler runs.
PostSend(t) ==
  /\ Live
  /\ sends' = [sends EXCEPT ![t] = @ + 1]
  /\ LET m == [from |-> t, id |-> sends[t] + 1] IN
     \/ StepCall(t, "threadSend", "idle") /\ Post(BindMsg("sendInThisThread", m))
     \/ StepCall(t, "threadSendString", "idle") /\ Post(BindMsg("sendDangling", m))
  /\ UNCHANGED <<connVars, outVars, ownVars, calls, used, peer, alive, failed>>

SetDisconnecting(t) ==
  /\ Live
  /\ \/ StepCall(t, "threadShutdown", "postShutdown")
     \/ StepCall(t, "threadForceClose", "postForceClose")
  /\ state' = "kDisconnecting"
  /\ UNCHANGED <<reading, ups, downs, outVars, ownVars, sends, calls, used, posted, peer, alive, failed>>

PostClose(t) ==
  /\ Live
  /\ \/ StepCall(t, "postShutdown", "idle") /\ Post(Bind("shutdownInThisThread"))
     \/ StepCall(t, "postForceClose", "idle") /\ Post(Bind("forceCloseInThisThread"))
  /\ UNCHANGED <<connVars, outVars, ownVars, sends, calls, used, peer, alive, failed>>

FinishCall(t) == PostSend(t) \/ SetDisconnecting(t) \/ PostClose(t)

-----------------------------------------------------------------------------
PeerClose ==
  /\ Live /\ peer = "open"
  /\ peer' = "closed"
  /\ UNCHANGED <<connVars, outVars, ownVars, userVars, posted, alive, failed>>

LoopStep == RunPosted \/ readHeader \/ readBody \/ ReadFailed \/ WriteDone \/ WriteFailed
UserStep ==
  \/ send \/ shutdown \/ forceClose
  \/ \E t \in Threads : (\E kind \in ThreadCalls : TestState(t, kind)) \/ FinishCall(t)

Next == LoopStep \/ removeConnectionInThisThread \/ UserStep \/ Destroy \/ PeerClose

(* The loops keep running, the kernel completes every operation, and a      *)
(* thread that began a call finishes it.  Users and the peer owe nothing.   *)
Fairness ==
  /\ WF_vars(RunPosted)
  /\ WF_vars(ReadFailed)
  /\ WF_vars(WriteDone \/ WriteFailed)
  /\ WF_vars(removeConnectionInThisThread)
  /\ WF_vars(Destroy)
  /\ \A t \in Threads : WF_vars(FinishCall(t))

Spec == Init /\ [][Next]_vars
FairSpec == Spec /\ Fairness

-----------------------------------------------------------------------------
(* Properties.                                                              *)

\* Every variable holds a value of the C++ member or history it stands for.
TypeOK ==
  /\ state \in States
  /\ posted \in Seq(Task)
  /\ reading \in {"none", "header", "body"}
  /\ outputBuffer \in Seq(Msg \cup {Garbage})
  /\ wire \in Seq(Msg \cup {Garbage})
  /\ writing \in Nat
  /\ intact \in {"yes", "no"}
  /\ broken \in {"yes", "no"}
  /\ sock \in {"open", "shut"}
  /\ peer \in {"open", "closed"}
  /\ owner \in {"registered", "removed"}
  /\ removals \in Nat
  /\ call \in [Threads -> CallSteps]
  /\ sends \in [Senders -> Nat]
  /\ calls \in Nat /\ ups \in Nat /\ downs \in Nat
  /\ alive \in {"yes", "no"}
  /\ failed \in {"none", "connectEstablished", "handleClose", "removeConnection", "destructor"}
  /\ used \subseteq CallKinds

\* Calls that write state_ from a thread other than loop_'s.
Racy == {"threadShutdown", "threadForceClose"}
\* Calls that close the connection without waiting for its outstanding async_read.
Abrupt == Racy \cup {"forceClose"}

\* Output is never stranded and never overlaps: until a write fails, exactly one
\* async_write is outstanding when outputBuffer_ holds data and none when it is empty,
\* and it covers a prefix of the buffer (TcpConnection::sendInThisThread, write).
OneWriteOutstanding ==
  /\ writing <= Len(outputBuffer)
  /\ broken = "no" => (writing = 0 <=> outputBuffer = <<>>)

\* What one sender hands over reaches the socket in the order of its send calls, never
\* twice, even when it is appended while an async_write is outstanding; and without a
\* gap, as long as the bytes sent were still there and only loop_'s thread writes state_
\* (send, sendInThisThread, write).
SendersInOrder ==
  LET all == wire \o outputBuffer
      whole == \A k \in 1..Len(all) : all[k] # Garbage IN
  \A j \in 1..Len(all) : all[j].from \in Senders =>
    LET before == {i \in 1..(j - 1) : all[i].from = all[j].from} IN
    /\ \A i \in before : all[i].id < all[j].id
    /\ used \cap Racy = {} /\ whole =>
         all[j].id = 1 \/ \E i \in before : all[i].id + 1 = all[j].id

\* A message that a handler of the loop has sent is on the wire before the sending side
\* is shut, whoever calls shutdown and whenever (shutdownInThisThread, write).
LoopSendsBeforeShut ==
  sock = "shut" =>
    /\ state # "kConnected"
    /\ \A i \in 1..Len(outputBuffer) : outputBuffer[i].from # "loop"

\* Output reaches the socket in the order it was sent, and the loop's own before the
\* sending side is shut (send, sendInThisThread, write, shutdownInThisThread).
OutputInOrder == SendersInOrder /\ LoopSendsBeforeShut

\* An open connection always has an async_read outstanding, so that a close by the peer
\* is noticed, as long as only loop_'s thread writes state_ (readHeader, readBody).
NeverDeaf ==
  used \cap Racy = {} => (state \in Open => reading # "none")

\* connectionCallback_ reports the disconnect once, exactly when state_ becomes
\* kDisconnected, and never before it has reported the connect (handleClose,
\* connectDestroyed), as long as only loop_'s thread writes state_.
DisconnectReportedOnce ==
  used \cap Racy = {} =>
    /\ downs = (IF state = "kDisconnected" THEN 1 ELSE 0)
    /\ downs <= ups /\ ups <= 1

\* A connection reads until it has reported its disconnect, which it does once
\* (readHeader, readBody, handleClose, connectDestroyed).
ReadsUntilReported == NeverDeaf /\ DisconnectReportedOnce

\* When connections are closed only by their peer or after shutdown() on the loop, no
\* assertion of TcpConnection or TcpServer fails, and after the disconnect was reported
\* no read is outstanding that could still deliver a message.
OrderlyCloseIsSafe ==
  used \cap Abrupt = {} =>
    /\ failed = "none"
    /\ downs > 0 => reading = "none"

\* After the peer closes, the connection is closed, removed from connections_ and
\* destroyed, however many messages are still queued (ReadFailed to ~TcpConnection).
PeerCloseFreesConnection ==
  peer = "closed" ~> (alive = "no" \/ used \cap Abrupt # {})

\* A connection that is shutting down gets its sending side shut once its output is
\* written, or is closed (shutdown, write).
ShutdownCompletes ==
  state = "kDisconnecting" ~> (sock = "shut" \/ state = "kDisconnected" \/ failed # "none")

\* The assertion of handleClose: it runs on an open connection only.
HandleCloseOnOpen == failed # "handleClose"

\* The assertion of ~TcpConnection: only a disconnected connection is destroyed.
DestroyedDisconnected == failed # "destructor"
=============================================================================
