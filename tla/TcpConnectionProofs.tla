------------------------ MODULE TcpConnectionProofs ------------------------
(***************************************************************************)
(* Proofs about TcpConnection, for any set of threads that call it and any *)
(* number of calls.                                                        *)
(***************************************************************************)
EXTENDS TcpConnection, SequenceTheorems, TLAPS

-----------------------------------------------------------------------------
(* The queue of posted handlers.                                            *)

\* The kinds of handlers that are queued.
Queued == {posted[i].run : i \in 1..Len(posted)}

\* Posting appends one handler.
LEMMA PostAdds ==
  ASSUME posted \in Seq(Task), NEW x \in Task, Post(x)
  PROVE  /\ posted' \in Seq(Task)
         /\ Queued' = Queued \cup {x.run}
<1>1. /\ posted' \in Seq(Task)
      /\ Len(posted') = Len(posted) + 1
      /\ \A i \in 1..Len(posted) : posted'[i] = posted[i]
      /\ posted'[Len(posted) + 1] = x
  BY AppendProperties DEF Post
<1>2. Len(posted) \in Nat
  OBVIOUS
<1>3. 1..Len(posted') = 1..Len(posted) \cup {Len(posted) + 1}
  BY <1>1, <1>2
<1> QED
  BY <1>1, <1>2, <1>3 DEF Queued

\* Running a handler takes it from the queue.
LEMMA RunRemoves ==
  ASSUME posted \in Seq(Task), posted # <<>>, posted' = Tail(posted)
  PROVE  /\ posted' \in Seq(Task)
         /\ Len(posted') = Len(posted) - 1
         /\ Queued' \subseteq Queued
         /\ Head(posted) \in Task
         /\ Head(posted).run \in Queued
<1>1. /\ Head(posted) \in Task
      /\ posted' \in Seq(Task)
      /\ Len(posted') = Len(posted) - 1
      /\ \A i \in 1..Len(posted') : posted'[i] = posted[i + 1]
  BY HeadTailProperties
<1>2. Len(posted) \in Nat /\ Len(posted) > 0 /\ Head(posted) = posted[1]
  OBVIOUS
<1> QED
  BY <1>1, <1>2 DEF Queued

\* What Bind and BindMsg make is a handler.
LEMMA BindsTask ==
  /\ \A h \in CloseHandlers : Bind(h) \in Task /\ Bind(h).run = h
  /\ \A h \in SendHandlers : \A m \in Msg : BindMsg(h, m) \in Task /\ BindMsg(h, m).run = h
BY DEF Bind, BindMsg, Task

-----------------------------------------------------------------------------
(* The output buffer.                                                       *)

Output == Msg \cup {Garbage}

OutputOK ==
  /\ outputBuffer \in Seq(Output)
  /\ wire \in Seq(Output)
  /\ writing \in Nat
  /\ intact \in {"yes", "no"}
  /\ broken \in {"yes", "no"}
  /\ sock \in {"open", "shut"}
  /\ OneWriteOutstanding

\* A constant function on 1..n is a sequence.
LEMMA ConstSeq ==
  ASSUME NEW n \in Nat, NEW S, NEW e \in S
  PROVE  [i \in 1..n |-> e] \in Seq(S)
OBVIOUS

\* A message appended to the buffer is covered by a write, now or after the write that
\* is outstanding.
LEMMA SendKeepsOutput ==
  ASSUME OutputOK, NEW m \in Output, sendInThisThread(m)
  PROVE  OutputOK'
<1>1. CASE state = "kDisconnected"
  BY <1>1 DEF sendInThisThread, OutputOK, OneWriteOutstanding
<1>2. CASE state # "kDisconnected"
  <2>1. /\ outputBuffer' = Append(outputBuffer, m)
        /\ writing' = IF outputBuffer = <<>> THEN 1 ELSE writing
        /\ intact' \in {"yes", "no"}
        /\ UNCHANGED <<broken, sock, wire>>
    BY <1>2 DEF sendInThisThread, OutputOK
  <2>2. /\ outputBuffer' \in Seq(Output)
        /\ outputBuffer' # <<>>
        /\ Len(outputBuffer') = Len(outputBuffer) + 1
    BY <2>1, AppendProperties DEF OutputOK
  <2>3. Len(outputBuffer) \in Nat
    BY DEF OutputOK
  <2> QED
    BY <2>1, <2>2, <2>3 DEF OutputOK, OneWriteOutstanding
<1> QED
  BY <1>1, <1>2

\* shutdownInThisThread does not touch the buffer.
LEMMA ShutdownKeepsOutput ==
  ASSUME OutputOK, shutdownInThisThread
  PROVE  OutputOK'
BY DEF shutdownInThisThread, OutputOK, OneWriteOutstanding

\* When a write completes, what is left of the buffer is written next.
LEMMA WriteDoneKeepsOutput ==
  ASSUME OutputOK, WriteDone
  PROVE  OutputOK'
<1>1. writing \in 1..Len(outputBuffer) /\ Len(outputBuffer) \in Nat
  BY DEF OutputOK, OneWriteOutstanding, WriteDone, Wrote
<1>2. /\ Unwritten \in Seq(Output)
      /\ Len(Unwritten) = Len(outputBuffer) - writing
  <2>1. \A i \in (writing + 1)..Len(outputBuffer) : outputBuffer[i] \in Output
    BY <1>1 DEF OutputOK
  <2> QED
    BY <1>1, <2>1, SubSeqProperties DEF Unwritten
<1>3. DEFINE ms == SubSeq(outputBuffer, 1, writing)
<1>4. ms \in Seq(Output)
  <2>1. \A i \in 1..writing : outputBuffer[i] \in Output
    BY <1>1 DEF OutputOK
  <2> QED
    BY <1>1, <2>1, SubSeqProperties
<1>5. \A bytes \in Sent(ms) : bytes \in Seq(Output)
  <2>1. DOMAIN ms = 1..Len(ms) /\ Len(ms) \in Nat
    BY <1>4
  <2>2. [i \in 1..Len(ms) |-> Garbage] \in Seq(Output)
    BY <2>1, ConstSeq DEF Output
  <2>3. [i \in DOMAIN ms |-> Garbage] \in Seq(Output)
    BY <2>1, <2>2
  <2> QED
    BY <1>4, <2>3 DEF Sent
<1>6. PICK bytes \in Sent(ms) : wire' = wire \o bytes
  BY DEF WriteDone, Wrote
<1>7. wire' \in Seq(Output)
  BY <1>5, <1>6, ConcatProperties DEF OutputOK
<1>8. /\ outputBuffer' = Unwritten
      /\ writing' = Len(Unwritten)
      /\ intact' = "yes"
      /\ sock' \in {"open", "shut"}
      /\ UNCHANGED broken
  BY DEF WriteDone, Wrote, OutputOK
<1>9. Len(Unwritten) = 0 <=> Unwritten = <<>>
  BY <1>2
<1> QED
  BY <1>1, <1>2, <1>7, <1>8, <1>9 DEF OutputOK, OneWriteOutstanding

-----------------------------------------------------------------------------
(* The life of the connection.  The invariants of TcpConnection speak of    *)
(* executions without certain calls, so the calls under way and the         *)
(* handlers queued have to be traced back to the calls made.                *)

ControlOK ==
  /\ state \in States
  /\ posted \in Seq(Task)
  /\ reading \in {"none", "header", "body"}
  /\ peer \in {"open", "closed"}
  /\ owner \in {"registered", "removed"}
  /\ removals \in Nat
  /\ call \in [Threads -> CallSteps]
  /\ sends \in [Senders -> Nat]
  /\ calls \in Nat /\ ups \in Nat /\ downs \in Nat
  /\ alive \in {"yes", "no"}
  /\ failed \in {"none", "connectEstablished", "handleClose", "removeConnection", "destructor"}
  /\ used \subseteq CallKinds

\* Only loop_'s thread has written state_, and nothing was closed abruptly.
Calm == used \cap Racy = {}
Gentle == used \cap Abrupt = {}

Traced ==
  /\ \A t \in Threads : Calm => call[t] \in {"idle", "threadSend", "threadSendString"}
  /\ Gentle => "forceCloseInThisThread" \notin Queued
  /\ "connectDestroyed" \in Queued => owner = "removed"

CalmLife ==
  Calm =>
    /\ state = "kConnecting" => /\ Len(posted) = 1 /\ Queued = {"connectEstablished"}
                                /\ reading = "none" /\ ups = 0 /\ removals = 0
                                /\ \A t \in Threads : call[t] = "idle"
    /\ state # "kConnecting" => "connectEstablished" \notin Queued /\ ups = 1
    /\ state \in Open => reading # "none"
    /\ downs = IF state = "kDisconnected" THEN 1 ELSE 0

GentleLife ==
  Gentle =>
    /\ failed = "none"
    /\ state # "kDisconnected" => removals = 0 /\ owner = "registered"
    /\ state = "kDisconnected" => /\ reading = "none"
                                  /\ \/ owner = "registered" /\ removals = 1
                                     \/ owner = "removed" /\ removals = 0

Life == ControlOK /\ Traced /\ CalmLife /\ GentleLife

\* A call that is made adds its kind to the history.
LEMMA AcceptTraces ==
  ASSUME ControlOK, NEW kind \in CallKinds, Accept(kind)
  PROVE  /\ used' \subseteq CallKinds /\ calls' \in Nat
         /\ Calm' <=> Calm /\ kind \notin Racy
         /\ Gentle' <=> Gentle /\ kind \notin Abrupt
BY DEF ControlOK, Accept, Calm, Gentle

\* Without abrupt calls there are no racy ones.
LEMMA GentleIsCalm == Gentle => Calm
BY DEF Gentle, Calm, Abrupt

\* A step that leaves the history alone keeps what is said of it.
LEMMA SameHistory ==
  ASSUME UNCHANGED used
  PROVE  (Calm' <=> Calm) /\ (Gentle' <=> Gentle)
BY DEF Calm, Gentle

\* The handler at the head of the queue keeps Life, whichever it is.
LEMMA RunPostedKeepsLife ==
  ASSUME Life, RunPosted
  PROVE  Life'
<1> USE DEF Life
<1> DEFINE task == Head(posted)
<1>1. /\ posted' \in Seq(Task)
      /\ Len(posted') = Len(posted) - 1
      /\ Queued' \subseteq Queued
      /\ task \in Task
      /\ task.run \in Queued
  BY RunRemoves DEF RunPosted, ControlOK
<1>2. /\ UNCHANGED <<call, sends, calls, used, peer, alive>>
      /\ (Calm' <=> Calm) /\ (Gentle' <=> Gentle)
  BY SameHistory DEF RunPosted, userVars
<1> HIDE DEF task
<1>3. ASSUME UNCHANGED <<connVars, ownVars, failed>>, task.run # "connectEstablished"
      PROVE  Life'
  BY <1>1, <1>2, <1>3 DEF ControlOK, Traced, CalmLife, GentleLife, connVars, ownVars
<1>4. CASE task.run = "connectEstablished" /\ connectEstablished
  <2>1. Calm => state = "kConnecting" /\ Queued' = {}
    <3>1. Calm => state = "kConnecting"
      BY <1>1, <1>4 DEF CalmLife
    <3>2. Calm => Len(posted') = 0
      BY <1>1, <3>1 DEF CalmLife
    <3> QED
      BY <3>1, <3>2 DEF Queued
  <2> QED
    BY <1>1, <1>2, <1>4, <2>1, GentleIsCalm
    DEF connectEstablished, ControlOK, Traced, CalmLife, GentleLife, ownVars, States, Open
<1>5. CASE task.run = "connectDestroyed" /\ connectDestroyed /\ UNCHANGED <<reading, ups, outVars, ownVars, failed>>
  BY <1>1, <1>2, <1>5, GentleIsCalm
  DEF connectDestroyed, ControlOK, Traced, CalmLife, GentleLife, ownVars, States, Open
<1>6. CASE /\ task.run = "forceCloseInThisThread" /\ forceCloseInThisThread
           /\ UNCHANGED <<reading, ups, outVars, owner>>
  BY <1>1, <1>2, <1>6, GentleIsCalm
  DEF forceCloseInThisThread, handleClose, ControlOK, Traced, CalmLife, GentleLife, States, Open
<1> QED
  BY <1>3, <1>4, <1>5, <1>6 DEF RunPosted, task

\* The other handlers of the loops keep Life.
LEMMA LoopKeepsLife ==
  ASSUME Life,
         \/ readHeader \/ readBody \/ ReadFailed \/ WriteDone \/ WriteFailed
         \/ Destroy \/ PeerClose
  PROVE  Life'
<1> USE DEF Life
<1>1. /\ UNCHANGED <<call, sends, calls, used, posted, owner>>
      /\ (Calm' <=> Calm) /\ (Gentle' <=> Gentle) /\ Queued' = Queued
  BY SameHistory DEF readHeader, readBody, ReadFailed, WriteDone, Wrote, WriteFailed, Destroy,
     PeerClose, userVars, ownVars, Queued
<1>2. CASE readHeader \/ readBody
  BY <1>1, <1>2, GentleIsCalm
  DEF readHeader, readBody, ownVars, ControlOK, Traced, CalmLife, GentleLife
<1>3. CASE ReadFailed
  BY <1>1, <1>3, GentleIsCalm
  DEF ReadFailed, handleClose, ControlOK, Traced, CalmLife, GentleLife, States, Open
<1>4. CASE WriteDone \/ WriteFailed \/ PeerClose
  BY <1>1, <1>4
  DEF WriteDone, Wrote, WriteFailed, PeerClose, connVars, ownVars, ControlOK, Traced, CalmLife,
      GentleLife
<1>5. CASE Destroy
  BY <1>1, <1>5 DEF Destroy, connVars, ownVars, ControlOK, Traced, CalmLife, GentleLife
<1> QED
  BY <1>2, <1>3, <1>4, <1>5

\* The server's removal keeps Life.
LEMMA RemovalKeepsLife ==
  ASSUME Life, removeConnectionInThisThread
  PROVE  Life'
<1> USE DEF Life
<1>1. /\ UNCHANGED <<state, reading, ups, downs, call, sends, calls, used, peer, alive>>
      /\ (Calm' <=> Calm) /\ (Gentle' <=> Gentle)
      /\ removals > 0 /\ removals' = removals - 1
  BY SameHistory DEF removeConnectionInThisThread, connVars, userVars
<1>2. CASE owner = "registered" /\ owner' = "removed" /\ Post(Bind("connectDestroyed")) /\ UNCHANGED failed
  <2>1. posted' \in Seq(Task) /\ Queued' = Queued \cup {"connectDestroyed"}
    BY <1>2, PostAdds, BindsTask DEF ControlOK, CloseHandlers
  <2> QED
    BY <1>1, <1>2, <2>1, GentleIsCalm DEF ControlOK, Traced, CalmLife, GentleLife
<1>3. CASE owner = "removed" /\ failed' = "removeConnection" /\ UNCHANGED <<owner, posted>>
  <2>1. Queued' = Queued
    BY <1>3 DEF Queued
  <2> QED
    BY <1>1, <1>3, <2>1, GentleIsCalm DEF ControlOK, Traced, CalmLife, GentleLife
<1> QED
  BY <1>2, <1>3 DEF removeConnectionInThisThread

\* Calls from the loop's own handlers keep Life.
LEMMA LoopCallKeepsLife ==
  ASSUME Life, send \/ shutdown \/ forceClose
  PROVE  Life'
<1> USE DEF Life
<1>1. CASE send
  <2>1. /\ used' \subseteq CallKinds /\ calls' \in Nat
        /\ (Calm' <=> Calm) /\ (Gentle' <=> Gentle)
    BY <1>1, AcceptTraces DEF send, CallKinds, Racy, Abrupt
  <2>2. Queued' = Queued
    BY <1>1 DEF send, Queued
  <2>3. sends' \in [Senders -> Nat]
    BY <1>1 DEF send, ControlOK, Senders
  <2> QED
    BY <1>1, <2>1, <2>2, <2>3 DEF send, connVars, ownVars, ControlOK, Traced, CalmLife, GentleLife
<1>2. CASE shutdown
  <2>1. /\ used' \subseteq CallKinds /\ calls' \in Nat
        /\ (Calm' <=> Calm) /\ (Gentle' <=> Gentle)
    BY <1>2, AcceptTraces DEF shutdown, CallKinds, Racy, Abrupt
  <2>2. Queued' = Queued
    BY <1>2 DEF shutdown, Queued
  <2> QED
    BY <1>2, <2>1, <2>2
    DEF shutdown, ownVars, ControlOK, Traced, CalmLife, GentleLife, States, Open
<1>3. CASE forceClose
  <2>1. /\ used' \subseteq CallKinds /\ calls' \in Nat
        /\ (Calm' <=> Calm) /\ ~Gentle'
    BY <1>3, AcceptTraces DEF forceClose, CallKinds, Racy, Abrupt
  <2>2. posted' \in Seq(Task) /\ Queued' = Queued \cup {"forceCloseInThisThread"}
    BY <1>3, PostAdds, BindsTask DEF forceClose, ControlOK, CloseHandlers
  <2> QED
    BY <1>3, <2>1, <2>2
    DEF forceClose, ownVars, ControlOK, Traced, CalmLife, GentleLife, States, Open
<1> QED
  BY <1>1, <1>2, <1>3

\* The test of state_ by another thread keeps Life.
LEMMA TestStateKeepsLife ==
  ASSUME Life, NEW t \in Threads, NEW kind \in ThreadCalls, TestState(t, kind)
  PROVE  Life'
<1> USE DEF Life
<1>1. kind \in CallKinds /\ kind \in CallSteps
  BY DEF ThreadCalls, CallKinds, CallSteps
<1>2. /\ used' \subseteq CallKinds /\ calls' \in Nat
      /\ Calm' <=> Calm /\ kind \notin Racy
      /\ Gentle' <=> Gentle /\ kind \notin Abrupt
  BY <1>1, AcceptTraces DEF TestState
<1>3. /\ Queued' = Queued
      /\ call' = [call EXCEPT ![t] = kind]
      /\ UNCHANGED <<connVars, ownVars, sends, posted, peer, alive, failed>>
  BY DEF TestState, StepCall, Queued
<1>4. ControlOK'
  BY <1>1, <1>2, <1>3 DEF ControlOK, connVars, ownVars
<1>5. Traced'
  BY <1>1, <1>2, <1>3 DEF Traced, ControlOK, ownVars, ThreadCalls, Racy
<1>6. state # "kConnecting"
  BY DEF TestState, Open
<1> QED
  BY <1>2, <1>3, <1>4, <1>5, <1>6 DEF connVars, ownVars, CalmLife, GentleLife

\* The rest of a call by another thread keeps Life.
LEMMA FinishCallKeepsLife ==
  ASSUME Life, NEW t \in Threads, FinishCall(t)
  PROVE  Life'
<1> USE DEF Life
<1>1. (Calm' <=> Calm) /\ (Gentle' <=> Gentle)
  BY SameHistory DEF FinishCall, PostSend, SetDisconnecting, PostClose
<1>2. CASE PostSend(t)
  <2>1. PICK h \in SendHandlers : Post(BindMsg(h, [from |-> t, id |-> sends[t] + 1]))
    BY <1>2 DEF PostSend, SendHandlers
  <2>2. [from |-> t, id |-> sends[t] + 1] \in Msg
    BY DEF Msg, Senders, ControlOK
  <2>3. posted' \in Seq(Task) /\ Queued' = Queued \cup {h}
    BY <2>1, <2>2, PostAdds, BindsTask DEF ControlOK
  <2>4. h \notin CloseHandlers /\ (Calm => state # "kConnecting")
    <3>1. call[t] \in {"threadSend", "threadSendString"}
      BY <1>2 DEF PostSend, StepCall
    <3> QED
      BY <3>1 DEF SendHandlers, CloseHandlers, CalmLife
  <2>5. /\ call' = [call EXCEPT ![t] = "idle"]
        /\ sends' = [sends EXCEPT ![t] = @ + 1]
        /\ UNCHANGED <<connVars, ownVars, calls, used, peer, alive, failed>>
    BY <1>2 DEF PostSend, StepCall
  <2>6. ControlOK'
    BY <2>3, <2>5 DEF ControlOK, connVars, ownVars, Senders, CallSteps
  <2>7. Traced'
    BY <1>1, <2>3, <2>4, <2>5 DEF Traced, ControlOK, ownVars, CloseHandlers
  <2> QED
    BY <1>1, <2>3, <2>4, <2>5, <2>6, <2>7
    DEF connVars, ownVars, CalmLife, GentleLife, CloseHandlers
<1>3. CASE SetDisconnecting(t)
  <2>1. Queued' = Queued
    BY <1>3 DEF SetDisconnecting, Queued
  <2>2. ~Calm
    BY <1>3 DEF SetDisconnecting, StepCall, Traced
  <2> QED
    BY <1>1, <1>3, <2>1, <2>2, GentleIsCalm
    DEF SetDisconnecting, StepCall, ownVars, ControlOK, Traced, CalmLife, GentleLife, States,
        CallSteps
<1>4. CASE PostClose(t)
  <2>1. PICK h \in CloseHandlers \ {"connectDestroyed"} : Post(Bind(h))
    BY <1>4 DEF PostClose, CloseHandlers
  <2>2. posted' \in Seq(Task) /\ Queued' = Queued \cup {h}
    BY <2>1, PostAdds, BindsTask DEF ControlOK
  <2>3. ~Calm
    BY <1>4 DEF PostClose, StepCall, Traced
  <2> QED
    BY <1>1, <1>4, <2>1, <2>2, <2>3, GentleIsCalm
    DEF PostClose, StepCall, connVars, ownVars, ControlOK, Traced, CalmLife, GentleLife, CallSteps
<1> QED
  BY <1>2, <1>3, <1>4 DEF FinishCall

-----------------------------------------------------------------------------
(* The invariant and what follows from it.                                  *)

Inv == OutputOK /\ Life

\* The connection starts with the invariant.
LEMMA InitEstablishes == Init => Inv
<1> SUFFICES ASSUME Init PROVE Inv
  OBVIOUS
<1>1. OutputOK
  BY DEF Init, OutputOK, OneWriteOutstanding
<1>2. posted \in Seq(Task) /\ Len(posted) = 1 /\ Queued = {"connectEstablished"}
  <2>1. Bind("connectEstablished") \in Task /\ Bind("connectEstablished").run = "connectEstablished"
    BY BindsTask DEF CloseHandlers
  <2>2. posted = <<Bind("connectEstablished")>>
    BY DEF Init
  <2> QED
    BY <2>1, <2>2 DEF Queued
<1>3. ControlOK
  BY <1>2 DEF Init, ControlOK, States, CallSteps
<1> QED
  BY <1>1, <1>2, <1>3 DEF Inv, Life, Init, Traced, CalmLife, GentleLife, Open

\* Every step keeps the output buffer in order.
LEMMA NextKeepsOutput ==
  ASSUME Inv, [Next]_vars
  PROVE  OutputOK'
<1> USE DEF Inv
<1>1. ASSUME UNCHANGED outVars
      PROVE  OutputOK'
  BY <1>1 DEF outVars, OutputOK, OneWriteOutstanding
<1>2. CASE RunPosted
  <2> DEFINE task == Head(posted)
  <2>1. task \in Task
    BY <1>2, RunRemoves DEF RunPosted, Life, ControlOK
  <2>2. task.run \in SendHandlers => task.msg \in Output
    BY <2>1 DEF Task, SendHandlers, CloseHandlers, Output
  <2>3. Garbage \in Output
    BY DEF Output
  <2> HIDE DEF task
  <2>4. CASE UNCHANGED outVars
    BY <1>1, <2>4
  <2>5. CASE shutdownInThisThread
    BY <2>5, ShutdownKeepsOutput
  <2>6. CASE task.run \in SendHandlers /\ \E m \in {task.msg, Garbage} : sendInThisThread(m)
    BY <2>2, <2>3, <2>6, SendKeepsOutput
  <2> QED
    BY <1>2, <2>4, <2>5, <2>6 DEF RunPosted, connectEstablished, SendHandlers, task
<1>3. CASE WriteDone
  BY <1>3, WriteDoneKeepsOutput
<1>4. CASE WriteFailed
  BY <1>4 DEF WriteFailed, OutputOK, OneWriteOutstanding
<1>5. CASE send
  <2>1. [from |-> "loop", id |-> sends["loop"] + 1] \in Output
    BY DEF Output, Msg, Senders, Life, ControlOK
  <2> QED
    BY <1>5, <2>1, SendKeepsOutput DEF send
<1>6. CASE shutdown
  BY <1>6, ShutdownKeepsOutput DEF shutdown
<1>7. CASE readHeader \/ readBody \/ ReadFailed \/ removeConnectionInThisThread \/ Destroy
           \/ PeerClose \/ forceClose \/ UNCHANGED vars
  BY <1>1, <1>7 DEF readHeader, readBody, ReadFailed, removeConnectionInThisThread, Destroy,
     PeerClose, forceClose, vars
<1>8. ASSUME NEW t \in Threads, (\E kind \in ThreadCalls : TestState(t, kind)) \/ FinishCall(t)
      PROVE  OutputOK'
  BY <1>1, <1>8 DEF TestState, FinishCall, PostSend, SetDisconnecting, PostClose
<1> QED
  BY <1>2, <1>3, <1>4, <1>5, <1>6, <1>7, <1>8 DEF Next, LoopStep, UserStep

\* Every step preserves the invariant.
LEMMA NextPreserves ==
  ASSUME Inv, [Next]_vars
  PROVE  Inv'
<1>1. CASE UNCHANGED vars
  <2>1. Queued' = Queued /\ (Calm' <=> Calm) /\ (Gentle' <=> Gentle)
    BY <1>1, SameHistory DEF vars, userVars, Queued
  <2>2. Life'
    BY <1>1, <2>1
    DEF Inv, Life, vars, connVars, ownVars, userVars, ControlOK, Traced, CalmLife, GentleLife
  <2> QED
    BY <2>2, NextKeepsOutput DEF Inv
<1>2. CASE Next
  <2>1. Life'
    BY <1>2, RunPostedKeepsLife, LoopKeepsLife, RemovalKeepsLife, LoopCallKeepsLife,
       TestStateKeepsLife, FinishCallKeepsLife
    DEF Inv, Next, LoopStep, UserStep
  <2> QED
    BY <2>1, NextKeepsOutput DEF Inv
<1> QED
  BY <1>1, <1>2

\* The invariant holds in every reachable state.
THEOREM InvHolds == Spec => []Inv
BY InitEstablishes, NextPreserves, PTL DEF Spec

\* Every variable of the connection keeps its type.
THEOREM TypeCorrect == Spec => []TypeOK
<1>1. Inv => TypeOK
  BY DEF Inv, Life, OutputOK, Output, ControlOK, TypeOK
<1> QED
  BY <1>1, InvHolds, PTL

\* Output is never stranded and never written twice at once, whoever sends.
THEOREM OutputNeverStranded == Spec => []OneWriteOutstanding
<1>1. Inv => OneWriteOutstanding
  BY DEF Inv, OutputOK
<1> QED
  BY <1>1, InvHolds, PTL

\* An open connection reads, and its disconnect is reported exactly once, as long as
\* only the loop's thread writes state_.
THEOREM ReadsAndReports == Spec => []ReadsUntilReported
<1>1. Inv => ReadsUntilReported
  BY DEF Inv, Life, ControlOK, CalmLife, Calm, NeverDeaf, DisconnectReportedOnce, ReadsUntilReported
<1> QED
  BY <1>1, InvHolds, PTL

\* A connection that is not closed abruptly never fails an assertion, and delivers
\* nothing after its disconnect was reported.
THEOREM OrderlyCloseNeverAsserts == Spec => []OrderlyCloseIsSafe
<1>1. Inv => OrderlyCloseIsSafe
  BY GentleIsCalm
  DEF Inv, Life, ControlOK, CalmLife, GentleLife, Gentle, OrderlyCloseIsSafe
<1> QED
  BY <1>1, InvHolds, PTL
-----------------------------------------------------------------------------
(* The order of the output.  What was handed over and not dropped is on the *)
(* wire or in the buffer, or posted.                                        *)

All == wire \o outputBuffer
Clean == \A i \in 1..Len(All) : All[i] # Garbage

\* Until connectEstablished has run nothing else happens, and state_ never goes back.
Early ==
  /\ state = "kConnecting" =>
       /\ Len(posted) = 1 /\ Queued = {"connectEstablished"} /\ sock = "open"
       /\ reading = "none" /\ removals = 0 /\ \A t \in Threads : call[t] = "idle"
  /\ state # "kConnecting" => "connectEstablished" \notin Queued

\* A shutdown that was asked for, or done, means that state_ is past kConnected.
ShutAsked ==
  sock = "shut" \/ "shutdownInThisThread" \in Queued \/ \E t \in Threads : call[t] = "postShutdown"
ShutInv == ShutAsked => state \notin {"kConnecting", "kConnected"}
NoLoopOutput == sock = "shut" => \A i \in 1..Len(outputBuffer) : outputBuffer[i].from # "loop"

\* Only other threads post messages.
PostedFrom == \A k \in 1..Len(posted) : posted[k].msg.from \in Threads \cup {"none"}

\* The messages of one sender are numbered upwards, first those of the output, then those
\* that are posted.
Numbered(s) ==
  /\ \A i \in 1..Len(All) : All[i].from = s => All[i].id \in 1..sends[s]
  /\ \A k \in 1..Len(posted) : posted[k].msg.from = s => posted[k].msg.id \in 1..sends[s]
  /\ \A i, j \in 1..Len(All) :
       i < j /\ All[i].from = s /\ All[j].from = s => All[i].id < All[j].id
  /\ \A k, l \in 1..Len(posted) :
       k < l /\ posted[k].msg.from = s /\ posted[l].msg.from = s => posted[k].msg.id < posted[l].msg.id
  /\ \A i \in 1..Len(All), k \in 1..Len(posted) :
       All[i].from = s /\ posted[k].msg.from = s => All[i].id < posted[k].msg.id

\* None is missing in the output before one that is there; and until the connection is
\* disconnected none is missing at all.
InOutput(s, n) == \E i \in 1..Len(All) : All[i].from = s /\ All[i].id = n
InPosted(s, n) == \E k \in 1..Len(posted) : posted[k].msg.from = s /\ posted[k].msg.id = n
NoGap(s) ==
  \A j \in 1..Len(All) : All[j].from = s =>
    All[j].id = 1 \/ \E i \in 1..(j - 1) : All[i].from = s /\ All[i].id + 1 = All[j].id
NoneLost(s) == state # "kDisconnected" => \A n \in 1..sends[s] : InOutput(s, n) \/ InPosted(s, n)

Ordered == \A s \in Senders : Numbered(s) /\ (Calm /\ Clean => NoGap(s) /\ NoneLost(s))

Order == Early /\ ShutInv /\ NoLoopOutput /\ PostedFrom /\ Ordered

-----------------------------------------------------------------------------
(* What steps do to the output and to the queue.                            *)

OutputSame == Len(All') = Len(All) /\ \A i \in 1..Len(All) : All'[i] = All[i]
OutputMore(m) ==
  /\ Len(All') = Len(All) + 1 /\ All'[Len(All) + 1] = m
  /\ \A i \in 1..Len(All) : All'[i] = All[i]
OutputSpoilt ==
  /\ Len(All') = Len(All) /\ \A i \in 1..Len(All) : All'[i] \in {All[i], Garbage}
  /\ OutputSame \/ ~Clean'
PostedSame == Len(posted') = Len(posted) /\ \A k \in 1..Len(posted) : posted'[k] = posted[k]
PostedMore(x) ==
  /\ Len(posted') = Len(posted) + 1 /\ posted'[Len(posted) + 1] = x
  /\ \A k \in 1..Len(posted) : posted'[k] = posted[k]
PostedLess ==
  /\ Len(posted) > 0 /\ Len(posted') = Len(posted) - 1
  /\ \A k \in 1..Len(posted') : posted'[k] = posted[k + 1]

\* The output is a sequence, the wire's part first.
LEMMA AllIs ==
  ASSUME NEW w \in Seq(Output), NEW b \in Seq(Output)
  PROVE  /\ Len(w \o b) = Len(w) + Len(b) /\ Len(w) \in Nat /\ Len(b) \in Nat
         /\ \A i \in 1..Len(w) : (w \o b)[i] = w[i]
         /\ \A i \in 1..Len(b) : (w \o b)[Len(w) + i] = b[i]
         /\ \A i \in 1..(Len(w) + Len(b)) : (w \o b)[i] \in Output
<1>1. /\ w \o b \in Seq(Output) /\ Len(w \o b) = Len(w) + Len(b)
      /\ \A i \in 1..(Len(w) + Len(b)) : (w \o b)[i] = IF i <= Len(w) THEN w[i] ELSE b[i - Len(w)]
  BY ConcatProperties
<1>2. Len(w) \in Nat /\ Len(b) \in Nat
  OBVIOUS
<1>3. \A i \in 1..Len(b) : Len(w) + i \in 1..(Len(w) + Len(b)) /\ ~(Len(w) + i <= Len(w))
                           /\ (Len(w) + i) - Len(w) = i
  BY <1>2
<1>4. \A i \in 1..(Len(w) + Len(b)) : (w \o b)[i] \in Output
  BY <1>1, <1>2, ElementOfSeq
<1> QED
  BY <1>1, <1>2, <1>3, <1>4

\* sendInThisThread puts its message at the end of the output, or drops it.
LEMMA SendOutput ==
  ASSUME OutputOK, NEW m \in Output, sendInThisThread(m)
  PROVE  IF state = "kDisconnected" THEN OutputSame /\ outputBuffer' = outputBuffer
         ELSE OutputMore(m) /\ outputBuffer' = Append(outputBuffer, m)
<1>1. wire \in Seq(Output) /\ outputBuffer \in Seq(Output) /\ wire' = wire
  BY DEF OutputOK, sendInThisThread
<1>2. CASE state = "kDisconnected"
  BY <1>1, <1>2 DEF sendInThisThread, OutputSame, All
<1>3. CASE state # "kDisconnected"
  <2>1. outputBuffer' = Append(outputBuffer, m)
    BY <1>3 DEF sendInThisThread
  <2>2. /\ outputBuffer' \in Seq(Output) /\ Len(outputBuffer') = Len(outputBuffer) + 1
        /\ \A i \in 1..Len(outputBuffer) : outputBuffer'[i] = outputBuffer[i]
        /\ outputBuffer'[Len(outputBuffer) + 1] = m
    BY <1>1, <2>1, AppendProperties
  <2>3. Len(All') = Len(All) + 1 /\ Len(wire) \in Nat /\ Len(outputBuffer) \in Nat
        /\ Len(All) = Len(wire) + Len(outputBuffer)
    <3>1. Len(All) = Len(wire) + Len(outputBuffer) /\ Len(wire) \in Nat /\ Len(outputBuffer) \in Nat
      BY <1>1, AllIs DEF All
    <3>2. All' = wire \o outputBuffer'
      BY <1>1 DEF All
    <3>3. Len(All') = Len(wire) + Len(outputBuffer')
      BY <1>1, <2>2, <3>2, AllIs
    <3> QED
      BY <2>2, <3>1, <3>3
  <2>4. All'[Len(All) + 1] = m
    <3>1. All'[Len(wire) + (Len(outputBuffer) + 1)] = outputBuffer'[Len(outputBuffer) + 1]
      BY <1>1, <2>2, <2>3, AllIs DEF All
    <3> QED
      BY <2>2, <2>3, <3>1
  <2>5. ASSUME NEW i \in 1..Len(All)
        PROVE  All'[i] = All[i]
    <3>1. CASE i <= Len(wire)
      BY <1>1, <2>2, <2>3, <3>1, AllIs DEF All
    <3>2. CASE i > Len(wire)
      <4> DEFINE j == i - Len(wire)
      <4>1. j \in 1..Len(outputBuffer) /\ i = Len(wire) + j /\ j \in 1..Len(outputBuffer')
        BY <2>2, <2>3, <3>2
      <4> HIDE DEF j
      <4>2. All[Len(wire) + j] = outputBuffer[j]
        BY <1>1, <4>1, AllIs DEF All
      <4>3. All'[Len(wire) + j] = outputBuffer'[j]
        BY <1>1, <2>2, <4>1, AllIs DEF All
      <4> QED
        BY <2>2, <4>1, <4>2, <4>3
    <3> QED
      BY <2>3, <3>1, <3>2
  <2> QED
    BY <1>3, <2>1, <2>3, <2>4, <2>5 DEF OutputMore
<1> QED
  BY <1>2, <1>3

\* A write that completes moves messages from the buffer to the wire; what they were is
\* lost if the bytes had moved.
LEMMA WriteOutput ==
  ASSUME OutputOK, WriteDone
  PROVE  OutputSpoilt
<1> DEFINE w == writing
           b == outputBuffer
           ms == SubSeq(b, 1, w)
<1>1. /\ wire \in Seq(Output) /\ b \in Seq(Output) /\ w \in 1..Len(b) /\ Len(b) \in Nat
      /\ Len(wire) \in Nat
  BY DEF OutputOK, OneWriteOutstanding, WriteDone, Wrote
<1>2. \A i \in 1..Len(b) : b[i] \in Output
  BY <1>1
<1>3. PICK bytes \in Sent(ms) : wire' = wire \o bytes
  BY DEF WriteDone, Wrote
<1>4. outputBuffer' = SubSeq(b, w + 1, Len(b))
  BY DEF WriteDone, Wrote, Unwritten
<1> HIDE DEF w, b
<1>5. ms \in Seq(Output) /\ Len(ms) = w /\ \A i \in 1..w : ms[i] = b[i]
  BY <1>1, <1>2, SubSeqProperties
<1>6. DEFINE rest == SubSeq(b, w + 1, Len(b))
<1>7. rest \in Seq(Output) /\ Len(rest) = Len(b) - w /\ \A i \in 1..(Len(b) - w) : rest[i] = b[w + i]
  <2>1. \A i \in (w + 1)..Len(b) : b[i] \in Output
    BY <1>1, <1>2
  <2>2. rest \in Seq(Output) /\ Len(rest) = Len(b) - w
    BY <1>1, <2>1, SubSeqProperties
  <2>3. ASSUME NEW i \in 1..(Len(b) - w)
        PROVE  rest[i] = b[w + i]
    BY <1>1, <2>1, SubSeqProperties
  <2> QED
    BY <2>2, <2>3
<1>8. /\ bytes \in Seq(Output) /\ Len(bytes) = w /\ \A i \in 1..w : bytes[i] \in {b[i], Garbage}
      /\ (\A i \in 1..w : bytes[i] = b[i]) \/ bytes[1] = Garbage
  <2>1. CASE bytes = ms
    BY <1>5, <2>1
  <2>2. CASE bytes = [i \in DOMAIN ms |-> Garbage]
    <3>1. DOMAIN ms = 1..w /\ w \in Nat /\ 1 \in 1..w /\ Garbage \in Output
      BY <1>1, <1>5 DEF Output
    <3>2. bytes = [i \in 1..w |-> Garbage]
      BY <2>2, <3>1
    <3> QED
      BY <3>1, <3>2, ConstSeq
  <2> QED
    BY <1>3, <2>1, <2>2 DEF Sent
<1> HIDE DEF ms, rest
<1>9. All' = (wire \o bytes) \o rest /\ All = wire \o b
  BY <1>3, <1>4 DEF All, rest, b
<1>10. /\ wire \o bytes \in Seq(Output) /\ Len(wire \o bytes) = Len(wire) + w
  BY <1>1, <1>8, ConcatProperties
<1>11. Len(All') = Len(All) /\ Len(All) = Len(wire) + Len(b)
  <2>1. Len(All') = (Len(wire) + w) + Len(rest)
    BY <1>7, <1>9, <1>10, AllIs
  <2>2. Len(All) = Len(wire) + Len(b)
    BY <1>1, <1>9, AllIs
  <2> QED
    BY <1>1, <1>7, <2>1, <2>2
<1>12. \A i \in 1..Len(wire) : All'[i] = wire[i] /\ All[i] = wire[i]
  <2> SUFFICES ASSUME NEW i \in 1..Len(wire) PROVE All'[i] = wire[i] /\ All[i] = wire[i]
    OBVIOUS
  <2>1. i \in 1..Len(wire \o bytes)
    BY <1>1, <1>10
  <2>2. All'[i] = (wire \o bytes)[i]
    BY <1>7, <1>9, <1>10, <2>1, AllIs
  <2> QED
    BY <1>1, <1>8, <1>9, <2>2, AllIs
<1>13. \A i \in 1..w : All'[Len(wire) + i] = bytes[i] /\ All[Len(wire) + i] = b[i]
  <2> SUFFICES ASSUME NEW i \in 1..w PROVE All'[Len(wire) + i] = bytes[i] /\ All[Len(wire) + i] = b[i]
    OBVIOUS
  <2>1. Len(wire) + i \in 1..Len(wire \o bytes) /\ i \in 1..Len(b)
    BY <1>1, <1>10
  <2>2. All'[Len(wire) + i] = (wire \o bytes)[Len(wire) + i]
    BY <1>7, <1>9, <1>10, <2>1, AllIs
  <2> QED
    BY <1>1, <1>8, <1>9, <2>1, <2>2, AllIs
<1>14. \A i \in (w + 1)..Len(b) : All'[Len(wire) + i] = b[i] /\ All[Len(wire) + i] = b[i]
  <2> SUFFICES ASSUME NEW i \in (w + 1)..Len(b)
               PROVE  All'[Len(wire) + i] = b[i] /\ All[Len(wire) + i] = b[i]
    OBVIOUS
  <2>1. i \in 1..Len(b) /\ i - w \in 1..Len(rest) /\ Len(wire) + i = (Len(wire) + w) + (i - w)
        /\ i - w \in 1..(Len(b) - w) /\ w + (i - w) = i
    BY <1>1, <1>7
  <2>2. All'[(Len(wire) + w) + (i - w)] = rest[i - w]
    BY <1>7, <1>9, <1>10, <2>1, AllIs, SMTT(30)
  <2>3. rest[i - w] = b[i]
    BY <1>7, <2>1
  <2>4. All[Len(wire) + i] = b[i]
    BY <1>1, <1>9, <2>1, AllIs
  <2> QED
    BY <2>1, <2>2, <2>3, <2>4
<1>15. ASSUME NEW i \in 1..Len(All)
       PROVE  /\ All'[i] \in {All[i], Garbage}
              /\ (\A j \in 1..w : bytes[j] = b[j]) => All'[i] = All[i]
  <2>1. CASE i <= Len(wire)
    <3>1. i \in 1..Len(wire)
      BY <1>1, <2>1
    <3> QED
      BY <1>12, <3>1
  <2>2. CASE i > Len(wire)
    <3> DEFINE j == i - Len(wire)
    <3>1. j \in 1..Len(b) /\ i = Len(wire) + j
      BY <1>1, <1>11, <2>2
    <3> HIDE DEF j
    <3>2. CASE j <= w
      <4>1. j \in 1..w
        BY <1>1, <3>1, <3>2
      <4>2. All'[i] = bytes[j] /\ All[i] = b[j]
        BY <1>13, <3>1, <4>1
      <4> QED
        BY <1>8, <4>1, <4>2
    <3>3. CASE j > w
      BY <1>1, <1>14, <3>1, <3>3
    <3> QED
      BY <1>1, <3>1, <3>2, <3>3
  <2> QED
    BY <1>1, <1>11, <2>1, <2>2
<1>16. bytes[1] = Garbage => ~Clean'
  <2> SUFFICES ASSUME bytes[1] = Garbage PROVE ~Clean'
    OBVIOUS
  <2>1. All'[Len(wire) + 1] = Garbage /\ Len(wire) + 1 \in 1..Len(All')
    BY <1>1, <1>11, <1>13
  <2> QED
    BY <2>1 DEF Clean
<1> QED
  BY <1>8, <1>11, <1>15, <1>16 DEF OutputSpoilt, OutputSame

\* Posting, and running a handler.
LEMMA PostedSteps ==
  ASSUME posted \in Seq(Task)
  PROVE  /\ \A x \in Task : Post(x) => PostedMore(x)
         /\ posted # <<>> /\ posted' = Tail(posted) =>
              PostedLess /\ Head(posted) = posted[1] /\ Head(posted) \in Task
<1>1. ASSUME NEW x \in Task, Post(x) PROVE PostedMore(x)
  BY <1>1, AppendProperties DEF Post, PostedMore
<1>2. ASSUME posted # <<>>, posted' = Tail(posted)
      PROVE  PostedLess /\ Head(posted) = posted[1] /\ Head(posted) \in Task
  <2>1. /\ posted' \in Seq(Task) /\ Len(posted') = Len(posted) - 1 /\ Head(posted) \in Task
        /\ \A k \in 1..Len(posted') : posted'[k] = posted[k + 1]
    BY <1>2, HeadTailProperties
  <2>2. Len(posted) \in Nat /\ Len(posted) > 0 /\ Head(posted) = posted[1]
    BY <1>2
  <2> QED
    BY <2>1, <2>2 DEF PostedLess
<1> QED
  BY <1>1, <1>2

-----------------------------------------------------------------------------
(* The order, step by step.                                                 *)

StateStays == Calm' => Calm /\ (state' # "kDisconnected" => state # "kDisconnected")
Lengths == Len(All) \in Nat /\ Len(posted) \in Nat

\* Names that are no sender's.
LEMMA NotSenders ==
  Garbage.from \notin Senders /\ NoMsg.from \notin Senders /\ "loop" \notin Threads
BY ThreadsAssumption DEF Garbage, NoMsg, Senders

\* The output may be spoilt, and handlers posted that carry no message.
LEMMA OrderedSame ==
  ASSUME Ordered, Lengths, OutputSpoilt, UNCHANGED sends, StateStays,
         PostedSame \/ \E x : PostedMore(x) /\ x.msg = NoMsg
  PROVE  Ordered'
<1> SUFFICES ASSUME NEW s \in Senders
             PROVE  Numbered(s)' /\ (Calm' /\ Clean' => NoGap(s)' /\ NoneLost(s)')
  BY DEF Ordered, Senders
<1>1. Numbered(s) /\ (Calm /\ Clean => NoGap(s) /\ NoneLost(s))
  BY DEF Ordered
<1>2. /\ Len(All) \in Nat /\ Len(posted) \in Nat /\ Len(All') = Len(All) /\ sends' = sends
      /\ Garbage.from # s /\ NoMsg.from # s
  BY NotSenders DEF Lengths, OutputSpoilt
<1>3. \A i \in 1..Len(All) : All'[i].from = s => All'[i] = All[i]
  BY <1>2 DEF OutputSpoilt
<1>4. /\ Len(posted') \in Nat /\ Len(posted) <= Len(posted')
      /\ \A k \in 1..Len(posted) : posted'[k] = posted[k]
      /\ \A k \in 1..Len(posted') : posted'[k].msg.from = s => k \in 1..Len(posted)
  <2>1. CASE PostedSame
    BY <1>2, <2>1 DEF PostedSame
  <2>2. ASSUME NEW x, PostedMore(x), x.msg = NoMsg
        PROVE  /\ Len(posted') \in Nat /\ Len(posted) <= Len(posted')
               /\ \A k \in 1..Len(posted) : posted'[k] = posted[k]
               /\ \A k \in 1..Len(posted') : posted'[k].msg.from = s => k \in 1..Len(posted)
    <3>1. posted'[Len(posted) + 1].msg.from # s
      BY <1>2, <2>2 DEF PostedMore
    <3> QED
      BY <1>2, <2>2, <3>1 DEF PostedMore
  <2> QED
    BY <2>1, <2>2
<1>5. Numbered(s)'
  BY <1>1, <1>2, <1>3, <1>4 DEF Numbered
<1>6. ASSUME Calm', Clean'
      PROVE  NoGap(s)' /\ NoneLost(s)'
  <2>1. OutputSame /\ \A i \in 1..Len(All) : All'[i] = All[i]
    BY <1>6 DEF OutputSpoilt, OutputSame
  <2>2. Calm /\ Clean
    BY <1>2, <1>6, <2>1 DEF StateStays, Clean
  <2>3. NoGap(s)'
    BY <1>1, <1>2, <2>1, <2>2 DEF NoGap
  <2>4. NoneLost(s)'
    <3> SUFFICES ASSUME state' # "kDisconnected", NEW n \in 1..sends[s]
                 PROVE  InOutput(s, n)' \/ InPosted(s, n)'
      BY <1>2 DEF NoneLost
    <3>1. InOutput(s, n) \/ InPosted(s, n)
      BY <1>1, <1>6, <2>2 DEF NoneLost, StateStays
    <3>2. InOutput(s, n) => InOutput(s, n)'
      BY <1>2, <2>1 DEF InOutput
    <3>3. InPosted(s, n) => InPosted(s, n)'
      BY <1>2, <1>4 DEF InPosted
    <3> QED
      BY <3>1, <3>2, <3>3
  <2> QED
    BY <2>3, <2>4
<1> QED
  BY <1>5, <1>6

\* Without a change of the output there is no new gap.
LEMMA NoGapSame ==
  ASSUME NEW s, Lengths, NoGap(s), OutputSame
  PROVE  NoGap(s)'
<1> SUFFICES ASSUME NEW j \in 1..Len(All'), All'[j].from = s
             PROVE  All'[j].id = 1 \/ \E i \in 1..(j - 1) : All'[i].from = s /\ All'[i].id + 1 = All'[j].id
  BY DEF NoGap
<1>1. Len(All) \in Nat /\ Len(All') = Len(All) /\ \A i \in 1..Len(All) : All'[i] = All[i]
  BY DEF Lengths, OutputSame
<1>2. All[j].id = 1 \/ \E i \in 1..(j - 1) : All[i].from = s /\ All[i].id + 1 = All[j].id
  BY <1>1 DEF NoGap
<1>3. 1..(j - 1) \subseteq 1..Len(All)
  BY <1>1
<1> QED
  BY <1>1, <1>2, <1>3

\* A thread posts its next message.
LEMMA OrderedPost ==
  ASSUME Ordered, Lengths, OutputSame, StateStays, sends \in [Senders -> Nat],
         NEW t \in Senders, NEW x, PostedMore(x), x.msg.from = t, x.msg.id = sends[t] + 1,
         sends' = [sends EXCEPT ![t] = @ + 1]
  PROVE  Ordered'
<1> SUFFICES ASSUME NEW s \in Senders
             PROVE  Numbered(s)' /\ (Calm' /\ Clean' => NoGap(s)' /\ NoneLost(s)')
  BY DEF Ordered, Senders
<1>1. Numbered(s) /\ (Calm /\ Clean => NoGap(s) /\ NoneLost(s))
  BY DEF Ordered
<1>2. /\ Len(All) \in Nat /\ Len(posted) \in Nat /\ Len(All') = Len(All)
      /\ \A i \in 1..Len(All) : All'[i] = All[i]
      /\ Len(posted') = Len(posted) + 1 /\ posted'[Len(posted) + 1] = x
      /\ \A k \in 1..Len(posted) : posted'[k] = posted[k]
      /\ 1..Len(posted') = 1..Len(posted) \cup {Len(posted) + 1}
  BY DEF Lengths, OutputSame, PostedMore
<1>3. /\ sends[s] \in Nat /\ sends'[s] = (IF s = t THEN sends[s] + 1 ELSE sends[s])
      /\ 1..sends[s] \subseteq 1..sends'[s]
      /\ x.msg.from = s => sends'[s] = sends[s] + 1 /\ x.msg.id = sends[s] + 1
  <2>1. sends[s] \in Nat /\ sends'[s] = (IF s = t THEN sends[s] + 1 ELSE sends[s])
    OBVIOUS
  <2>2. 1..sends[s] \subseteq 1..sends'[s]
    BY <2>1
  <2> QED
    BY <2>1, <2>2
<1>4. Numbered(s)'
  <2>1. \A k \in 1..Len(posted') : posted'[k].msg.from = s => posted'[k].msg.id \in 1..sends'[s]
    <3> SUFFICES ASSUME NEW k \in 1..Len(posted'), posted'[k].msg.from = s
                 PROVE  posted'[k].msg.id \in 1..sends'[s]
      OBVIOUS
    <3>1. CASE k \in 1..Len(posted)
      <4>1. posted'[k] = posted[k]
        BY <1>2, <3>1
      <4>2. posted[k].msg.id \in 1..sends[s]
        BY <1>1, <3>1, <4>1 DEF Numbered
      <4> QED
        BY <1>3, <4>1, <4>2
    <3>2. CASE k = Len(posted) + 1
      BY <1>2, <1>3, <3>2
    <3> QED
      BY <1>2, <3>1, <3>2
  <2>2. \A k, l \in 1..Len(posted') : k < l /\ posted'[k].msg.from = s /\ posted'[l].msg.from = s
          => posted'[k].msg.id < posted'[l].msg.id
    <3> SUFFICES ASSUME NEW k \in 1..Len(posted'), NEW l \in 1..Len(posted'), k < l,
                        posted'[k].msg.from = s, posted'[l].msg.from = s
                 PROVE  posted'[k].msg.id < posted'[l].msg.id
      OBVIOUS
    <3>1. k \in 1..Len(posted) /\ posted'[k] = posted[k]
      BY <1>2
    <3>2. posted[k].msg.from = s /\ posted[k].msg.id \in 1..sends[s]
      BY <1>1, <3>1 DEF Numbered
    <3>3. CASE l \in 1..Len(posted)
      <4>1. posted'[l] = posted[l]
        BY <1>2, <3>3
      <4> QED
        BY <1>1, <3>1, <3>2, <3>3, <4>1 DEF Numbered
    <3>4. CASE l = Len(posted) + 1
      <4>1. posted'[l].msg.id = sends[s] + 1
        BY <1>2, <1>3, <3>4
      <4> QED
        BY <1>3, <3>1, <3>2, <4>1
    <3> QED
      BY <1>2, <3>3, <3>4
  <2>3. \A j \in 1..Len(All), k \in 1..Len(posted') : All[j].from = s /\ posted'[k].msg.from = s
          => All[j].id < posted'[k].msg.id
    <3> SUFFICES ASSUME NEW j \in 1..Len(All), NEW k \in 1..Len(posted'),
                        All[j].from = s, posted'[k].msg.from = s
                 PROVE  All[j].id < posted'[k].msg.id
      OBVIOUS
    <3>1. CASE k \in 1..Len(posted)
      <4>1. posted'[k] = posted[k]
        BY <1>2, <3>1
      <4> QED
        BY <1>1, <3>1, <4>1 DEF Numbered
    <3>2. CASE k = Len(posted) + 1
      <4>1. posted'[k].msg.id = sends[s] + 1
        BY <1>2, <1>3, <3>2
      <4>2. All[j].id \in 1..sends[s]
        BY <1>1 DEF Numbered
      <4> QED
        BY <1>3, <4>1, <4>2
    <3> QED
      BY <1>2, <3>1, <3>2
  <2>4. \A j \in 1..Len(All') : All'[j].from = s => All'[j].id \in 1..sends'[s]
    BY <1>1, <1>2, <1>3 DEF Numbered
  <2>5. \A i, j \in 1..Len(All') : i < j /\ All'[i].from = s /\ All'[j].from = s
          => All'[i].id < All'[j].id
    BY <1>1, <1>2 DEF Numbered
  <2>6. \A j \in 1..Len(All'), k \in 1..Len(posted') :
          All'[j].from = s /\ posted'[k].msg.from = s => All'[j].id < posted'[k].msg.id
    BY <1>2, <2>3
  <2> QED
    BY <2>1, <2>2, <2>4, <2>5, <2>6 DEF Numbered
<1>5. ASSUME Calm', Clean'
      PROVE  NoGap(s)' /\ NoneLost(s)'
  <2>1. Calm /\ Clean
    BY <1>2, <1>5 DEF StateStays, Clean
  <2>2. NoGap(s)'
    BY <1>1, <2>1, NoGapSame
  <2>3. NoneLost(s)'
    <3> SUFFICES ASSUME state' # "kDisconnected", NEW n \in 1..sends'[s]
                 PROVE  InOutput(s, n)' \/ InPosted(s, n)'
      BY DEF NoneLost
    <3>1. CASE n \in 1..sends[s]
      <4>1. InOutput(s, n) \/ InPosted(s, n)
        BY <1>1, <1>5, <2>1, <3>1 DEF NoneLost, StateStays
      <4>2. InOutput(s, n) => InOutput(s, n)'
        BY <1>2 DEF InOutput
      <4>3. InPosted(s, n) => InPosted(s, n)'
        BY <1>2 DEF InPosted
      <4> QED
        BY <4>1, <4>2, <4>3
    <3>2. CASE n \notin 1..sends[s]
      <4>1. s = t /\ n = sends[s] + 1
        BY <1>3, <3>2
      <4>2. posted'[Len(posted) + 1].msg.from = s /\ posted'[Len(posted) + 1].msg.id = n
        BY <1>2, <4>1
      <4>3. Len(posted) + 1 \in 1..Len(posted')
        BY <1>2
      <4> QED
        BY <4>2, <4>3 DEF InPosted
    <3> QED
      BY <3>1, <3>2
  <2> QED
    BY <2>2, <2>3
<1> QED
  BY <1>4, <1>5

\* A message that follows its predecessor leaves no gap.
LEMMA NoGapMore ==
  ASSUME NEW s, NEW m, Len(All) \in Nat, NoGap(s), OutputMore(m),
         m.from = s => m.id = 1 \/ \E n \in Nat : n + 1 = m.id /\ InOutput(s, n)
  PROVE  NoGap(s)'
<1>1. /\ Len(All') = Len(All) + 1 /\ All'[Len(All) + 1] = m
      /\ \A i \in 1..Len(All) : All'[i] = All[i]
  BY DEF OutputMore
<1> SUFFICES ASSUME NEW j \in 1..Len(All'), All'[j].from = s
             PROVE  All'[j].id = 1 \/ \E i \in 1..(j - 1) : All'[i].from = s /\ All'[i].id + 1 = All'[j].id
  BY DEF NoGap
<1>2. CASE j \in 1..Len(All)
  <2>1. All[j].id = 1 \/ \E i \in 1..(j - 1) : All[i].from = s /\ All[i].id + 1 = All[j].id
    BY <1>1, <1>2 DEF NoGap
  <2>2. 1..(j - 1) \subseteq 1..Len(All)
    BY <1>2
  <2> QED
    BY <1>1, <1>2, <2>1, <2>2
<1>3. CASE j = Len(All) + 1
  <2>1. CASE m.id # 1
    <3>1. PICK n \in Nat : n + 1 = m.id /\ InOutput(s, n)
      BY <1>1, <1>3, <2>1
    <3>2. PICK i \in 1..Len(All) : All[i].from = s /\ All[i].id = n
      BY <3>1 DEF InOutput
    <3>3. i \in 1..(j - 1)
      BY <1>3
    <3> QED
      BY <1>1, <1>3, <3>1, <3>2, <3>3
  <2> QED
    BY <1>1, <1>3, <2>1
<1> QED
  BY <1>1, <1>2, <1>3

\* A handler of the loop sends its next message, which no other thread ever posts.
LEMMA OrderedLoopSend ==
  ASSUME Ordered, Lengths, PostedFrom, PostedSame, StateStays, state # "kDisconnected",
         sends \in [Senders -> Nat],
         OutputMore([from |-> "loop", id |-> sends["loop"] + 1]),
         sends' = [sends EXCEPT !["loop"] = @ + 1]
  PROVE  Ordered'
<1> DEFINE m == [from |-> "loop", id |-> sends["loop"] + 1]
<1> SUFFICES ASSUME NEW s \in Senders
             PROVE  Numbered(s)' /\ (Calm' /\ Clean' => NoGap(s)' /\ NoneLost(s)')
  BY DEF Ordered, Senders
<1>1. Numbered(s) /\ (Calm /\ Clean => NoGap(s) /\ NoneLost(s))
  BY DEF Ordered
<1>2. /\ Len(All) \in Nat /\ Len(posted) \in Nat
      /\ Len(All') = Len(All) + 1 /\ All'[Len(All) + 1] = m
      /\ \A i \in 1..Len(All) : All'[i] = All[i]
      /\ 1..Len(All') = 1..Len(All) \cup {Len(All) + 1}
      /\ Len(posted') = Len(posted) /\ \A k \in 1..Len(posted) : posted'[k] = posted[k]
  BY DEF Lengths, OutputMore, PostedSame
<1>3. /\ sends[s] \in Nat /\ sends'[s] = (IF s = "loop" THEN sends[s] + 1 ELSE sends[s])
      /\ 1..sends[s] \subseteq 1..sends'[s]
      /\ m.from = s <=> s = "loop"
      /\ s = "loop" => m.id = sends[s] + 1
  BY DEF Senders
<1>4. s = "loop" => \A k \in 1..Len(posted) : posted[k].msg.from # s
  BY NotSenders DEF PostedFrom
<1> HIDE DEF m
<1>5. Numbered(s)'
  <2>1. \A j \in 1..Len(All') : All'[j].from = s => All'[j].id \in 1..sends'[s]
    BY <1>1, <1>2, <1>3, SMTT(30) DEF Numbered
  <2>2. \A i, j \in 1..Len(All') : i < j /\ All'[i].from = s /\ All'[j].from = s
          => All'[i].id < All'[j].id
    <3> SUFFICES ASSUME NEW i \in 1..Len(All'), NEW j \in 1..Len(All'), i < j,
                        All'[i].from = s, All'[j].from = s
                 PROVE  All'[i].id < All'[j].id
      OBVIOUS
    <3>1. i \in 1..Len(All) /\ All'[i] = All[i]
      BY <1>2
    <3>2. CASE j \in 1..Len(All)
      BY <1>1, <1>2, <3>1, <3>2 DEF Numbered
    <3>3. CASE j = Len(All) + 1
      <4>1. All[i].id \in 1..sends[s]
        BY <1>1, <3>1 DEF Numbered
      <4>2. All'[j].id = sends[s] + 1
        BY <1>2, <1>3, <3>3
      <4> QED
        BY <1>3, <3>1, <4>1, <4>2
    <3> QED
      BY <1>2, <3>2, <3>3
  <2>3. \A j \in 1..Len(All'), k \in 1..Len(posted) : All'[j].from = s /\ posted[k].msg.from = s
          => All'[j].id < posted[k].msg.id
    BY <1>1, <1>2, <1>3, <1>4 DEF Numbered
  <2>4. \A k \in 1..Len(posted') : posted'[k].msg.from = s => posted'[k].msg.id \in 1..sends'[s]
    BY <1>1, <1>2, <1>3 DEF Numbered
  <2>5. \A k, l \in 1..Len(posted') : k < l /\ posted'[k].msg.from = s /\ posted'[l].msg.from = s
          => posted'[k].msg.id < posted'[l].msg.id
    BY <1>1, <1>2 DEF Numbered
  <2>6. \A j \in 1..Len(All'), k \in 1..Len(posted') :
          All'[j].from = s /\ posted'[k].msg.from = s => All'[j].id < posted'[k].msg.id
    BY <1>2, <2>3
  <2> QED
    BY <2>1, <2>2, <2>4, <2>5, <2>6 DEF Numbered
<1>6. ASSUME Calm', Clean'
      PROVE  NoGap(s)' /\ NoneLost(s)'
  <2>1. Calm /\ Clean
    BY <1>2, <1>6 DEF StateStays, Clean
  <2>2. \A n \in 1..sends[s] : InOutput(s, n) \/ InPosted(s, n)
    BY <1>1, <2>1 DEF NoneLost
  <2>3. NoGap(s)'
    <3>1. ASSUME s = "loop", sends[s] # 0
          PROVE  InOutput(s, sends[s])
      BY <1>3, <1>4, <2>2, <3>1 DEF InPosted
    <3>2. m.from = s => m.id = 1 \/ \E n \in Nat : n + 1 = m.id /\ InOutput(s, n)
      BY <1>3, <3>1
    <3>3. NoGap(s) /\ OutputMore(m)
      BY <1>1, <2>1 DEF m
    <3> QED
      BY <1>2, <3>2, <3>3, NoGapMore
  <2>4. NoneLost(s)'
    <3> SUFFICES ASSUME NEW n \in 1..sends'[s]
                 PROVE  InOutput(s, n)' \/ InPosted(s, n)'
      BY DEF NoneLost
    <3>1. CASE n \in 1..sends[s]
      <4>1. InOutput(s, n) => InOutput(s, n)'
        BY <1>2 DEF InOutput
      <4>2. InPosted(s, n) => InPosted(s, n)'
        BY <1>2 DEF InPosted
      <4> QED
        BY <2>2, <3>1, <4>1, <4>2
    <3>2. CASE n \notin 1..sends[s]
      <4>1. s = "loop" /\ n = sends[s] + 1
        BY <1>3, <3>2
      <4>2. All'[Len(All) + 1].from = s /\ All'[Len(All) + 1].id = n /\ Len(All) + 1 \in 1..Len(All')
        BY <1>2, <1>3, <4>1
      <4> QED
        BY <4>2 DEF InOutput
    <3> QED
      BY <3>1, <3>2
  <2> QED
    BY <2>3, <2>4
<1> QED
  BY <1>5, <1>6

\* A handler leaves the queue, and a message with it only if the connection is
\* disconnected.
LEMMA OrderedDrop ==
  ASSUME Ordered, Lengths, PostedLess, OutputSame, StateStays, UNCHANGED sends,
         state = "kDisconnected" \/ posted[1].msg = NoMsg
  PROVE  Ordered'
<1> SUFFICES ASSUME NEW s \in Senders
             PROVE  Numbered(s)' /\ (Calm' /\ Clean' => NoGap(s)' /\ NoneLost(s)')
  BY DEF Ordered, Senders
<1>1. Numbered(s) /\ (Calm /\ Clean => NoGap(s) /\ NoneLost(s))
  BY DEF Ordered
<1>2. /\ Len(All) \in Nat /\ Len(posted) \in Nat /\ Len(All') = Len(All)
      /\ \A i \in 1..Len(All) : All'[i] = All[i]
      /\ Len(posted) > 0 /\ Len(posted') = Len(posted) - 1
      /\ \A k \in 1..Len(posted') : posted'[k] = posted[k + 1] /\ k + 1 \in 1..Len(posted)
      /\ \A k \in 1..Len(posted) : k # 1 => k - 1 \in 1..Len(posted') /\ posted'[k - 1] = posted[k]
  BY DEF Lengths, OutputSame, PostedLess
<1>3. Numbered(s)'
  <2>1. \A i \in 1..Len(All') : All'[i].from = s => All'[i].id \in 1..sends'[s]
    BY <1>1, <1>2 DEF Numbered
  <2>2. \A k \in 1..Len(posted') : posted'[k].msg.from = s => posted'[k].msg.id \in 1..sends'[s]
    BY <1>1, <1>2 DEF Numbered
  <2>3. \A i, j \in 1..Len(All') : i < j /\ All'[i].from = s /\ All'[j].from = s
          => All'[i].id < All'[j].id
    BY <1>1, <1>2 DEF Numbered
  <2>4. \A k, l \in 1..Len(posted') : k < l /\ posted'[k].msg.from = s /\ posted'[l].msg.from = s
          => posted'[k].msg.id < posted'[l].msg.id
    BY <1>1, <1>2, SMTT(30) DEF Numbered
  <2>5. \A i \in 1..Len(All'), k \in 1..Len(posted') : All'[i].from = s /\ posted'[k].msg.from = s
          => All'[i].id < posted'[k].msg.id
    BY <1>1, <1>2, SMTT(30) DEF Numbered
  <2> QED
    BY <2>1, <2>2, <2>3, <2>4, <2>5 DEF Numbered
<1>4. ASSUME Calm', Clean'
      PROVE  NoGap(s)' /\ NoneLost(s)'
  <2>1. Calm /\ Clean
    BY <1>2, <1>4 DEF StateStays, Clean
  <2>2. NoGap(s)'
    BY <1>1, <1>2, <1>4, <2>1, NoGapSame
  <2>3. NoneLost(s)'
    <3> SUFFICES ASSUME state' # "kDisconnected", NEW n \in 1..sends[s]
                 PROVE  InOutput(s, n)' \/ InPosted(s, n)'
      BY DEF NoneLost
    <3>1. InOutput(s, n) \/ InPosted(s, n)
      BY <1>1, <1>4, <2>1 DEF NoneLost, StateStays
    <3>2. InOutput(s, n) => InOutput(s, n)'
      BY <1>2 DEF InOutput
    <3>3. posted[1].msg.from # s
      BY <1>4, NotSenders DEF StateStays
    <3>4. InPosted(s, n) => InPosted(s, n)'
      BY <1>2, <3>3 DEF InPosted
    <3> QED
      BY <3>1, <3>2, <3>4
  <2> QED
    BY <2>2, <2>3
<1> QED
  BY <1>3, <1>4

\* The first message posted goes to the output, or garbage in its place.
LEMMA OrderedPass ==
  ASSUME Ordered, Lengths, PostedLess, StateStays, UNCHANGED sends, state # "kDisconnected",
         sends \in [Senders -> Nat],
         NEW m, OutputMore(m), m = posted[1].msg \/ m = Garbage
  PROVE  Ordered'
<1> SUFFICES ASSUME NEW s \in Senders
             PROVE  Numbered(s)' /\ (Calm' /\ Clean' => NoGap(s)' /\ NoneLost(s)')
  BY DEF Ordered, Senders
<1>1. Numbered(s) /\ (Calm /\ Clean => NoGap(s) /\ NoneLost(s))
  BY DEF Ordered
<1>2. /\ Len(All) \in Nat /\ Len(posted) \in Nat
      /\ Len(All') = Len(All) + 1 /\ All'[Len(All) + 1] = m
      /\ \A i \in 1..Len(All) : All'[i] = All[i]
      /\ 1..Len(All') = 1..Len(All) \cup {Len(All) + 1}
      /\ Len(posted) > 0 /\ Len(posted') = Len(posted) - 1 /\ 1 \in 1..Len(posted)
      /\ \A k \in 1..Len(posted') : posted'[k] = posted[k + 1] /\ k + 1 \in 1..Len(posted)
      /\ \A k \in 1..Len(posted) : k # 1 => k - 1 \in 1..Len(posted') /\ posted'[k - 1] = posted[k]
  BY DEF Lengths, OutputMore, PostedLess
<1>3. m.from = s => m = posted[1].msg
  BY NotSenders
<1>4. sends[s] \in Nat /\ sends' = sends
  OBVIOUS
<1>5. Numbered(s)'
  <2>1. \A j \in 1..Len(All') : All'[j].from = s => All'[j].id \in 1..sends[s]
    BY <1>1, <1>2, <1>3 DEF Numbered
  <2>2. \A i, j \in 1..Len(All') : i < j /\ All'[i].from = s /\ All'[j].from = s
          => All'[i].id < All'[j].id
    <3> SUFFICES ASSUME NEW i \in 1..Len(All'), NEW j \in 1..Len(All'), i < j,
                        All'[i].from = s, All'[j].from = s
                 PROVE  All'[i].id < All'[j].id
      OBVIOUS
    <3>1. i \in 1..Len(All) /\ All'[i] = All[i] /\ All[i].from = s
      BY <1>2
    <3>2. CASE j \in 1..Len(All)
      BY <1>1, <1>2, <3>1, <3>2 DEF Numbered
    <3>3. CASE j = Len(All) + 1
      <4>1. All'[j] = posted[1].msg /\ posted[1].msg.from = s
        BY <1>2, <1>3, <3>3
      <4>2. All[i].id < posted[1].msg.id
        BY <1>1, <1>2, <3>1, <4>1 DEF Numbered
      <4> QED
        BY <3>1, <4>1, <4>2
    <3> QED
      BY <1>2, <3>2, <3>3
  <2>3. \A j \in 1..Len(All'), k \in 1..Len(posted') : All'[j].from = s /\ posted'[k].msg.from = s
          => All'[j].id < posted'[k].msg.id
    <3> SUFFICES ASSUME NEW j \in 1..Len(All'), NEW k \in 1..Len(posted'),
                        All'[j].from = s, posted'[k].msg.from = s
                 PROVE  All'[j].id < posted'[k].msg.id
      OBVIOUS
    <3>1. k + 1 \in 1..Len(posted) /\ posted'[k] = posted[k + 1] /\ 1 < k + 1
      BY <1>2
    <3>2. CASE j \in 1..Len(All)
      <4>1. All'[j] = All[j]
        BY <1>2, <3>2
      <4>2. All[j].id < posted[k + 1].msg.id
        BY <1>1, <3>1, <3>2, <4>1 DEF Numbered
      <4> QED
        BY <3>1, <4>1, <4>2
    <3>3. CASE j = Len(All) + 1
      <4>1. All'[j] = posted[1].msg /\ posted[1].msg.from = s
        BY <1>2, <1>3, <3>3
      <4>2. posted[1].msg.id < posted[k + 1].msg.id
        BY <1>1, <1>2, <3>1, <4>1 DEF Numbered
      <4> QED
        BY <3>1, <4>1, <4>2
    <3> QED
      BY <1>2, <3>2, <3>3
  <2>4. /\ \A k \in 1..Len(posted') : posted'[k].msg.from = s => posted'[k].msg.id \in 1..sends[s]
        /\ \A k, l \in 1..Len(posted') : k < l /\ posted'[k].msg.from = s /\ posted'[l].msg.from = s
              => posted'[k].msg.id < posted'[l].msg.id
    <3>1. \A k \in 1..Len(posted') : posted'[k] = posted[k + 1] /\ k + 1 \in 1..Len(posted)
      BY <1>2
    <3>2. /\ \A k \in 1..Len(posted) : posted[k].msg.from = s => posted[k].msg.id \in 1..sends[s]
          /\ \A k, l \in 1..Len(posted) : k < l /\ posted[k].msg.from = s /\ posted[l].msg.from = s
                => posted[k].msg.id < posted[l].msg.id
      BY <1>1 DEF Numbered
    <3>3. ASSUME NEW k \in 1..Len(posted'), posted'[k].msg.from = s
          PROVE  posted'[k].msg.id \in 1..sends[s]
      BY <3>1, <3>2, <3>3
    <3>4. ASSUME NEW k \in 1..Len(posted'), NEW l \in 1..Len(posted'), k < l,
                 posted'[k].msg.from = s, posted'[l].msg.from = s
          PROVE  posted'[k].msg.id < posted'[l].msg.id
      <4>1. k + 1 < l + 1
        BY <3>4
      <4> QED
        BY <3>1, <3>2, <3>4, <4>1
    <3> QED
      BY <3>3, <3>4
  <2> QED
    BY <1>4, <2>1, <2>2, <2>3, <2>4 DEF Numbered
<1>6. ASSUME Calm', Clean'
      PROVE  NoGap(s)' /\ NoneLost(s)'
  <2>1. Calm /\ Clean /\ m = posted[1].msg
    BY <1>2, <1>6 DEF StateStays, Clean
  <2>2. \A n \in 1..sends[s] : InOutput(s, n) \/ InPosted(s, n)
    BY <1>1, <2>1 DEF NoneLost
  <2>3. NoGap(s)'
    <3>1. ASSUME m.from = s, m.id # 1
          PROVE  m.id - 1 \in Nat /\ InOutput(s, m.id - 1)
      <4>1. m.id \in 1..sends[s] /\ m.id - 1 \in 1..sends[s]
        BY <1>1, <1>2, <1>4, <2>1, <3>1 DEF Numbered
      <4>2. ~InPosted(s, m.id - 1)
        <5> SUFFICES ASSUME NEW k \in 1..Len(posted), posted[k].msg.from = s,
                            posted[k].msg.id = m.id - 1
                     PROVE  FALSE
          BY DEF InPosted
        <5>1. k # 1 /\ 1 < k
          BY <1>2, <2>1, <4>1
        <5>2. m.id < posted[k].msg.id
          BY <1>1, <1>2, <2>1, <3>1, <5>1 DEF Numbered
        <5> QED
          BY <4>1, <5>2
      <4> QED
        BY <2>2, <4>1, <4>2
    <3>2. m.from = s /\ m.id # 1 => (m.id - 1) + 1 = m.id
      BY <1>1, <1>2, <1>4, <2>1 DEF Numbered
    <3>3. m.from = s => m.id = 1 \/ \E n \in Nat : n + 1 = m.id /\ InOutput(s, n)
      BY <3>1, <3>2
    <3> QED
      BY <1>1, <1>2, <2>1, <3>3, NoGapMore
  <2>4. NoneLost(s)'
    <3> SUFFICES ASSUME NEW n \in 1..sends[s]
                 PROVE  InOutput(s, n)' \/ InPosted(s, n)'
      BY <1>4 DEF NoneLost
    <3>1. CASE InOutput(s, n)
      BY <1>2, <3>1 DEF InOutput
    <3>2. CASE InPosted(s, n)
      <4>1. PICK k \in 1..Len(posted) : posted[k].msg.from = s /\ posted[k].msg.id = n
        BY <3>2 DEF InPosted
      <4>2. CASE k = 1
        BY <1>2, <2>1, <4>1, <4>2 DEF InOutput
      <4>3. CASE k # 1
        BY <1>2, <4>1, <4>3 DEF InPosted
      <4> QED
        BY <4>2, <4>3
    <3> QED
      BY <2>2, <3>1, <3>2
  <2> QED
    BY <2>3, <2>4
<1> QED
  BY <1>5, <1>6

\* The output and the queue are sequences.
LEMMA LengthsHold ==
  ASSUME Inv
  PROVE  Lengths
<1>1. wire \in Seq(Output) /\ outputBuffer \in Seq(Output) /\ posted \in Seq(Task)
  BY DEF Inv, OutputOK, Life, ControlOK
<1>2. Len(All) = Len(wire) + Len(outputBuffer) /\ Len(wire) \in Nat /\ Len(outputBuffer) \in Nat
  BY <1>1, AllIs DEF All
<1> QED
  BY <1>1, <1>2 DEF Lengths

\* While only the loop's thread writes state_, a disconnected connection stays so.
LEMMA StateStaysHolds ==
  ASSUME Inv, Early, [Next]_vars
  PROVE  StateStays
<1>1. CASE RunPosted
  <2>1. Head(posted).run \in Queued /\ UNCHANGED used
    BY <1>1, RunRemoves DEF RunPosted, Inv, Life, ControlOK, userVars
  <2>2. Head(posted).run = "connectEstablished" => state = "kConnecting"
    BY <2>1 DEF Early
  <2>3. state' # "kDisconnected" => state # "kDisconnected"
    BY <1>1, <2>2 DEF RunPosted, connectDestroyed, forceCloseInThisThread, handleClose, connVars, Open
  <2> QED
    BY <2>1, <2>3 DEF StateStays, Calm
<1>2. CASE ReadFailed
  BY <1>2 DEF ReadFailed, handleClose, userVars, StateStays, Calm, Open
<1>3. CASE readHeader \/ readBody \/ WriteDone \/ WriteFailed \/ removeConnectionInThisThread
           \/ Destroy \/ PeerClose \/ UNCHANGED vars
  BY <1>3 DEF readHeader, readBody, WriteDone, Wrote, WriteFailed, removeConnectionInThisThread,
     Destroy, PeerClose, vars, userVars, connVars, StateStays, Calm
<1>4. CASE send \/ shutdown \/ forceClose
  BY <1>4 DEF send, shutdown, forceClose, Accept, connVars, StateStays, Calm, Open
<1>5. ASSUME NEW t \in Threads, NEW kind \in ThreadCalls, TestState(t, kind)
      PROVE  StateStays
  BY <1>5 DEF TestState, Accept, connVars, StateStays, Calm
<1>6. ASSUME NEW t \in Threads, FinishCall(t)
      PROVE  StateStays
  <2>1. CASE PostSend(t) \/ PostClose(t)
    BY <2>1 DEF PostSend, PostClose, connVars, StateStays, Calm
  <2>2. CASE SetDisconnecting(t)
    <3>1. ~Calm /\ UNCHANGED used
      BY <2>2 DEF SetDisconnecting, StepCall, Inv, Life, Traced
    <3> QED
      BY <3>1 DEF StateStays, Calm
  <2> QED
    BY <1>6, <2>1, <2>2 DEF FinishCall
<1> QED
  BY <1>1, <1>2, <1>3, <1>4, <1>5, <1>6 DEF Next, LoopStep, UserStep

\* What is queued once a step was taken that runs no handler.
LEMMA QueuedStep ==
  ASSUME Inv, [Next]_vars, ~RunPosted
  PROVE  \/ UNCHANGED posted /\ Queued' = Queued
         \/ \E h \in {"connectDestroyed", "shutdownInThisThread", "forceCloseInThisThread"} :
              /\ Queued' = Queued \cup {h} /\ PostedMore(Bind(h)) /\ Bind(h).msg = NoMsg
              /\ \/ h = "connectDestroyed" /\ removeConnectionInThisThread
                 \/ h = "forceCloseInThisThread" /\ forceClose
                 \/ \E t \in Threads : /\ PostClose(t)
                                       /\ h = "shutdownInThisThread" <=> call[t] = "postShutdown"
         \/ \E h \in SendHandlers, t \in Threads :
              /\ PostSend(t) /\ Queued' = Queued \cup {h}
              /\ PostedMore(BindMsg(h, [from |-> t, id |-> sends[t] + 1]))
<1> USE DEF Inv, Life, ControlOK
<1>1. UNCHANGED posted => Queued' = Queued
  BY DEF Queued
<1>2. ASSUME NEW h \in CloseHandlers, Post(Bind(h))
      PROVE  Queued' = Queued \cup {h} /\ PostedMore(Bind(h)) /\ Bind(h).msg = NoMsg
  <2>1. Bind(h) \in Task /\ Bind(h).run = h /\ Bind(h).msg = NoMsg
    BY BindsTask DEF Bind
  <2> QED
    BY <1>2, <2>1, PostAdds, PostedSteps
<1>3. CASE removeConnectionInThisThread
  BY <1>1, <1>2, <1>3 DEF removeConnectionInThisThread, CloseHandlers
<1>4. CASE forceClose
  BY <1>2, <1>4 DEF forceClose, CloseHandlers
<1>5. ASSUME NEW t \in Threads, PostClose(t)
      PROVE  \E h \in {"shutdownInThisThread", "forceCloseInThisThread"} :
               /\ Post(Bind(h))
               /\ h = "shutdownInThisThread" <=> call[t] = "postShutdown"
  BY <1>5 DEF PostClose, StepCall
<1>6. ASSUME NEW t \in Threads, PostSend(t)
      PROVE  \E h \in SendHandlers :
               /\ Queued' = Queued \cup {h}
               /\ PostedMore(BindMsg(h, [from |-> t, id |-> sends[t] + 1]))
  <2>1. PICK h \in SendHandlers : Post(BindMsg(h, [from |-> t, id |-> sends[t] + 1]))
    BY <1>6 DEF PostSend, SendHandlers
  <2>2. [from |-> t, id |-> sends[t] + 1] \in Msg
    BY DEF Msg, Senders
  <2>3. /\ BindMsg(h, [from |-> t, id |-> sends[t] + 1]) \in Task
        /\ BindMsg(h, [from |-> t, id |-> sends[t] + 1]).run = h
    BY <2>2, BindsTask
  <2> QED
    BY <2>1, <2>3, PostAdds, PostedSteps
<1>7. CASE \/ readHeader \/ readBody \/ ReadFailed \/ WriteDone \/ WriteFailed \/ Destroy
           \/ PeerClose \/ UNCHANGED vars \/ send \/ shutdown
           \/ \E t \in Threads : (\E kind \in ThreadCalls : TestState(t, kind)) \/ SetDisconnecting(t)
  BY <1>1, <1>7 DEF readHeader, readBody, ReadFailed, WriteDone, Wrote, WriteFailed, Destroy,
     PeerClose, vars, send, shutdown, TestState, SetDisconnecting
<1>8. ASSUME NEW t \in Threads, PostClose(t)
      PROVE  \E h \in {"connectDestroyed", "shutdownInThisThread", "forceCloseInThisThread"} :
               /\ Queued' = Queued \cup {h} /\ PostedMore(Bind(h)) /\ Bind(h).msg = NoMsg
               /\ h = "shutdownInThisThread" <=> call[t] = "postShutdown"
  BY <1>2, <1>5, <1>8 DEF CloseHandlers
<1> QED
  BY <1>3, <1>4, <1>6, <1>7, <1>8 DEF Next, LoopStep, UserStep, FinishCall

\* Before connectEstablished has run, only it and the close by the peer can happen.
LEMMA EarlyKept ==
  ASSUME Inv, Early, [Next]_vars
  PROVE  Early'
<1>1. CASE RunPosted
  <2>1. /\ Len(posted') = Len(posted) - 1 /\ Queued' \subseteq Queued
        /\ Head(posted).run \in Queued
    BY <1>1, RunRemoves DEF RunPosted, Inv, Life, ControlOK
  <2>2. CASE state = "kConnecting"
    <3>1. Head(posted).run = "connectEstablished" /\ Len(posted') = 0
      BY <2>1, <2>2 DEF Early
    <3>2. state' = "kConnected" /\ Queued' = {}
      BY <1>1, <3>1 DEF RunPosted, connectEstablished, Queued
    <3> QED
      BY <3>2 DEF Early
  <2>3. CASE state # "kConnecting"
    <3>1. "connectEstablished" \notin Queued
      BY <2>3 DEF Early
    <3>2. state' # "kConnecting"
      BY <1>1, <2>3 DEF RunPosted, connectEstablished, connectDestroyed, forceCloseInThisThread,
         handleClose, connVars
    <3> QED
      BY <2>1, <3>1, <3>2 DEF Early
  <2> QED
    BY <2>2, <2>3
<1>2. CASE ~RunPosted /\ state # "kConnecting"
  <2>1. "connectEstablished" \notin Queued
    BY <1>2 DEF Early
  <2>2. "connectEstablished" \notin Queued'
    <3>1. \/ Queued' = Queued
          \/ \E h \in {"connectDestroyed", "shutdownInThisThread", "forceCloseInThisThread"} :
               Queued' = Queued \cup {h}
          \/ \E h \in SendHandlers : Queued' = Queued \cup {h}
      BY <1>2, QueuedStep
    <3> QED
      BY <2>1, <3>1 DEF SendHandlers
  <2>3. state' # "kConnecting"
    BY <1>2 DEF Next, LoopStep, UserStep, readHeader, readBody, ReadFailed, handleClose, WriteDone,
       Wrote, WriteFailed, removeConnectionInThisThread, Destroy, PeerClose, send, shutdown,
       forceClose, TestState, FinishCall, PostSend, SetDisconnecting, PostClose, connVars, vars
  <2> QED
    BY <2>2, <2>3 DEF Early
<1>3. CASE ~RunPosted /\ state = "kConnecting"
  <2>1. /\ Len(posted) = 1 /\ posted # <<>> /\ reading = "none" /\ removals = 0 /\ sock = "open"
        /\ \A t \in Threads : call[t] = "idle"
    BY <1>3 DEF Early
  <2>2. ~(readHeader \/ readBody \/ ReadFailed \/ removeConnectionInThisThread \/ Destroy)
    BY <2>1 DEF readHeader, readBody, ReadFailed, removeConnectionInThisThread, Destroy
  <2>3. ~(send \/ shutdown \/ forceClose)
    BY <1>3 DEF send, shutdown, forceClose, Open
  <2>4. \A t \in Threads : ~(\E kind \in ThreadCalls : TestState(t, kind)) /\ ~FinishCall(t)
    BY <1>3, <2>1 DEF TestState, FinishCall, PostSend, SetDisconnecting, PostClose, StepCall, Open
  <2>5. WriteDone \/ WriteFailed \/ PeerClose \/ UNCHANGED vars
    BY <1>3, <2>2, <2>3, <2>4 DEF Next, LoopStep, UserStep
  <2>6. UNCHANGED <<state, posted, sock, reading, removals, call>>
    BY <1>3, <2>5 DEF WriteDone, Wrote, WriteFailed, PeerClose, vars, connVars, outVars, ownVars,
       userVars
  <2> QED
    BY <1>3, <2>6 DEF Early, Queued
<1> QED
  BY <1>1, <1>2, <1>3

\* state_ is past kConnected before the shutdown it was changed for can be seen.
LEMMA ShutKept ==
  ASSUME Inv, Early, ShutInv, [Next]_vars
  PROVE  ShutInv'
<1> USE DEF Inv, Life, ControlOK
<1>1. CASE RunPosted
  <2> DEFINE task == Head(posted)
  <2>1. /\ Len(posted') = Len(posted) - 1 /\ Queued' \subseteq Queued /\ task.run \in Queued
        /\ UNCHANGED call
    BY <1>1, RunRemoves DEF RunPosted, userVars
  <2> HIDE DEF task
  <2>2. CASE task.run = "connectEstablished" /\ connectEstablished
    <3>1. state = "kConnecting"
      BY <2>1, <2>2 DEF Early
    <3>2. Len(posted') = 0 /\ sock = "open" /\ \A t \in Threads : call[t] = "idle"
      BY <2>1, <3>1 DEF Early
    <3>3. Queued' = {} /\ UNCHANGED sock
      BY <2>2, <3>2 DEF Queued, connectEstablished, outVars
    <3> QED
      BY <2>1, <3>2, <3>3 DEF ShutInv, ShutAsked
  <2>3. CASE task.run = "shutdownInThisThread" /\ UNCHANGED connVars
    <3>1. state \notin {"kConnecting", "kConnected"}
      BY <2>1, <2>3 DEF ShutInv, ShutAsked
    <3> QED
      BY <2>3, <3>1 DEF ShutInv, connVars
  <2>4. CASE UNCHANGED sock /\ (state' = state \/ state' = "kDisconnected")
    BY <2>1, <2>4 DEF ShutInv, ShutAsked
  <2> QED
    BY <1>1, <2>2, <2>3, <2>4 DEF RunPosted, connectDestroyed, forceCloseInThisThread, handleClose,
       sendInThisThread, connVars, outVars, task
<1>2. CASE ~RunPosted /\ state' \in {"kConnecting", "kConnected"}
  <2>1. state' = state
    BY <1>2 DEF Next, LoopStep, UserStep, readHeader, readBody, ReadFailed, handleClose, WriteDone,
       Wrote, WriteFailed, removeConnectionInThisThread, Destroy, PeerClose, send, shutdown,
       forceClose, TestState, FinishCall, PostSend, SetDisconnecting, PostClose, connVars, vars
  <2>2. ~ShutAsked
    BY <1>2, <2>1 DEF ShutInv
  <2>3. sock' # "shut"
    BY <1>2, <2>1, <2>2 DEF ShutAsked, Next, LoopStep, UserStep, readHeader, readBody, ReadFailed,
       WriteDone, Wrote, WriteFailed, removeConnectionInThisThread, Destroy, PeerClose, send,
       sendInThisThread, shutdown, forceClose, TestState, FinishCall, PostSend, SetDisconnecting,
       PostClose, outVars, vars
  <2>4. "shutdownInThisThread" \notin Queued'
    <3>1. "shutdownInThisThread" \notin Queued /\ \A t \in Threads : call[t] # "postShutdown"
      BY <2>2 DEF ShutAsked
    <3>2. \A h : (\E t \in Threads : h = "shutdownInThisThread" <=> call[t] = "postShutdown")
            => h # "shutdownInThisThread"
      BY <3>1
    <3>3. \/ Queued' = Queued
          \/ \E h \in {"connectDestroyed", "shutdownInThisThread", "forceCloseInThisThread"} :
               /\ Queued' = Queued \cup {h}
               /\ \/ h = "connectDestroyed" \/ h = "forceCloseInThisThread"
                  \/ \E t \in Threads : h = "shutdownInThisThread" <=> call[t] = "postShutdown"
          \/ \E h \in SendHandlers : Queued' = Queued \cup {h}
      BY <1>2, QueuedStep
    <3> QED
      BY <3>1, <3>2, <3>3 DEF SendHandlers
  <2>5. \A t \in Threads : call'[t] # "postShutdown"
    <3>1. ASSUME UNCHANGED call PROVE \A t \in Threads : call'[t] # "postShutdown"
      BY <2>2, <3>1 DEF ShutAsked
    <3>2. ASSUME NEW t \in Threads, NEW kind \in ThreadCalls, TestState(t, kind)
          PROVE  \A u \in Threads : call'[u] # "postShutdown"
      BY <2>2, <3>2 DEF ShutAsked, TestState, StepCall, ThreadCalls
    <3>3. ASSUME NEW t \in Threads, PostSend(t) \/ PostClose(t)
          PROVE  \A u \in Threads : call'[u] # "postShutdown"
      BY <2>2, <3>3 DEF ShutAsked, PostSend, PostClose, StepCall
    <3>4. \A t \in Threads : ~SetDisconnecting(t)
      BY <1>2 DEF SetDisconnecting
    <3> QED
      BY <1>2, <3>1, <3>2, <3>3, <3>4 DEF Next, LoopStep, UserStep, readHeader, readBody, ReadFailed,
         WriteDone, Wrote, WriteFailed, removeConnectionInThisThread, Destroy, PeerClose, send,
         shutdown, forceClose, FinishCall, userVars, vars
  <2> QED
    BY <2>3, <2>4, <2>5 DEF ShutInv, ShutAsked
<1> QED
  BY <1>1, <1>2 DEF ShutInv

\* What another thread posts comes from it.
LEMMA PostedFromKept ==
  ASSUME Inv, PostedFrom, [Next]_vars
  PROVE  PostedFrom'
<1>1. posted \in Seq(Task) /\ Len(posted) \in Nat
  BY DEF Inv, Life, ControlOK
<1>2. CASE RunPosted
  BY <1>1, <1>2, PostedSteps DEF RunPosted, PostedLess, PostedFrom
<1>3. CASE UNCHANGED posted
  BY <1>3 DEF PostedFrom
<1>4. ASSUME NEW x, PostedMore(x), x.msg.from \in Threads \cup {"none"}
      PROVE  PostedFrom'
  BY <1>1, <1>4 DEF PostedMore, PostedFrom
<1>5. NoMsg.from = "none" /\ \A h, t, n : BindMsg(h, [from |-> t, id |-> n]).msg.from = t
  BY DEF NoMsg, BindMsg
<1>6. ASSUME NEW h, PostedMore(Bind(h)), Bind(h).msg = NoMsg
      PROVE  PostedFrom'
  BY <1>4, <1>5, <1>6
<1>7. ASSUME NEW h, NEW t \in Threads, PostedMore(BindMsg(h, [from |-> t, id |-> sends[t] + 1]))
      PROVE  PostedFrom'
  BY <1>4, <1>5, <1>7
<1> QED
  BY <1>2, <1>3, <1>6, <1>7, QueuedStep

\* No message of the loop is left in the buffer when the sending side is shut.
LEMMA NoLoopOutputKept ==
  ASSUME Inv, ShutInv, NoLoopOutput, PostedFrom, [Next]_vars
  PROVE  NoLoopOutput'
<1>1. outputBuffer \in Seq(Output) /\ Len(outputBuffer) \in Nat /\ sock \in {"open", "shut"}
  BY DEF Inv, OutputOK
<1>2. ASSUME UNCHANGED <<outputBuffer, sock>>
      PROVE  NoLoopOutput'
  BY <1>2 DEF NoLoopOutput
<1>3. ASSUME shutdownInThisThread
      PROVE  NoLoopOutput'
  BY <1>3 DEF shutdownInThisThread, NoLoopOutput
<1>4. ASSUME NEW m \in Output, m.from # "loop", sendInThisThread(m)
      PROVE  NoLoopOutput'
  <2>1. CASE outputBuffer' = Append(outputBuffer, m) /\ UNCHANGED sock
    BY <1>1, <1>4, <2>1, AppendProperties DEF NoLoopOutput
  <2> QED
    BY <1>2, <1>4, <2>1 DEF sendInThisThread
<1>5. CASE RunPosted
  <2> DEFINE task == Head(posted)
  <2>1. task \in Task /\ task = posted[1] /\ 1 \in 1..Len(posted)
    BY <1>5, PostedSteps DEF RunPosted, Inv, Life, ControlOK
  <2>2. task.msg.from \in Threads \cup {"none"}
    BY <2>1 DEF PostedFrom
  <2>3. task.msg.from # "loop" /\ Garbage.from # "loop"
    BY <2>2, NotSenders DEF Garbage
  <2>4. task.run \in SendHandlers => task.msg \in Output
    BY <2>1 DEF Task, SendHandlers, CloseHandlers, Output
  <2> HIDE DEF task
  <2>5. CASE task.run \in SendHandlers /\ \E m \in {task.msg, Garbage} : sendInThisThread(m)
    BY <1>4, <2>3, <2>4, <2>5 DEF Output
  <2> QED
    BY <1>2, <1>3, <1>5, <2>5 DEF RunPosted, connectEstablished, SendHandlers, outVars, task
<1>6. CASE WriteDone
  <2>1. outputBuffer' = Unwritten /\ (sock' = "shut" => Unwritten = <<>>)
    BY <1>6 DEF WriteDone, Wrote
  <2> QED
    BY <2>1 DEF NoLoopOutput
<1>7. CASE send
  <2>1. sock' # "shut"
    BY <1>7 DEF send, sendInThisThread, ShutInv, ShutAsked
  <2> QED
    BY <2>1 DEF NoLoopOutput
<1>8. CASE shutdown
  BY <1>3, <1>8 DEF shutdown
<1>9. CASE \/ readHeader \/ readBody \/ ReadFailed \/ WriteFailed \/ removeConnectionInThisThread
           \/ Destroy \/ PeerClose \/ forceClose \/ UNCHANGED vars
           \/ \E t \in Threads : (\E kind \in ThreadCalls : TestState(t, kind)) \/ FinishCall(t)
  BY <1>2, <1>9 DEF readHeader, readBody, ReadFailed, WriteFailed, removeConnectionInThisThread,
     Destroy, PeerClose, forceClose, vars, outVars, TestState, FinishCall, PostSend,
     SetDisconnecting, PostClose
<1> QED
  BY <1>5, <1>6, <1>7, <1>8, <1>9 DEF Next, LoopStep, UserStep

\* Every step keeps the messages of each sender in order.
LEMMA OrderedKept ==
  ASSUME Inv, Order, [Next]_vars
  PROVE  Ordered'
<1>1. /\ Ordered /\ Lengths /\ StateStays /\ PostedFrom /\ OutputOK
      /\ sends \in [Senders -> Nat] /\ posted \in Seq(Task)
  BY LengthsHold, StateStaysHolds DEF Order, Inv, Life, ControlOK
<1>2. ASSUME UNCHANGED <<wire, outputBuffer>>
      PROVE  OutputSame /\ OutputSpoilt
  BY <1>2 DEF OutputSame, OutputSpoilt, All
<1>3. UNCHANGED posted => PostedSame
  BY DEF PostedSame
<1>4. CASE RunPosted
  <2> DEFINE task == Head(posted)
  <2>1. PostedLess /\ task = posted[1] /\ task \in Task /\ UNCHANGED sends
    BY <1>1, <1>4, PostedSteps DEF RunPosted, userVars
  <2>2. /\ task.run \in SendHandlers => task.msg \in Output
        /\ task.run \in CloseHandlers => task.msg = NoMsg
    BY <2>1 DEF Task, SendHandlers, CloseHandlers, Output
  <2> HIDE DEF task
  <2>3. ASSUME task.run \in SendHandlers, NEW m \in {task.msg, Garbage}, sendInThisThread(m)
        PROVE  Ordered'
    <3>1. m \in Output
      BY <2>2, <2>3 DEF Output
    <3>2. CASE state = "kDisconnected"
      <4>1. OutputSame
        BY <1>1, <2>3, <3>1, <3>2, SendOutput
      <4> QED
        BY <1>1, <2>1, <3>2, <4>1, OrderedDrop
    <3>3. CASE state # "kDisconnected"
      <4>1. OutputMore(m)
        BY <1>1, <2>3, <3>1, <3>3, SendOutput
      <4>2. m = posted[1].msg \/ m = Garbage
        BY <2>1, <2>3
      <4> QED
        BY <1>1, <2>1, <3>3, <4>1, <4>2, OrderedPass
    <3> QED
      BY <3>2, <3>3
  <2>4. ASSUME task.run \in CloseHandlers, UNCHANGED <<wire, outputBuffer>>
        PROVE  Ordered'
    <3>1. OutputSame /\ posted[1].msg = NoMsg
      BY <1>2, <2>1, <2>2, <2>4
    <3> QED
      BY <1>1, <2>1, <3>1, OrderedDrop
  <2> QED
    BY <1>4, <2>3, <2>4 DEF RunPosted, connectEstablished, shutdownInThisThread, outVars,
       SendHandlers, CloseHandlers, task
<1>5. CASE WriteDone
  <2>1. OutputSpoilt /\ PostedSame /\ UNCHANGED sends
    BY <1>1, <1>3, <1>5, WriteOutput DEF WriteDone, Wrote, userVars
  <2> QED
    BY <1>1, <2>1, OrderedSame
<1>6. CASE send
  <2>1. /\ PostedSame /\ sends' = [sends EXCEPT !["loop"] = @ + 1] /\ state # "kDisconnected"
        /\ sendInThisThread([from |-> "loop", id |-> sends["loop"] + 1])
    BY <1>3, <1>6 DEF send
  <2>2. [from |-> "loop", id |-> sends["loop"] + 1] \in Output
    BY <1>1 DEF Output, Msg, Senders
  <2>3. OutputMore([from |-> "loop", id |-> sends["loop"] + 1])
    BY <1>1, <2>1, <2>2, SendOutput
  <2> QED
    BY <1>1, <2>1, <2>3, OrderedLoopSend
<1>7. ASSUME NEW t \in Threads, PostSend(t), NEW h,
             PostedMore(BindMsg(h, [from |-> t, id |-> sends[t] + 1]))
      PROVE  Ordered'
  <2> DEFINE x == BindMsg(h, [from |-> t, id |-> sends[t] + 1])
  <2>1. /\ UNCHANGED <<wire, outputBuffer>> /\ sends' = [sends EXCEPT ![t] = @ + 1] /\ t \in Senders
        /\ x.msg.from = t /\ x.msg.id = sends[t] + 1 /\ PostedMore(x)
    BY <1>7 DEF PostSend, outVars, Senders, BindMsg
  <2> HIDE DEF x
  <2>2. OutputSame
    BY <1>2, <2>1
  <2> QED
    BY <1>1, <2>1, <2>2, OrderedPost
<1>8. ASSUME NEW h, PostedMore(Bind(h)), Bind(h).msg = NoMsg, UNCHANGED <<wire, outputBuffer, sends>>
      PROVE  Ordered'
  <2>1. \E x : PostedMore(x) /\ x.msg = NoMsg
    BY <1>8
  <2>2. OutputSpoilt /\ UNCHANGED sends
    BY <1>2, <1>8
  <2> QED
    BY <1>1, <2>1, <2>2, OrderedSame
<1>9. CASE removeConnectionInThisThread \/ forceClose \/ \E t \in Threads : PostClose(t)
  <2>1. UNCHANGED <<wire, outputBuffer, sends>>
    BY <1>9 DEF removeConnectionInThisThread, forceClose, PostClose, outVars, userVars
  <2>2. UNCHANGED posted => Ordered'
    BY <1>1, <1>2, <1>3, <2>1, OrderedSame
  <2>3. \A t \in Threads : PostSend(t) => sends' # sends
    BY <1>1 DEF PostSend, Senders
  <2> QED
    BY <1>4, <1>8, <2>1, <2>2, <2>3, QueuedStep
<1>10. CASE \/ readHeader \/ readBody \/ ReadFailed \/ WriteFailed \/ Destroy \/ PeerClose
            \/ shutdown \/ UNCHANGED vars
            \/ \E t \in Threads : (\E kind \in ThreadCalls : TestState(t, kind)) \/ SetDisconnecting(t)
  <2>1. UNCHANGED <<wire, outputBuffer, sends, posted>>
    BY <1>10 DEF readHeader, readBody, ReadFailed, WriteFailed, Destroy, PeerClose, shutdown,
       shutdownInThisThread, vars, outVars, userVars, TestState, SetDisconnecting
  <2>2. OutputSpoilt /\ PostedSame /\ UNCHANGED sends
    BY <1>2, <1>3, <2>1
  <2> QED
    BY <1>1, <2>2, OrderedSame
<1>11. ASSUME NEW t \in Threads, PostSend(t)
       PROVE  Ordered'
  <2>1. PICK h \in SendHandlers : Post(BindMsg(h, [from |-> t, id |-> sends[t] + 1]))
    BY <1>11 DEF PostSend, SendHandlers
  <2>2. [from |-> t, id |-> sends[t] + 1] \in Msg
    BY <1>1 DEF Msg, Senders
  <2>3. BindMsg(h, [from |-> t, id |-> sends[t] + 1]) \in Task
    BY <2>2, BindsTask
  <2>4. PostedMore(BindMsg(h, [from |-> t, id |-> sends[t] + 1]))
    BY <1>1, <2>1, <2>3, PostedSteps
  <2> QED
    BY <1>7, <1>11, <2>4
<1> QED
  BY <1>4, <1>5, <1>6, <1>9, <1>10, <1>11 DEF Next, LoopStep, UserStep, FinishCall

-----------------------------------------------------------------------------
\* Nothing is handed over before the connection is established.
LEMMA InitOrders == Init => Order
<1> SUFFICES ASSUME Init PROVE Order
  OBVIOUS
<1>1. /\ posted = <<Bind("connectEstablished")>> /\ Len(posted) = 1
      /\ posted[1].run = "connectEstablished" /\ posted[1].msg.from = "none"
  BY DEF Init, Bind, NoMsg
<1>2. Queued = {"connectEstablished"} /\ PostedFrom
  BY <1>1 DEF Queued, PostedFrom
<1>3. Early /\ ShutInv /\ NoLoopOutput
  BY <1>1, <1>2 DEF Init, Early, ShutInv, ShutAsked, NoLoopOutput
<1>4. Len(All) = 0
  BY DEF Init, All
<1>5. ASSUME NEW s \in Senders
      PROVE  Numbered(s) /\ NoGap(s) /\ NoneLost(s)
  <2>1. posted[1].msg.from # s /\ 1..sends[s] = {}
    BY <1>1, NotSenders DEF NoMsg, Init
  <2> QED
    BY <1>1, <1>4, <2>1 DEF Numbered, NoGap, NoneLost
<1> QED
  BY <1>2, <1>3, <1>5 DEF Order, Ordered

\* The order of the output is inductive, with the invariant.
THEOREM OrderHolds == Spec => [](Inv /\ Order)
<1>1. Init => Inv /\ Order
  BY InitEstablishes, InitOrders
<1>2. Inv /\ Order /\ [Next]_vars => (Inv /\ Order)'
  <2> SUFFICES ASSUME Inv, Order, [Next]_vars PROVE Inv' /\ Order'
    OBVIOUS
  <2>1. Inv'
    BY NextPreserves
  <2>2. Early' /\ ShutInv' /\ NoLoopOutput' /\ PostedFrom'
    BY EarlyKept, ShutKept, NoLoopOutputKept, PostedFromKept DEF Order
  <2> QED
    BY <2>1, <2>2, OrderedKept DEF Order
<1> QED
  BY <1>1, <1>2, PTL DEF Spec

\* Output reaches the socket in the order it was sent, without a gap while the bytes are
\* there, and the loop's own before the sending side is shut.
THEOREM OutputStaysInOrder == Spec => []OutputInOrder
<1>1. ASSUME Inv, Order
      PROVE  SendersInOrder
  <2> SUFFICES ASSUME NEW j \in 1..Len(All), All[j].from \in Senders
               PROVE  LET before == {i \in 1..(j - 1) : All[i].from = All[j].from} IN
                      /\ \A i \in before : All[i].id < All[j].id
                      /\ used \cap Racy = {} /\ (\A k \in 1..Len(All) : All[k] # Garbage) =>
                           All[j].id = 1 \/ \E i \in before : All[i].id + 1 = All[j].id
    BY DEF SendersInOrder, All
  <2> DEFINE s == All[j].from
             before == {i \in 1..(j - 1) : All[i].from = All[j].from}
  <2>1. Len(All) \in Nat /\ Numbered(s) /\ (Calm /\ Clean => NoGap(s))
    BY <1>1, LengthsHold DEF Order, Ordered, Lengths
  <2>2. \A i \in before : i \in 1..Len(All) /\ i < j /\ All[i].from = s
    BY <2>1
  <2>3. \A i \in before : All[i].id < All[j].id
    BY <2>1, <2>2 DEF Numbered
  <2>4. Calm /\ Clean => All[j].id = 1 \/ \E i \in before : All[i].id + 1 = All[j].id
    BY <2>1 DEF NoGap
  <2> QED
    BY <2>3, <2>4 DEF Calm, Clean
<1>2. ASSUME Inv, Order
      PROVE  LoopSendsBeforeShut
  BY <1>2 DEF Order, ShutInv, ShutAsked, NoLoopOutput, LoopSendsBeforeShut
<1>3. Inv /\ Order => OutputInOrder
  BY <1>1, <1>2 DEF OutputInOrder
<1> QED
  BY <1>3, OrderHolds, PTL

=============================================================================
