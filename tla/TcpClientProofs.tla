--------------------------- MODULE TcpClientProofs ---------------------------
(***************************************************************************)
(* Proofs about TcpClient, for any number of calls and connections and any *)
(* retry delays.                                                           *)
(***************************************************************************)
EXTENDS TcpClient, FiniteSetTheorems, FunctionTheorems, SequenceTheorems, TLAPS

Starts(q) == Cardinality({k \in 1..Len(q) : q[k] = "start"})
Ops == Results \cup {"none", "pending"}

\* After stop() on the loop nothing wants a connection.
StopInv == stopped = "yes" => connectFlag = "no" /\ wanted = "no" /\ restarting = "no"

\* Only a living client restarts.
HereInv == restarting = "yes" => client = "here"

\* The first four invariants, for any number of connect() calls.
BaseInv == TypeOK /\ connects <= calls /\ StopInv /\ HereInv

\* What holds until the second connect(): one effort at most; state_ says how far it is, and
\* connection_ is the open connection; after ~TcpClient the Connector tries nothing unless
\* it was connected.
OneInv ==
  connects <= 1 =>
    /\ failed \in {"none", "danglingConnector"}
    /\ Efforts <= connects /\ stale = <<>>
    /\ state = "kConnecting" => Efforts = 0
    /\ op # "none" \/ timers > 0 \/ call = "start" \/ Starts(queue) > 0 => state = "kDisconnected"
    /\ connects = 0 => state = "kDisconnected"
    /\ OpenConns # {} => state = "kConnected" /\ OpenConns = {connection}
    /\ client = "here" => connection = 0 \/ OpenConns = {connection}
    /\ client = "gone" /\ connectFlag = "yes" =>
         state = "kConnected" /\ Efforts = Cardinality(OpenConns)

\* The invariants together are inductive.
Inv == BaseInv /\ OneInv /\ KeepsTryingUnlessError

-----------------------------------------------------------------------------
(* Types, and stop().                                                       *)

\* Aborting what is outstanding on a socket leaves a result, or nothing if there was none.
LEMMA AbortedFacts ==
  ASSUME NEW o \in Ops
  PROVE  Aborted(o) \in Ops \ {"pending"} /\ (Aborted(o) = "none" <=> o = "none")
BY DEF Aborted, Ops, Results

\* retry() with o outstanding: the delay stays below its cap.
LEMMA RetryFacts ==
  ASSUME TypeOK, NEW o \in Ops, retry(o, delay, timers)
  PROVE  /\ sock' = "closed" /\ state' = "kDisconnected" /\ op' \in Ops
         /\ op' = "none" <=> o = "none"
         /\ timers' = IF connectFlag = "yes" THEN timers + 1 ELSE timers
         /\ delay' \in kInitRetryDelayMs..kMaxRetryDelayMs
BY AbortedFacts, DelayAssumption DEF retry, close, TypeOK, Lesser, Ops

\* Socket::connect on a fresh socket_.
LEMMA ConnectFacts ==
  ASSUME TypeOK, connect
  PROVE  /\ sock' = "open" /\ op' = "pending" /\ op' \in Ops
         /\ stale' \in Seq(Results \cup {"pending"})
         /\ op = "none" => stale' = stale
<1>1. op # "none" => Aborted(op) \in Results \cup {"pending"}
  BY AbortedFacts DEF TypeOK, Ops
<1> QED
  BY <1>1 DEF connect, TypeOK, Ops

\* startInThisThread, of connect(), the retry timer and a posted handler.
LEMMA StartFacts ==
  ASSUME TypeOK, NEW f \in {"yes", "no"}, NEW n \in Nat, startInThisThread(f, delay, n)
  PROVE  /\ timers' = n /\ delay' = delay /\ connectFlag' = f /\ state' = state
         /\ failed' = IF state = "kDisconnected" THEN failed ELSE "startInThisThread"
         /\ op' \in Ops /\ sock' \in {"open", "closed"} /\ stale' \in Seq(Results \cup {"pending"})
         /\ op = "none" => stale' = stale
         /\ f = "yes" /\ state = "kDisconnected" => op' = "pending"
         /\ ~(f = "yes" /\ state = "kDisconnected") => op' = op /\ stale' = stale
<1>1. CASE f = "yes" /\ state = "kDisconnected"
  <2>1. connect
    BY <1>1 DEF startInThisThread
  <2> QED
    BY <1>1, <2>1, ConnectFacts DEF startInThisThread
<1>2. CASE ~(f = "yes" /\ state = "kDisconnected")
  BY <1>2 DEF startInThisThread, TypeOK, Ops
<1> QED
  BY <1>1, <1>2

\* A result is taken from the stale ones.
LEMMA RemoveAtFacts ==
  ASSUME NEW S, NEW s \in Seq(S), NEW k \in 1..Len(s)
  PROVE  RemoveAt(s, k) \in Seq(S)
<1>1. SubSeq(s, 1, k - 1) \in Seq(S) /\ SubSeq(s, k + 1, Len(s)) \in Seq(S)
  <2>1. \A i \in 1..Len(s) : s[i] \in S
    OBVIOUS
  <2> QED
    BY <2>1
<1> QED
  BY <1>1 DEF RemoveAt

\* newConnection: the connection is the next one.
LEMMA NewConnectionFacts ==
  ASSUME TypeOK, newConnection
  PROVE  /\ made' \in 0..MaxConns /\ made' = made + 1 /\ connection' = made'
         /\ made + 1 \in Ids /\ conn' = [conn EXCEPT ![made + 1] = "kConnected"]
         /\ conn' \in [Ids -> Open \cup {"none", "kDisconnected"}]
         /\ failed' = IF client = "gone" THEN "danglingClient" ELSE failed
BY BoundsAssumption DEF newConnection, TypeOK, Ids, Open

\* The handler of async_connect: an error, another try, or a connection.
LEMMA HandleFacts ==
  ASSUME TypeOK, NEW result, NEW o \in Ops, NEW rest \in Seq(Results \cup {"pending"}),
         Handle(result, o, rest)
  PROVE  /\ sock' \in {"open", "closed"} /\ op' \in Ops /\ stale' \in Seq(Results \cup {"pending"})
         /\ state' \in {"kDisconnected", "kConnecting", "kConnected"}
         /\ timers' \in Nat /\ delay' \in kInitRetryDelayMs..kMaxRetryDelayMs
         /\ errors' \in {"yes", "no"}
         /\ o = "none" => op' = "none" /\ stale' = rest
         /\ \/ /\ timers' = timers /\ UNCHANGED <<connVars, failed>> /\ errors' = "yes"
               /\ state' \in {state, "kConnecting"}
            \/ /\ UNCHANGED <<connVars, failed, errors>> /\ state' = "kDisconnected"
               /\ timers' = IF connectFlag = "yes" THEN timers + 1 ELSE timers
            \/ /\ connectFlag = "yes" /\ state' = "kConnected" /\ newConnection
               /\ UNCHANGED <<timers, errors>>
            \/ /\ connectFlag = "no" /\ state' = "kConnected" /\ timers' = timers
               /\ UNCHANGED <<connVars, failed, errors>>
<1>1. Aborted(o) \in Ops /\ (o = "none" => Aborted(o) = "none")
  BY AbortedFacts
<1>2. CASE /\ result = "ok" /\ state' = "kConnecting" /\ close(o)
           /\ errors' = "yes" /\ stale' = rest
           /\ UNCHANGED <<timers, delay, connVars, failed>>
  BY <1>1, <1>2 DEF close, TypeOK
<1>3. CASE retry(o, delay, timers) /\ stale' = rest /\ UNCHANGED <<errors, connVars, failed>>
  BY <1>3, RetryFacts DEF TypeOK
<1>4. CASE /\ sock = "open" /\ connectFlag = "yes" /\ state' = "kConnected" /\ newConnection
           /\ sock' = "closed" /\ op' = "none"
           /\ stale' = IF o = "none" THEN rest ELSE Append(rest, o)
           /\ UNCHANGED <<timers, delay, errors>>
  BY <1>4 DEF TypeOK, Ops
<1>5. CASE /\ sock = "open" /\ connectFlag = "no" /\ state' = "kConnected" /\ close(o)
           /\ stale' = rest
           /\ UNCHANGED <<timers, delay, errors, connVars, failed>>
  BY <1>1, <1>5 DEF close, TypeOK
<1>6. CASE /\ result = "error" /\ close(o) /\ stale' = rest /\ errors' = "yes"
           /\ UNCHANGED <<state, timers, delay, connVars, failed>>
  BY <1>1, <1>6 DEF close, TypeOK
<1> QED
  BY <1>2, <1>3, <1>4, <1>5, <1>6 DEF Handle, connecting

-----------------------------------------------------------------------------
(* The efforts.                                                             *)

Posts == Seq({"start", "stop"})
OpenIn(f) == {c \in Ids : f[c] \in Open}

\* The handlers of a start that wait in the queue, when one is posted and when the loop
\* takes the head.
LEMMA StartsFacts ==
  ASSUME NEW q \in Posts
  PROVE  /\ Starts(q) \in Nat /\ Starts(<<>>) = 0
         /\ \A x \in {"start", "stop"} : Starts(Append(q, x)) = Starts(q) + Count(x = "start")
         /\ q # <<>> => /\ Head(q) \in {"start", "stop"} /\ Tail(q) \in Posts
                        /\ Starts(q) = Starts(Tail(q)) + Count(Head(q) = "start")
<1> DEFINE At(p) == {k \in 1..Len(p) : p[k] = "start"}
<1>1. ASSUME NEW p \in Posts PROVE IsFiniteSet(At(p)) /\ Cardinality(At(p)) \in Nat
  <2>1. Len(p) \in Nat /\ At(p) \in SUBSET (1..Len(p))
    BY DEF Posts
  <2>2. IsFiniteSet(1..Len(p))
    BY <2>1, FS_Interval
  <2> HIDE DEF At
  <2> QED
    BY <2>1, <2>2, FS_Subset, FS_CardinalityType
<1>2. \A p : Starts(p) = Cardinality(At(p))
  BY DEF Starts
<1>3. Starts(<<>>) = 0
  <2>1. At(<<>>) = {}
    OBVIOUS
  <2> QED
    BY <1>2, <2>1, FS_EmptySet
<1>4. ASSUME NEW x \in {"start", "stop"}
      PROVE  Starts(Append(q, x)) = Starts(q) + Count(x = "start")
  <2> DEFINE p == Append(q, x)
             n == Len(q) + 1
  <2>1. /\ Len(q) \in Nat /\ Len(p) = n /\ p[n] = x /\ n \notin 1..Len(q)
        /\ 1..n = (1..Len(q)) \cup {n} /\ \A k \in 1..Len(q) : p[k] = q[k]
    BY DEF Posts
  <2> HIDE DEF p, n
  <2>2. At(p) = IF x = "start" THEN At(q) \cup {n} ELSE At(q)
    BY <2>1
  <2>3. n \notin At(q)
    BY <2>1
  <2> HIDE DEF At
  <2>4. Cardinality(At(q) \cup {n}) = Cardinality(At(q)) + 1
    BY <1>1, <2>3, FS_AddElement
  <2>5. Cardinality(At(q)) \in Nat
    BY <1>1
  <2> QED
    BY <1>2, <2>2, <2>4, <2>5 DEF Count, p
<1>5. ASSUME q # <<>>
      PROVE  /\ Head(q) \in {"start", "stop"} /\ Tail(q) \in Posts
             /\ Starts(q) = Starts(Tail(q)) + Count(Head(q) = "start")
  <2> DEFINE p == Tail(q)
             Later == {k \in 2..Len(q) : q[k] = "start"}
             f == [k \in At(p) |-> k + 1]
  <2>1. /\ p \in Posts /\ Head(q) \in {"start", "stop"} /\ Len(q) \in Nat \ {0} /\ Len(p) = Len(q) - 1
        /\ Head(q) = q[1] /\ \A k \in 1..Len(p) : p[k] = q[k + 1]
    BY <1>5 DEF Posts
  <2> HIDE DEF p
  <2>2. f \in [At(p) -> Later] /\ \A j, k \in At(p) : f[j] = f[k] => j = k
    <3>1. \A k \in At(p) : k \in Nat /\ k + 1 \in Later
      BY <2>1
    <3> HIDE DEF At, Later
    <3> QED
      BY <3>1
  <2>3. \A k \in Later : k - 1 \in At(p) /\ f[k - 1] = k
    BY <2>1
  <2>4. ExistsBijection(At(p), Later)
    <3>1. f \in Injection(At(p), Later)
      BY <2>2 DEF Injection, IsInjective
    <3>2. f \in Surjection(At(p), Later)
      <4>1. \A k \in Later : \E j \in At(p) : f[j] = k
        BY <2>3
      <4> HIDE DEF f, Later, At
      <4> QED
        BY <2>2, <4>1 DEF Surjection
    <3> QED
      BY <3>1, <3>2, Fun_ExistsBij DEF Bijection
  <2>5. At(q) = IF Head(q) = "start" THEN Later \cup {1} ELSE Later
    BY <2>1
  <2>6. 1 \notin Later
    OBVIOUS
  <2> HIDE DEF At, Later
  <2>7. IsFiniteSet(Later) /\ Cardinality(At(p)) = Cardinality(Later) /\ Cardinality(Later) \in Nat
    BY <1>1, <2>1, <2>4, FS_Bijection
  <2>8. Cardinality(Later \cup {1}) = Cardinality(Later) + 1
    BY <2>6, <2>7, FS_AddElement
  <2>9. Starts(q) = Cardinality(At(q)) /\ Starts(p) = Cardinality(At(p))
    BY <1>2
  <2>10. Starts(q) = Starts(p) + Count(Head(q) = "start")
    BY <2>5, <2>7, <2>8, <2>9 DEF Count
  <2> QED
    BY <2>1, <2>10 DEF p
<1> QED
  BY <1>1, <1>2, <1>3, <1>4, <1>5

\* The open connections, counted.
LEMMA OpenFacts ==
  ASSUME NEW f
  PROVE  /\ Cardinality(OpenIn(f)) \in Nat
         /\ Cardinality(OpenIn(f)) = 0 <=> OpenIn(f) = {}
         /\ Cardinality(OpenIn(f)) = 1 <=> \E c : OpenIn(f) = {c}
<1>1. IsFiniteSet(1..MaxConns)
  BY FS_Interval, BoundsAssumption
<1>2. OpenIn(f) \in SUBSET (1..MaxConns)
  BY DEF OpenIn, Ids
<1>3. IsFiniteSet(OpenIn(f))
  BY <1>1, <1>2, FS_Subset
<1> QED
  BY <1>3, FS_CardinalityType, FS_EmptySet, FS_Singleton

\* Before the second connect(): whatever is under way is the only thing.
LEMMA OnlyEffort ==
  ASSUME Inv, connects <= 1
  PROVE  /\ Efforts = Count(op # "none") + timers + Count(restarting = "yes")
                        + Count(call = "start") + Starts(queue) + Cardinality(OpenConns)
         /\ Efforts \in Nat /\ Efforts <= connects /\ connects \in {0, 1}
         /\ timers \in Nat /\ Starts(queue) \in Nat /\ Cardinality(OpenConns) \in Nat
         /\ stale = <<>>
         /\ Cardinality(OpenConns) = 0 <=> OpenConns = {}
         /\ Cardinality(OpenConns) = 1 <=> \E c : OpenConns = {c}
<1>1. /\ stale = <<>> /\ Len(stale) = 0 /\ Efforts <= connects /\ connects \in {0, 1}
      /\ timers \in Nat /\ queue \in Posts
  <2>1. stale = <<>> /\ Efforts <= connects
    BY DEF Inv, OneInv
  <2>2. connects \in 0..MaxCalls /\ timers \in Nat /\ queue \in Posts
    BY DEF Inv, BaseInv, TypeOK, Posts
  <2> QED
    BY <2>1, <2>2, BoundsAssumption
<1>2. Starts(queue) \in Nat
  BY <1>1, StartsFacts
<1>3. OpenConns = OpenIn(conn)
  BY DEF OpenConns, OpenIn
<1>4. /\ Cardinality(OpenConns) \in Nat
      /\ Cardinality(OpenConns) = 0 <=> OpenConns = {}
      /\ Cardinality(OpenConns) = 1 <=> \E c : OpenConns = {c}
  BY <1>3, OpenFacts
<1>5. Efforts = Count(op # "none") + timers + Count(restarting = "yes")
                  + Count(call = "start") + Starts(queue) + Cardinality(OpenConns)
  BY <1>1, <1>2, <1>4 DEF Efforts, Starts, Count
<1>6. Efforts \in Nat
  <2>1. Cardinality(OpenConns) \in Nat
    BY <1>4
  <2>2. /\ Count(op # "none") \in Nat /\ Count(restarting = "yes") \in Nat
        /\ Count(call = "start") \in Nat
    BY DEF Count
  <2>3. timers \in Nat
    BY <1>1
  <2> QED
    BY <1>2, <1>5, <2>1, <2>2, <2>3
<1> QED
  BY <1>1, <1>2, <1>4, <1>5, <1>6

\* The same sum after a step.
LEMMA EffortsNext ==
  ASSUME TypeOK', stale' = <<>>
  PROVE  /\ Efforts' = Count(op' # "none") + timers' + Count(restarting' = "yes")
                         + Count(call' = "start") + Starts(queue') + Cardinality(OpenConns')
         /\ timers' \in Nat /\ Starts(queue') \in Nat /\ Cardinality(OpenConns') \in Nat
         /\ OpenConns' = OpenIn(conn')
<1>1. Len(stale') = 0 /\ timers' \in Nat /\ queue' \in Posts
  BY DEF TypeOK, Posts
<1>2. Starts(queue') \in Nat
  BY <1>1, StartsFacts
<1>3. OpenConns' = OpenIn(conn')
  BY DEF OpenConns, OpenIn
<1>4. Cardinality(OpenConns') \in Nat
  BY <1>3, OpenFacts
<1> QED
  BY <1>1, <1>2, <1>3, <1>4 DEF Efforts, Starts, Count

-----------------------------------------------------------------------------
(* The Connector's steps.                                                   *)

\* Once connect() has been called twice, nothing is left to show but the first four.
LEMMA UntilSecond ==
  ASSUME BaseInv', connects' <= 1 => OneInv' /\ KeepsTryingUnlessError'
  PROVE  Inv'
<1>1. connects' \in Nat
  BY DEF BaseInv, TypeOK
<1>2. ~(connects' <= 1) => OneInv' /\ KeepsTryingUnlessError'
  BY <1>1 DEF OneInv, KeepsTryingUnlessError, KeepsTrying
<1> QED
  BY <1>2 DEF Inv

\* The kernel's result takes the place of the pending connect.
LEMMA CompletesPreserves == Inv /\ ConnectCompletes => Inv'
<1> SUFFICES ASSUME Inv, ConnectCompletes PROVE Inv'
  OBVIOUS
<1>1. UNCHANGED <<connectFlag, state, sock, timers, delay, connection, conn, made, wanted, calls, connects,
                  stopped, client, retryOn, restarting, queue, call, errors, failed>>
  BY DEF ConnectCompletes, connVars, userVars
<1>2. \/ op = "pending" /\ op' \in Results /\ UNCHANGED stale
      \/ /\ op' = op
         /\ \E k \in 1..Len(stale), r \in Results : stale' = [stale EXCEPT ![k] = r]
  BY DEF ConnectCompletes
<1>3. TypeOK'
  <2>1. op' \in Results \cup {"none", "pending"} /\ stale' \in Seq(Results \cup {"pending"})
    BY <1>2 DEF Inv, BaseInv, TypeOK
  <2> QED
    BY <1>1, <2>1 DEF Inv, BaseInv, TypeOK
<1>4. BaseInv'
  BY <1>1, <1>3 DEF Inv, BaseInv, StopInv, HereInv
<1>5. ASSUME connects' <= 1 PROVE OneInv' /\ KeepsTryingUnlessError'
  <2>1. stale = <<>> /\ connects <= 1
    BY <1>1, <1>5 DEF Inv, OneInv
  <2>2. op = "pending" /\ op' \in Results /\ stale' = <<>>
    BY <1>2, <2>1
  <2>3. op # "none" /\ op' # "none" /\ Efforts' = Efforts /\ OpenConns' = OpenConns
    BY <1>1, <2>1, <2>2 DEF Efforts, OpenConns, Results, Count
  <2> QED
    BY <1>1, <2>1, <2>2, <2>3 DEF Inv, OneInv, KeepsTryingUnlessError, KeepsTrying, Live
<1> QED
  BY <1>4, <1>5, UntilSecond

\* The handler of async_connect ends the effort, begins a retry, or makes the connection.
LEMMA HandlerPreserves == Inv /\ ConnectHandler => Inv'
<1> SUFFICES ASSUME Inv, ConnectHandler PROVE Inv'
  OBVIOUS
<1>1. UNCHANGED <<connectFlag, wanted, calls, connects, stopped, client, retryOn, restarting, queue, call>>
  BY DEF ConnectHandler, userVars
<1>2. PICK result \in Ops, o \in Ops, rest \in Seq(Results \cup {"pending"}) :
        /\ Handle(result, o, rest)
        /\ \/ op \in Results /\ result = op /\ o = "none" /\ rest = stale
           \/ \E k \in 1..Len(stale) : result = stale[k]
  <2>1. CASE op \in Results /\ Handle(op, "none", stale)
    BY <2>1 DEF Inv, BaseInv, TypeOK, Ops
  <2>2. CASE \E k \in 1..Len(stale) :
               stale[k] \in Results /\ Handle(stale[k], op, RemoveAt(stale, k))
    <3>1. PICK k \in 1..Len(stale) :
            stale[k] \in Ops /\ Handle(stale[k], op, RemoveAt(stale, k))
      BY <2>2 DEF Ops
    <3>2. stale \in Seq(Results \cup {"pending"}) /\ op \in Ops
      BY DEF Inv, BaseInv, TypeOK, Ops
    <3>3. RemoveAt(stale, k) \in Seq(Results \cup {"pending"})
      BY <3>2, RemoveAtFacts
    <3> QED
      BY <3>1, <3>2, <3>3
  <2> QED
    BY <2>1, <2>2 DEF ConnectHandler
<1>3. TypeOK
  BY DEF Inv, BaseInv
<1>4. /\ sock' \in {"open", "closed"} /\ op' \in Ops /\ stale' \in Seq(Results \cup {"pending"})
      /\ state' \in {"kDisconnected", "kConnecting", "kConnected"}
      /\ timers' \in Nat /\ delay' \in kInitRetryDelayMs..kMaxRetryDelayMs
      /\ errors' \in {"yes", "no"}
      /\ o = "none" => op' = "none" /\ stale' = rest
      /\ \/ /\ timers' = timers /\ UNCHANGED <<connVars, failed>> /\ errors' = "yes"
            /\ state' \in {state, "kConnecting"}
         \/ /\ UNCHANGED <<connVars, failed, errors>> /\ state' = "kDisconnected"
            /\ timers' = IF connectFlag = "yes" THEN timers + 1 ELSE timers
         \/ /\ connectFlag = "yes" /\ state' = "kConnected" /\ newConnection
            /\ UNCHANGED <<timers, errors>>
         \/ /\ connectFlag = "no" /\ state' = "kConnected" /\ timers' = timers
            /\ UNCHANGED <<connVars, failed, errors>>
  BY <1>2, <1>3, HandleFacts
<1>5. \/ UNCHANGED <<connection, conn, made, failed>>
      \/ /\ made' \in 0..MaxConns /\ made' = made + 1 /\ connection' = made'
         /\ made + 1 \in Ids /\ conn' = [conn EXCEPT ![made + 1] = "kConnected"]
         /\ conn' \in [Ids -> Open \cup {"none", "kDisconnected"}]
         /\ failed' = IF client = "gone" THEN "danglingClient" ELSE failed
  BY <1>3, <1>4, NewConnectionFacts DEF connVars
<1>6. TypeOK'
  <2>1. /\ connection' \in 0..made' /\ made' \in 0..MaxConns
        /\ conn' \in [Ids -> Open \cup {"none", "kDisconnected"}]
        /\ failed' \in {"none", "startInThisThread", "removeConnection", "danglingClient",
                        "danglingConnector"}
    BY <1>3, <1>5 DEF TypeOK
  <2> QED
    BY <1>1, <1>3, <1>4, <2>1 DEF TypeOK, Ops
<1>7. BaseInv'
  BY <1>1, <1>6 DEF Inv, BaseInv, StopInv, HereInv
<1>8. ASSUME connects' <= 1 PROVE OneInv' /\ KeepsTryingUnlessError'
  <2>1. /\ Efforts = Count(op # "none") + timers + Count(restarting = "yes")
                       + Count(call = "start") + Starts(queue) + Cardinality(OpenConns)
        /\ Efforts <= connects /\ connects \in {0, 1}
        /\ timers \in Nat /\ Starts(queue) \in Nat /\ Cardinality(OpenConns) \in Nat
        /\ stale = <<>> /\ (Cardinality(OpenConns) = 0 <=> OpenConns = {})
    BY <1>1, <1>8, OnlyEffort
  <2>2. op # "none" /\ op' = "none" /\ stale' = <<>>
    BY <1>2, <1>4, <2>1 DEF Results
  <2>3. /\ timers = 0 /\ restarting # "yes" /\ call # "start" /\ Starts(queue) = 0
        /\ OpenConns = {} /\ connects = 1
    BY <2>1, <2>2 DEF Count
  <2>4. /\ state = "kDisconnected" /\ failed \in {"none", "danglingConnector"}
        /\ client = "here" => connection = 0 \/ OpenConns = {connection}
        /\ client = "gone" => connectFlag # "yes"
    BY <2>1, <2>2, <2>3 DEF Inv, OneInv, Count
  <2>5. Efforts' = timers' + Cardinality(OpenConns') /\ timers' \in Nat
    BY <1>1, <1>6, <2>2, <2>3, EffortsNext DEF Count
  <2>6. CASE UNCHANGED connVars /\ failed' = failed /\ timers' \in {0, 1}
             /\ (timers' = 1 => state' = "kDisconnected")
             /\ (errors' = "no" /\ connectFlag = "yes" => timers' = 1)
    <3>1. OpenConns' = {} /\ Cardinality(OpenConns') = 0 /\ connection' = connection
      BY <2>1, <2>3, <2>6 DEF OpenConns, connVars
    <3>2. Efforts' = timers'
      BY <2>5, <3>1
    <3> QED
      BY <1>1, <1>4, <2>2, <2>3, <2>4, <2>6, <3>1, <3>2
      DEF OneInv, KeepsTryingUnlessError, KeepsTrying
  <2>7. CASE connectFlag = "yes" /\ state' = "kConnected" /\ newConnection /\ UNCHANGED <<timers, errors>>
    <3>1. client = "here" /\ client' = "here"
      BY <1>1, <1>3, <2>4, <2>7 DEF TypeOK
    <3>2. failed' = failed /\ connection' = made + 1 /\ OpenConns' = {made + 1}
      <4>1. /\ failed' = failed /\ connection' = made + 1 /\ made + 1 \in Ids
            /\ conn' = [conn EXCEPT ![made + 1] = "kConnected"]
        BY <1>3, <2>7, <3>1, NewConnectionFacts
      <4>2. conn \in [Ids -> Open \cup {"none", "kDisconnected"}]
        BY <1>3 DEF TypeOK
      <4> QED
        BY <2>3, <4>1, <4>2 DEF OpenConns, Open
    <3>3. Cardinality(OpenConns') = 1
      BY <3>2, FS_Singleton
    <3>4. Efforts' = 1
      BY <2>3, <2>5, <2>7, <3>3
    <3> QED
      BY <1>1, <2>2, <2>3, <2>4, <2>7, <3>1, <3>2, <3>4
      DEF OneInv, KeepsTryingUnlessError, KeepsTrying
  <2> QED
    BY <1>4, <2>3, <2>4, <2>6, <2>7
<1> QED
  BY <1>7, <1>8, UntilSecond

\* A handler that calls startInThisThread with the flag f, when the timers still running
\* are n and the other efforts are done: the only effort left is the new connect.
LEMMA StartOnce ==
  ASSUME Inv, TypeOK', NEW f \in {"yes", "no"}, NEW n \in Nat, startInThisThread(f, delay, n),
         connects' = 1, n = 0, state = "kDisconnected", op = "none", stale = <<>>,
         OpenConns = {}, restarting = "no", failed = "none",
         UNCHANGED <<connVars, restarting, client>>,
         call' # "start", Starts(queue') = 0,
         client = "here" \/ f = "no",
         client = "here" => connection = 0
  PROVE  OneInv' /\ KeepsTryingUnlessError'
<1>1. /\ timers' = 0 /\ connectFlag' = f /\ state' = state /\ failed' = failed
      /\ stale' = <<>> /\ op' = (IF f = "yes" THEN "pending" ELSE "none")
  BY StartFacts DEF Inv, BaseInv
<1>2. OpenConns' = {} /\ Cardinality(OpenConns') = 0 /\ connection' = connection
  BY FS_EmptySet DEF connVars, OpenConns
<1>3. Efforts' = Count(op' # "none")
  BY <1>1, <1>2, EffortsNext DEF Count
<1>4. Efforts' = IF f = "yes" THEN 1 ELSE 0
  BY <1>1, <1>3 DEF Count
<1> QED
  BY <1>1, <1>2, <1>4 DEF OneInv, KeepsTryingUnlessError, KeepsTrying

\* The retry timer fires.
LEMMA RetryTimerPreserves == Inv /\ RetryTimer => Inv'
<1> SUFFICES ASSUME Inv, RetryTimer PROVE Inv'
  OBVIOUS
<1>1. /\ failed = "none" /\ restarting = "no" /\ timers > 0
      /\ startInThisThread(connectFlag, delay, timers - 1)
      /\ UNCHANGED <<connection, conn, made, wanted, calls, connects, stopped, client, retryOn, restarting,
                     queue, call, errors>>
  BY DEF RetryTimer, Free, Live, connVars, userVars
<1>2. TypeOK /\ timers - 1 \in Nat /\ connectFlag \in {"yes", "no"}
  BY <1>1 DEF Inv, BaseInv, TypeOK
<1>3. /\ timers' = timers - 1 /\ delay' = delay /\ connectFlag' = connectFlag /\ state' = state
      /\ failed' = IF state = "kDisconnected" THEN failed ELSE "startInThisThread"
      /\ op' \in Ops /\ sock' \in {"open", "closed"} /\ stale' \in Seq(Results \cup {"pending"})
  BY <1>1, <1>2, StartFacts
<1>4. TypeOK'
  BY <1>1, <1>2, <1>3 DEF TypeOK, Ops
<1>5. BaseInv'
  BY <1>1, <1>3, <1>4 DEF Inv, BaseInv, StopInv, HereInv
<1>6. ASSUME connects' <= 1 PROVE OneInv' /\ KeepsTryingUnlessError'
  <2>1. /\ Efforts = Count(op # "none") + timers + Count(restarting = "yes")
                       + Count(call = "start") + Starts(queue) + Cardinality(OpenConns)
        /\ Efforts <= connects /\ connects \in {0, 1}
        /\ timers \in Nat /\ Starts(queue) \in Nat /\ Cardinality(OpenConns) \in Nat
        /\ stale = <<>> /\ (Cardinality(OpenConns) = 0 <=> OpenConns = {})
    BY <1>1, <1>6, OnlyEffort
  <2>2. /\ timers = 1 /\ op = "none" /\ call # "start" /\ Starts(queue) = 0
        /\ OpenConns = {} /\ connects = 1
    BY <1>1, <2>1 DEF Count
  <2>3. /\ state = "kDisconnected"
        /\ client = "here" => connection = 0
        /\ client = "here" \/ connectFlag = "no"
    BY <1>1, <1>2, <2>1, <2>2 DEF Inv, OneInv, TypeOK, Count
  <2> QED
    BY <1>1, <1>2, <1>4, <2>1, <2>2, <2>3, StartOnce DEF connVars
<1> QED
  BY <1>5, <1>6, UntilSecond

-----------------------------------------------------------------------------
(* The end of a connection.                                                 *)

\* The connection that closes is connection_, and the client restarts or gives up.
LEMMA ClosesPreserves == Inv /\ ConnectionCloses => Inv'
<1> SUFFICES ASSUME Inv, ConnectionCloses PROVE Inv'
  OBVIOUS
<1>1. PICK c \in Ids :
        /\ failed = "none" /\ restarting = "no" /\ conn[c] \in Open
        /\ conn' = [conn EXCEPT ![c] = "kDisconnected"]
        /\ \/ /\ client = "here" /\ connection' = 0
              /\ failed' = IF connection = c THEN failed ELSE "removeConnection"
              /\ restarting' = IF retryOn = "yes" /\ wanted = "yes" THEN "yes" ELSE "no"
           \/ client = "gone" /\ c = connection /\ UNCHANGED <<connection, restarting, failed>>
           \/ /\ client = "gone" /\ c # connection
              /\ failed' = "danglingClient" /\ UNCHANGED <<connection, restarting>>
        /\ UNCHANGED <<connectFlag, state, sock, op, stale, timers, delay, made, wanted, calls, connects,
                       stopped, client, retryOn, queue, call, errors>>
  BY DEF ConnectionCloses, removeConnection, Free, Live, connectorVars, userVars
<1>2. TypeOK
  BY DEF Inv, BaseInv
<1>3. TypeOK'
  <2>1. conn' \in [Ids -> Open \cup {"none", "kDisconnected"}]
    BY <1>1, <1>2 DEF TypeOK
  <2> QED
    BY <1>1, <1>2, <2>1 DEF TypeOK
<1>4. BaseInv'
  BY <1>1, <1>3 DEF Inv, BaseInv, StopInv, HereInv
<1>5. ASSUME connects' <= 1 PROVE OneInv' /\ KeepsTryingUnlessError'
  <2>1. /\ Efforts = Count(op # "none") + timers + Count(restarting = "yes")
                       + Count(call = "start") + Starts(queue) + Cardinality(OpenConns)
        /\ Efforts <= connects /\ connects \in {0, 1}
        /\ timers \in Nat /\ Starts(queue) \in Nat /\ Cardinality(OpenConns) \in Nat
        /\ stale = <<>> /\ (Cardinality(OpenConns) = 0 <=> OpenConns = {})
    BY <1>1, <1>5, OnlyEffort
  <2>2. c \in OpenConns
    BY <1>1 DEF OpenConns
  <2>3. /\ OpenConns = {connection} /\ c = connection /\ state = "kConnected"
    BY <1>1, <1>5, <2>2 DEF Inv, OneInv
  <2>4. /\ op = "none" /\ timers = 0 /\ call # "start" /\ Starts(queue) = 0 /\ connects = 1
    BY <2>1, <2>2 DEF Count
  <2>5. OpenConns' = {}
    <3>1. \A d \in Ids : conn[d] \in Open => d = c
      BY <2>3 DEF OpenConns
    <3>2. conn'[c] = "kDisconnected" /\ \A d \in Ids : d # c => conn'[d] = conn[d]
      BY <1>1, <1>2 DEF TypeOK
    <3> QED
      BY <3>1, <3>2 DEF OpenConns, Open
  <2>6. Cardinality(OpenConns') = 0
    BY <2>5, FS_EmptySet
  <2>7. Efforts' = Count(restarting' = "yes")
    BY <1>1, <1>3, <2>1, <2>4, <2>6, EffortsNext DEF Count
  <2>8. Efforts' = IF restarting' = "yes" THEN 1 ELSE 0
    BY <2>7 DEF Count
  <2>9. failed' = "none"
    BY <1>1, <2>3
  <2>10. CASE client = "here"
    <3>1. connection' = 0 /\ restarting' = IF retryOn = "yes" /\ wanted = "yes" THEN "yes" ELSE "no"
      BY <1>1, <2>10
    <3> QED
      BY <1>1, <2>1, <2>3, <2>4, <2>5, <2>8, <2>9, <2>10, <3>1
      DEF OneInv, KeepsTryingUnlessError, KeepsTrying
  <2>11. CASE client = "gone"
    <3>1. restarting' = "no" /\ Efforts' = 0
      BY <1>1, <2>8, <2>11
    <3> QED
      BY <1>1, <2>1, <2>3, <2>4, <2>5, <2>6, <2>9, <2>11, <3>1
      DEF OneInv, KeepsTryingUnlessError, KeepsTrying
  <2> QED
    BY <1>2, <2>10, <2>11 DEF TypeOK
<1> QED
  BY <1>4, <1>5, UntilSecond

\* restart() connects again.
LEMMA RestartPreserves == Inv /\ Restart => Inv'
<1> SUFFICES ASSUME Inv, Restart PROVE Inv'
  OBVIOUS
<1>1. /\ restarting = "yes" /\ restarting' = "no" /\ state' = "kDisconnected"
      /\ delay' = kInitRetryDelayMs /\ connectFlag' = "yes" /\ connect
      /\ UNCHANGED <<timers, failed, connection, conn, made, wanted, calls, connects, stopped, client,
                     retryOn, queue, call, errors>>
  BY DEF Restart, restart, connVars, userVars
<1>2. TypeOK
  BY DEF Inv, BaseInv
<1>3. /\ sock' = "open" /\ op' = "pending" /\ op' \in Ops
      /\ stale' \in Seq(Results \cup {"pending"})
      /\ op = "none" => stale' = stale
  BY <1>1, <1>2, ConnectFacts
<1>4. TypeOK'
  <2>1. kInitRetryDelayMs \in kInitRetryDelayMs..kMaxRetryDelayMs
    BY DelayAssumption
  <2> QED
    BY <1>1, <1>2, <1>3, <2>1 DEF TypeOK, Ops
<1>5. BaseInv'
  BY <1>1, <1>4 DEF Inv, BaseInv, StopInv, HereInv
<1>6. ASSUME connects' <= 1 PROVE OneInv' /\ KeepsTryingUnlessError'
  <2>1. /\ Efforts = Count(op # "none") + timers + Count(restarting = "yes")
                       + Count(call = "start") + Starts(queue) + Cardinality(OpenConns)
        /\ Efforts <= connects /\ connects \in {0, 1}
        /\ timers \in Nat /\ Starts(queue) \in Nat /\ Cardinality(OpenConns) \in Nat
        /\ stale = <<>> /\ (Cardinality(OpenConns) = 0 <=> OpenConns = {})
    BY <1>1, <1>6, OnlyEffort
  <2>2. /\ op = "none" /\ timers = 0 /\ call # "start" /\ Starts(queue) = 0
        /\ OpenConns = {} /\ connects = 1 /\ client = "here"
    BY <1>1, <2>1 DEF Count, Inv, BaseInv, HereInv
  <2>3. connection = 0 /\ failed \in {"none", "danglingConnector"}
    BY <1>1, <1>6, <2>2 DEF Inv, OneInv
  <2>4. OpenConns' = {} /\ Cardinality(OpenConns') = 0 /\ stale' = <<>>
    BY <1>1, <1>3, <2>1, <2>2, FS_EmptySet DEF OpenConns
  <2>5. Efforts' = 1
    BY <1>1, <1>3, <1>4, <2>2, <2>4, EffortsNext DEF Count
  <2> QED
    BY <1>1, <2>2, <2>3, <2>4, <2>5 DEF OneInv, KeepsTryingUnlessError, KeepsTrying
<1> QED
  BY <1>5, <1>6, UntilSecond

-----------------------------------------------------------------------------
(* Calls.                                                                   *)

\* The first connect() on the loop begins the effort.
LEMMA ConnectCallPreserves == Inv /\ connectCall => Inv'
<1> SUFFICES ASSUME Inv, connectCall PROVE Inv'
  OBVIOUS
<1>1. /\ failed = "none" /\ restarting = "no" /\ client = "here" /\ calls < MaxCalls
      /\ calls' = calls + 1 /\ connects' = connects + 1 /\ wanted' = "yes" /\ stopped' = "no"
      /\ startInThisThread("yes", delay, timers)
      /\ UNCHANGED <<connection, conn, made, client, retryOn, restarting, queue, call, errors>>
  BY DEF connectCall, Free, Live, May, Called, connVars
<1>2. TypeOK /\ timers \in Nat /\ connects <= calls
  BY DEF Inv, BaseInv, TypeOK
<1>3. /\ timers' = timers /\ delay' = delay /\ connectFlag' = "yes" /\ state' = state
      /\ failed' = IF state = "kDisconnected" THEN failed ELSE "startInThisThread"
      /\ op' \in Ops /\ sock' \in {"open", "closed"} /\ stale' \in Seq(Results \cup {"pending"})
  BY <1>1, <1>2, StartFacts
<1>4. /\ calls' \in 0..MaxCalls /\ connects' \in 0..MaxCalls /\ connects' <= calls'
  BY <1>1, <1>2, BoundsAssumption DEF TypeOK
<1>5. TypeOK'
  BY <1>1, <1>2, <1>3, <1>4 DEF TypeOK, Ops
<1>6. BaseInv'
  BY <1>1, <1>3, <1>4, <1>5 DEF Inv, BaseInv, StopInv, HereInv
<1>7. ASSUME connects' <= 1 PROVE OneInv' /\ KeepsTryingUnlessError'
  <2>1. connects = 0 /\ connects' = 1
    BY <1>1, <1>2, <1>4, <1>7 DEF TypeOK
  <2>2. /\ Efforts = Count(op # "none") + timers + Count(restarting = "yes")
                       + Count(call = "start") + Starts(queue) + Cardinality(OpenConns)
        /\ Efforts <= connects /\ connects \in {0, 1}
        /\ timers \in Nat /\ Starts(queue) \in Nat /\ Cardinality(OpenConns) \in Nat
        /\ stale = <<>> /\ (Cardinality(OpenConns) = 0 <=> OpenConns = {})
    BY <2>1, OnlyEffort
  <2>3. /\ timers = 0 /\ op = "none" /\ call # "start" /\ Starts(queue) = 0 /\ OpenConns = {}
    BY <2>1, <2>2 DEF Count
  <2>4. state = "kDisconnected" /\ connection = 0
    BY <1>1, <2>1, <2>3 DEF Inv, OneInv
  <2> QED
    BY <1>1, <1>5, <2>1, <2>2, <2>3, <2>4, StartOnce DEF connVars
<1> QED
  BY <1>6, <1>7, UntilSecond

\* stop() on the loop ends what it finds connecting.
LEMMA StopCallPreserves == Inv /\ stopCall => Inv'
<1> SUFFICES ASSUME Inv, stopCall PROVE Inv'
  OBVIOUS
<1>1. /\ restarting = "no" /\ client = "here" /\ calls < MaxCalls /\ calls' = calls + 1
      /\ wanted' = "no" /\ stopped' = "yes" /\ connectFlag' = "no"
      /\ IF state = "kConnecting" THEN close(op) /\ state' = "kDisconnected"
         ELSE UNCHANGED <<state, sock, op>>
      /\ UNCHANGED <<stale, timers, delay, connection, conn, made, connects, client, retryOn, restarting,
                     queue, call, errors, failed>>
  BY DEF stopCall, Free, May, Called, connVars
<1>2. TypeOK
  BY DEF Inv, BaseInv
<1>3. /\ op' \in Ops /\ sock' \in {"open", "closed"} /\ (op' # "none" <=> op # "none")
      /\ state' \in {state, "kDisconnected"} /\ state' # "kConnecting"
      /\ state # "kConnecting" => state' = state
  <2>1. op \in Ops
    BY <1>2 DEF TypeOK, Ops
  <2> QED
    BY <1>1, <1>2, <2>1, AbortedFacts DEF close, TypeOK
<1>4. calls' \in 0..MaxCalls /\ connects' <= calls'
  BY <1>1, BoundsAssumption DEF Inv, BaseInv, TypeOK
<1>5. TypeOK'
  BY <1>1, <1>2, <1>3, <1>4 DEF TypeOK, Ops
<1>6. BaseInv'
  BY <1>1, <1>4, <1>5 DEF Inv, BaseInv, StopInv, HereInv
<1>7. ASSUME connects' <= 1 PROVE OneInv' /\ KeepsTryingUnlessError'
  <2>1. Efforts' = Efforts /\ OpenConns' = OpenConns
    BY <1>1, <1>3 DEF Efforts, OpenConns, Count
  <2>2. OpenConns # {} => state # "kConnecting"
    BY <1>1, <1>7 DEF Inv, OneInv
  <2> QED
    BY <1>1, <1>3, <1>7, <2>1, <2>2 DEF Inv, OneInv, KeepsTryingUnlessError, KeepsTrying
<1> QED
  BY <1>6, <1>7, UntilSecond

\* disconnect() shuts the connection down; it stays open.
LEMMA DisconnectPreserves == Inv /\ disconnect => Inv'
<1> SUFFICES ASSUME Inv, disconnect PROVE Inv'
  OBVIOUS
<1>1. /\ calls < MaxCalls /\ calls' = calls + 1 /\ wanted' = "no"
      /\ conn' = IF connection # 0 /\ conn[connection] = "kConnected"
                 THEN [conn EXCEPT ![connection] = "kDisconnecting"] ELSE conn
      /\ UNCHANGED <<connectFlag, state, sock, op, stale, timers, delay, connection, made, connects,
                     stopped, client, retryOn, restarting, queue, call, errors, failed>>
  BY DEF disconnect, May, Called, connectorVars
<1>2. TypeOK
  BY DEF Inv, BaseInv
<1>3. calls' \in 0..MaxCalls /\ connects' <= calls'
  BY <1>1, BoundsAssumption DEF Inv, BaseInv, TypeOK
<1>4. /\ conn' \in [Ids -> Open \cup {"none", "kDisconnected"}]
      /\ \A c \in Ids : conn'[c] \in Open <=> conn[c] \in Open
  BY <1>1, <1>2 DEF TypeOK, Open
<1>5. TypeOK'
  BY <1>1, <1>2, <1>3, <1>4 DEF TypeOK
<1>6. BaseInv'
  BY <1>1, <1>3, <1>5 DEF Inv, BaseInv, StopInv, HereInv
<1>7. ASSUME connects' <= 1 PROVE OneInv' /\ KeepsTryingUnlessError'
  <2>1. OpenConns' = OpenConns
    BY <1>4 DEF OpenConns
  <2>2. Efforts' = Efforts
    BY <1>1, <2>1 DEF Efforts
  <2> QED
    BY <1>1, <1>7, <2>1, <2>2 DEF Inv, OneInv, KeepsTryingUnlessError, KeepsTrying
<1> QED
  BY <1>6, <1>7, UntilSecond

\* Another thread sets the flags of connect() or stop().
LEMMA FlagsPreserves == Inv /\ threadFlags => Inv'
<1> SUFFICES ASSUME Inv, threadFlags PROVE Inv'
  OBVIOUS
<1>1. PICK what \in {"start", "stop"} :
        /\ failed = "none" /\ client = "here" /\ calls < MaxCalls /\ calls' = calls + 1
        /\ call = "none" /\ call' = what
        /\ connectFlag' = (IF what = "start" THEN "yes" ELSE "no") /\ wanted' = connectFlag'
        /\ connects' = IF what = "start" THEN connects + 1 ELSE connects
        /\ stopped' = IF what = "start" THEN "no" ELSE stopped
        /\ UNCHANGED <<state, sock, op, stale, timers, delay, connection, conn, made, client, retryOn,
                       restarting, queue, errors, failed>>
  BY DEF threadFlags, Live, May, Called, connVars
<1>2. TypeOK
  BY DEF Inv, BaseInv
<1>3. calls' \in 0..MaxCalls /\ connects' \in 0..MaxCalls /\ connects' <= calls'
  BY <1>1, BoundsAssumption DEF Inv, BaseInv, TypeOK
<1>4. TypeOK'
  BY <1>1, <1>2, <1>3 DEF TypeOK
<1>5. BaseInv'
  BY <1>1, <1>3, <1>4 DEF Inv, BaseInv, StopInv, HereInv
<1>6. ASSUME connects' <= 1 PROVE OneInv' /\ KeepsTryingUnlessError'
  <2>1. connects <= 1 /\ connects \in Nat
    BY <1>1, <1>2, <1>6 DEF TypeOK
  <2>2. /\ Efforts = Count(op # "none") + timers + Count(restarting = "yes")
                       + Count(call = "start") + Starts(queue) + Cardinality(OpenConns)
        /\ Efforts <= connects /\ connects \in {0, 1}
        /\ timers \in Nat /\ Starts(queue) \in Nat /\ Cardinality(OpenConns) \in Nat
        /\ stale = <<>> /\ (Cardinality(OpenConns) = 0 <=> OpenConns = {})
    BY <2>1, OnlyEffort
  <2>3. OpenConns' = OpenConns /\ stale' = <<>>
    BY <1>1, <2>2 DEF OpenConns
  <2>4. CASE what = "start"
    <3>1. /\ connects = 0 /\ Efforts = 0 /\ state = "kDisconnected"
      BY <1>1, <1>6, <2>1, <2>2, <2>4 DEF Inv, OneInv, Count
    <3>2. op = "none" /\ timers = 0 /\ restarting # "yes" /\ Starts(queue) = 0 /\ OpenConns = {}
          /\ connection = 0
      BY <1>1, <2>1, <2>2, <3>1 DEF Inv, OneInv, Count
    <3>3. Cardinality(OpenConns) = 0
      BY <3>2, FS_EmptySet
    <3>4. Efforts' = 1
      BY <1>1, <1>4, <2>3, <2>4, <3>2, <3>3, EffortsNext DEF Count
    <3> QED
      BY <1>1, <2>3, <2>4, <3>1, <3>2, <3>4 DEF OneInv, KeepsTryingUnlessError, KeepsTrying
  <2>5. CASE what = "stop"
    <3>1. Efforts' = Efforts
      BY <1>1, <2>3, <2>5 DEF Efforts, Count
    <3> QED
      BY <1>1, <2>1, <2>3, <2>5, <3>1 DEF Inv, OneInv, KeepsTryingUnlessError, KeepsTrying
  <2> QED
    BY <2>4, <2>5
<1> QED
  BY <1>5, <1>6, UntilSecond

\* Another thread posts the handler.
LEMMA PostPreserves == Inv /\ threadPost => Inv'
<1> SUFFICES ASSUME Inv, threadPost PROVE Inv'
  OBVIOUS
<1>1. /\ call # "none" /\ call' = "none" /\ queue' = Append(queue, call)
      /\ UNCHANGED <<connectFlag, state, sock, op, stale, timers, delay, connection, conn, made, wanted,
                     calls, connects, stopped, client, retryOn, restarting, errors, failed>>
  BY DEF threadPost, connectorVars, connVars, userVars
<1>2. TypeOK /\ queue \in Posts /\ call \in {"start", "stop"}
  BY <1>1 DEF Inv, BaseInv, TypeOK, Posts
<1>3. queue' \in Posts /\ Starts(queue') = Starts(queue) + Count(call = "start")
  BY <1>1, <1>2, StartsFacts DEF Posts
<1>4. TypeOK'
  BY <1>1, <1>2, <1>3 DEF TypeOK, Posts
<1>5. BaseInv'
  BY <1>1, <1>4 DEF Inv, BaseInv, StopInv, HereInv
<1>6. ASSUME connects' <= 1 PROVE OneInv' /\ KeepsTryingUnlessError'
  <2>1. /\ Efforts = Count(op # "none") + timers + Count(restarting = "yes")
                       + Count(call = "start") + Starts(queue) + Cardinality(OpenConns)
        /\ Efforts <= connects /\ connects \in {0, 1}
        /\ timers \in Nat /\ Starts(queue) \in Nat /\ Cardinality(OpenConns) \in Nat
        /\ stale = <<>> /\ (Cardinality(OpenConns) = 0 <=> OpenConns = {})
    BY <1>1, <1>6, OnlyEffort
  <2>2. OpenConns' = OpenConns /\ stale' = <<>>
    BY <1>1, <2>1 DEF OpenConns
  <2>3. Efforts' = Efforts
    <3>1. Efforts' = Count(op' # "none") + timers' + Count(restarting' = "yes")
                       + Count(call' = "start") + Starts(queue') + Cardinality(OpenConns')
      BY <1>4, <2>2, EffortsNext
    <3>2. /\ op' = op /\ timers' = timers /\ restarting' = restarting /\ OpenConns' = OpenConns
          /\ call' = "none" /\ Starts(queue') = Starts(queue) + Count(call = "start")
      BY <1>1, <1>3, <2>2
    <3>3. /\ Count(op # "none") \in Nat /\ Count(restarting = "yes") \in Nat
          /\ Count(call = "start") \in Nat /\ Count(call' = "start") = 0
      BY <3>2 DEF Count
    <3>4. timers \in Nat /\ Starts(queue) \in Nat /\ Cardinality(OpenConns) \in Nat
      BY <2>1
    <3> QED
      BY <2>1, <3>1, <3>2, <3>3, <3>4
  <2>4. call = "start" \/ Starts(queue) > 0 <=> Starts(queue') > 0
    BY <1>3, <2>1 DEF Count
  <2> QED
    BY <1>1, <1>6, <2>2, <2>3, <2>4 DEF Inv, OneInv, KeepsTryingUnlessError, KeepsTrying, Live
<1> QED
  BY <1>5, <1>6, UntilSecond

\* The loop runs a posted start or stop.
LEMMA RunPostedPreserves == Inv /\ RunPosted => Inv'
<1> SUFFICES ASSUME Inv, RunPosted PROVE Inv'
  OBVIOUS
<1>1. /\ failed = "none" /\ restarting = "no" /\ queue # <<>> /\ queue' = Tail(queue)
      /\ UNCHANGED <<connection, conn, made, wanted, calls, connects, stopped, client, retryOn, restarting,
                     call, errors>>
  BY DEF RunPosted, Free, Live, connVars, userVars
<1>2. TypeOK /\ queue \in Posts /\ timers \in Nat /\ connectFlag \in {"yes", "no"} /\ op \in Ops
  BY DEF Inv, BaseInv, TypeOK, Posts, Ops
<1>3. /\ Head(queue) \in {"start", "stop"} /\ queue' \in Posts
      /\ Starts(queue) = Starts(queue') + Count(Head(queue) = "start")
      /\ Starts(queue') \in Nat
  <2>1. queue' \in Posts
    BY <1>1, <1>2, StartsFacts
  <2> QED
    BY <1>1, <1>2, <2>1, StartsFacts
<1>4. CASE failed' = "danglingConnector" /\ UNCHANGED connectorVars
  <2>1. UNCHANGED <<connectFlag, state, sock, op, stale, timers, delay>>
    BY <1>4 DEF connectorVars
  <2>2. TypeOK'
    BY <1>1, <1>2, <1>3, <1>4, <2>1 DEF TypeOK, Posts
  <2>3. BaseInv'
    BY <1>1, <2>1, <2>2 DEF Inv, BaseInv, StopInv, HereInv
  <2>4. ASSUME connects' <= 1 PROVE OneInv' /\ KeepsTryingUnlessError'
    <3>1. /\ Efforts = Count(op # "none") + timers + Count(restarting = "yes")
                       + Count(call = "start") + Starts(queue) + Cardinality(OpenConns)
        /\ Efforts <= connects /\ connects \in {0, 1}
        /\ timers \in Nat /\ Starts(queue) \in Nat /\ Cardinality(OpenConns) \in Nat
        /\ stale = <<>> /\ (Cardinality(OpenConns) = 0 <=> OpenConns = {})
      BY <1>1, <2>4, OnlyEffort
    <3>2. OpenConns' = OpenConns /\ stale' = <<>>
      BY <1>1, <2>1, <3>1 DEF OpenConns
    <3>3. Efforts' = Efforts - Count(Head(queue) = "start")
      BY <1>1, <1>3, <2>1, <2>2, <3>1, <3>2, EffortsNext, SMTT(30) DEF Count
    <3>4. Efforts' \in Nat /\ Efforts' <= Efforts
      <4>1. Efforts' = Count(op' # "none") + timers' + Count(restarting' = "yes")
                               + Count(call' = "start") + Starts(queue') + Cardinality(OpenConns')
        BY <2>2, <3>2, EffortsNext
      <4>2. \A b : Count(b) \in Nat
        BY DEF Count
      <4>3. Efforts' \in Nat
        <5>1. Cardinality(OpenConns') \in Nat /\ timers' \in Nat
          BY <2>1, <3>1, <3>2
        <5> QED
          BY <1>3, <4>1, <4>2, <5>1
      <4>4. Efforts \in Nat
        BY <1>1, <2>4, OnlyEffort
      <4> QED
        BY <3>3, <4>2, <4>3, <4>4
    <3>5. Starts(queue') > 0 => Starts(queue) > 0
      BY <1>3, <3>1 DEF Count
    <3>6. client = "gone" /\ connectFlag = "yes" => Starts(queue) = 0
      BY <2>4, <1>1, <3>1 DEF Inv, OneInv, Count
    <3>7. Starts(queue) = 0 => Efforts' = Efforts
      BY <1>3, <3>1, <3>3 DEF Count
    <3>8. state = "kConnecting" => Efforts' = 0
      BY <2>4, <1>1, <3>1, <3>4 DEF Inv, OneInv
    <3>9. Efforts' <= connects
      BY <1>1, <2>4, <3>1, <3>4
    <3> QED
      BY <1>1, <1>4, <2>1, <2>4, <3>2, <3>5, <3>6, <3>7, <3>8, <3>9
      DEF Inv, OneInv, KeepsTryingUnlessError, KeepsTrying, Live
  <2> QED
    BY <2>3, <2>4, UntilSecond
<1>5. CASE Head(queue) = "start" /\ startInThisThread(connectFlag, delay, timers)
  <2>1. /\ timers' = timers /\ delay' = delay /\ connectFlag' = connectFlag /\ state' = state
        /\ failed' = IF state = "kDisconnected" THEN failed ELSE "startInThisThread"
        /\ op' \in Ops /\ sock' \in {"open", "closed"} /\ stale' \in Seq(Results \cup {"pending"})
    BY <1>2, <1>5, StartFacts
  <2>2. TypeOK'
    BY <1>1, <1>2, <1>3, <2>1 DEF TypeOK, Ops, Posts
  <2>3. BaseInv'
    BY <1>1, <2>1, <2>2 DEF Inv, BaseInv, StopInv, HereInv
  <2>4. ASSUME connects' <= 1 PROVE OneInv' /\ KeepsTryingUnlessError'
    <3>1. /\ Efforts = Count(op # "none") + timers + Count(restarting = "yes")
                       + Count(call = "start") + Starts(queue) + Cardinality(OpenConns)
        /\ Efforts <= connects /\ connects \in {0, 1}
        /\ timers \in Nat /\ Starts(queue) \in Nat /\ Cardinality(OpenConns) \in Nat
        /\ stale = <<>> /\ (Cardinality(OpenConns) = 0 <=> OpenConns = {})
      BY <1>1, <2>4, OnlyEffort
    <3>2. /\ op = "none" /\ timers = 0 /\ call # "start" /\ Starts(queue') = 0 /\ Starts(queue) = 1
          /\ OpenConns = {} /\ connects = 1
      BY <1>3, <1>5, <3>1 DEF Count
    <3>3. /\ state = "kDisconnected"
          /\ client = "here" => connection = 0
          /\ client = "here" \/ connectFlag = "no"
      BY <1>2, <3>1, <3>2 DEF Inv, OneInv, TypeOK, Count
    <3> QED
      BY <1>1, <1>2, <1>5, <2>2, <3>1, <3>2, <3>3, StartOnce DEF connVars
  <2> QED
    BY <2>3, <2>4, UntilSecond
<1>6. CASE /\ Head(queue) = "stop" /\ stopInThisThread /\ UNCHANGED <<connectFlag, stale, failed>>
  <2>1. /\ sock' \in {"open", "closed"} /\ op' \in Ops /\ (op' = "none" <=> op = "none")
        /\ delay' \in kInitRetryDelayMs..kMaxRetryDelayMs
        /\ IF state = "kConnecting"
           THEN state' = "kDisconnected" /\ timers' = IF connectFlag = "yes" THEN timers + 1 ELSE timers
           ELSE state' = state /\ timers' = timers
    <3>1. CASE state = "kConnecting"
      <4>1. retry(op, delay, timers)
        BY <1>6, <3>1 DEF stopInThisThread
      <4> QED
        BY <1>2, <3>1, <4>1, RetryFacts
    <3>2. CASE state # "kConnecting"
      BY <1>2, <1>6, <3>2 DEF stopInThisThread, TypeOK, Ops
    <3> QED
      BY <3>1, <3>2
  <2>2. TypeOK'
    BY <1>1, <1>2, <1>3, <1>6, <2>1 DEF TypeOK, Ops, Posts
  <2>3. BaseInv'
    BY <1>1, <1>6, <2>2 DEF Inv, BaseInv, StopInv, HereInv
  <2>4. ASSUME connects' <= 1 PROVE OneInv' /\ KeepsTryingUnlessError'
    <3>1. /\ Efforts = Count(op # "none") + timers + Count(restarting = "yes")
                       + Count(call = "start") + Starts(queue) + Cardinality(OpenConns)
        /\ Efforts <= connects /\ connects \in {0, 1}
        /\ timers \in Nat /\ Starts(queue) \in Nat /\ Cardinality(OpenConns) \in Nat
        /\ stale = <<>> /\ (Cardinality(OpenConns) = 0 <=> OpenConns = {})
      BY <1>1, <2>4, OnlyEffort
    <3>2. OpenConns' = OpenConns /\ stale' = <<>> /\ Starts(queue') = Starts(queue)
      BY <1>1, <1>3, <1>6, <3>1 DEF OpenConns, Count
    <3>3. Efforts' = Efforts + timers' - timers
      <4>1. Efforts' = Count(op' # "none") + timers' + Count(restarting' = "yes")
                               + Count(call' = "start") + Starts(queue') + Cardinality(OpenConns')
        BY <2>2, <3>2, EffortsNext
      <4>2. /\ Count(op' # "none") = Count(op # "none") /\ Cardinality(OpenConns') = Cardinality(OpenConns)
            /\ restarting' = restarting /\ call' = call
        BY <1>1, <2>1, <3>2 DEF Count
      <4>3. \A b : Count(b) \in Nat
        BY DEF Count
      <4>4. timers' \in Nat
        BY <1>2, <2>1
      <4> DEFINE a == Count(op # "none")
                 b == Count(restarting = "yes")
                 c == Count(call = "start")
                 d == Starts(queue)
                 e == Cardinality(OpenConns)
      <4>5. Efforts = a + timers + b + c + d + e
        BY <3>1
      <4>6. Efforts' = a + timers' + b + c + d + e
        BY <3>2, <4>1, <4>2
      <4>7. a \in Nat /\ b \in Nat /\ c \in Nat /\ d \in Nat /\ e \in Nat /\ timers \in Nat
        BY <3>1, <4>3
      <4> HIDE DEF a, b, c, d, e
      <4> QED
        BY <4>4, <4>5, <4>6, <4>7
    <3>4. CASE state = "kConnecting"
      <4>1. /\ Efforts = 0 /\ connects = 1
        BY <2>4, <1>1, <3>1, <3>4 DEF Inv, OneInv
      <4>2. /\ op = "none" /\ timers = 0 /\ call # "start" /\ Starts(queue) = 0
            /\ OpenConns = {}
        BY <1>1, <3>1, <4>1 DEF Count
      <4>3. /\ client = "here" => connection = 0
            /\ client = "here" \/ connectFlag = "no"
            /\ failed \in {"none", "danglingConnector"}
        BY <1>2, <3>1, <3>4, <4>2 DEF Inv, OneInv, TypeOK
      <4>4. Efforts' = timers' /\ timers' = (IF connectFlag = "yes" THEN 1 ELSE 0)
            /\ state' = "kDisconnected"
        BY <2>1, <3>3, <3>4, <4>1, <4>2
      <4> QED
        BY <1>1, <1>6, <3>2, <4>1, <4>2, <4>3, <4>4 DEF OneInv, KeepsTryingUnlessError, KeepsTrying
    <3>5. CASE state # "kConnecting"
      <4>1. Efforts' = Efforts /\ timers' = timers /\ state' = state
        BY <2>1, <3>1, <3>3, <3>5
      <4> QED
        BY <1>1, <1>6, <2>1, <2>4, <3>2, <4>1 DEF Inv, OneInv, KeepsTryingUnlessError, KeepsTrying, Live
    <3> QED
      BY <3>4, <3>5
  <2> QED
    BY <2>3, <2>4, UntilSecond
<1> QED
  BY <1>4, <1>5, <1>6 DEF RunPosted

\* ~TcpClient stops the Connector unless there is a connection.
LEMMA DestroyPreserves == Inv /\ destroyClient => Inv'
<1> SUFFICES ASSUME Inv, destroyClient PROVE Inv'
  OBVIOUS
<1>1. /\ restarting = "no" /\ client = "here" /\ client' = "gone"
      /\ IF connection # 0 THEN UNCHANGED <<connectFlag, state, sock, op>>
         ELSE /\ connectFlag' = "no"
              /\ IF state = "kConnecting" THEN close(op) /\ state' = "kDisconnected"
                 ELSE UNCHANGED <<state, sock, op>>
      /\ UNCHANGED <<stale, timers, delay, connection, conn, made, wanted, calls, connects, stopped,
                     retryOn, restarting, queue, call, errors, failed>>
  BY DEF destroyClient, Free, connVars, userVars
<1>2. TypeOK
  BY DEF Inv, BaseInv
<1>3. /\ op' \in Ops /\ sock' \in {"open", "closed"} /\ (op' # "none" <=> op # "none")
      /\ connectFlag' \in {connectFlag, "no"}
      /\ state' = state \/ (state' = "kDisconnected" /\ state = "kConnecting")
      /\ connection = 0 => connectFlag' = "no"
  <2>1. op \in Ops
    BY <1>2 DEF TypeOK, Ops
  <2> QED
    BY <1>1, <1>2, <2>1, AbortedFacts DEF close, TypeOK
<1>4. TypeOK'
  BY <1>1, <1>2, <1>3 DEF TypeOK, Ops
<1>5. BaseInv'
  BY <1>1, <1>3, <1>4 DEF Inv, BaseInv, StopInv, HereInv
<1>6. ASSUME connects' <= 1 PROVE OneInv' /\ KeepsTryingUnlessError'
  <2>1. /\ Efforts = Count(op # "none") + timers + Count(restarting = "yes")
                       + Count(call = "start") + Starts(queue) + Cardinality(OpenConns)
        /\ Efforts <= connects /\ connects \in {0, 1}
        /\ timers \in Nat /\ Starts(queue) \in Nat /\ Cardinality(OpenConns) \in Nat
        /\ stale = <<>> /\ (Cardinality(OpenConns) = 0 <=> OpenConns = {})
    BY <1>1, <1>6, OnlyEffort
  <2>2. Efforts' = Efforts /\ OpenConns' = OpenConns
    BY <1>1, <1>3 DEF Efforts, OpenConns, Count
  <2>3. OpenConns # {} => state # "kConnecting"
    BY <1>1, <1>6 DEF Inv, OneInv
  <2>4. connection # 0 => state = "kConnected" /\ Efforts = Cardinality(OpenConns)
    <3>1. SUFFICES ASSUME connection # 0 PROVE state = "kConnected" /\ Efforts = Cardinality(OpenConns)
      OBVIOUS
    <3>2. OpenConns = {connection} /\ state = "kConnected"
      BY <1>1, <1>6, <3>1 DEF Inv, OneInv
    <3> QED
      BY <2>1, <3>2 DEF Count
  <2> QED
    BY <1>1, <1>3, <1>6, <2>2, <2>3, <2>4 DEF Inv, OneInv, KeepsTryingUnlessError, KeepsTrying
<1> QED
  BY <1>5, <1>6, UntilSecond

-----------------------------------------------------------------------------
(* The theorems.                                                            *)

\* Nothing is under way at first.
LEMMA InitInv == Init => Inv
<1> SUFFICES ASSUME Init PROVE Inv
  OBVIOUS
<1>1. TypeOK
  BY BoundsAssumption, DelayAssumption DEF Init, TypeOK
<1>2. BaseInv
  BY <1>1 DEF Init, BaseInv, StopInv, HereInv
<1>3. OpenConns = {} /\ Cardinality(OpenConns) = 0
  BY FS_EmptySet DEF Init, OpenConns, Open
<1>4. Starts(queue) = 0 /\ Cardinality({k \in 1..Len(queue) : queue[k] = "start"}) = 0
  <2>1. {k \in 1..Len(queue) : queue[k] = "start"} = {}
    BY DEF Init
  <2> QED
    BY <2>1, FS_EmptySet DEF Starts
<1>5. Efforts = 0
  BY <1>3, <1>4 DEF Init, Efforts, Count
<1> QED
  BY <1>2, <1>3, <1>4, <1>5 DEF Init, Inv, OneInv, KeepsTryingUnlessError, KeepsTrying

\* Every step keeps the invariants: one case for each action of Next.
LEMMA NextInv == Inv /\ [Next]_vars => Inv'
<1> SUFFICES ASSUME Inv, [Next]_vars PROVE Inv'
  OBVIOUS
<1>1. CASE ConnectCompletes
  BY <1>1, CompletesPreserves
<1>2. CASE ConnectHandler
  BY <1>2, HandlerPreserves
<1>3. CASE RetryTimer
  BY <1>3, RetryTimerPreserves
<1>4. CASE ConnectionCloses
  BY <1>4, ClosesPreserves
<1>5. CASE Restart
  BY <1>5, RestartPreserves
<1>6. CASE connectCall
  BY <1>6, ConnectCallPreserves
<1>7. CASE stopCall
  BY <1>7, StopCallPreserves
<1>8. CASE disconnect
  BY <1>8, DisconnectPreserves
<1>9. CASE threadFlags
  BY <1>9, FlagsPreserves
<1>10. CASE threadPost
  BY <1>10, PostPreserves
<1>11. CASE RunPosted
  BY <1>11, RunPostedPreserves
<1>12. CASE destroyClient
  BY <1>12, DestroyPreserves
<1>13. CASE UNCHANGED vars
  <2>1. UNCHANGED <<connectFlag, state, sock, op, stale, timers, delay, connection, conn, made, wanted,
                    calls, connects, stopped, client, retryOn, restarting, queue, call, errors, failed>>
    BY <1>13 DEF vars, connectorVars, connVars, userVars
  <2>2. BaseInv'
    BY <2>1 DEF Inv, BaseInv, TypeOK, StopInv, HereInv
  <2>3. Efforts' = Efforts /\ OpenConns' = OpenConns /\ Starts(queue') = Starts(queue)
    BY <2>1 DEF Efforts, OpenConns
  <2>4. OneInv' /\ KeepsTryingUnlessError'
    BY <2>1, <2>3 DEF Inv, OneInv, KeepsTryingUnlessError, KeepsTrying, Live
  <2> QED
    BY <2>2, <2>4 DEF Inv
<1> QED
  BY <1>1, <1>2, <1>3, <1>4, <1>5, <1>6, <1>7, <1>8, <1>9, <1>10, <1>11, <1>12, <1>13 DEF Next

\* The invariants hold in every reachable state.
THEOREM InvHolds == Spec => []Inv
BY InitInv, NextInv, PTL DEF Spec

\* Every variable keeps to its type, and the retry delay between its initial value and its
\* cap (Connector::retry, restart).
THEOREM TypeCorrect == Spec => []TypeOK
<1>1. Inv => TypeOK
  BY DEF Inv, BaseInv
<1> QED
  BY <1>1, InvHolds, PTL

\* A program that calls connect() once never has two connects, retry timers, restarts or
\* connections at a time (Connector, TcpClient).
THEOREM OneAtATime == Spec => []OneEffort
<1>1. Inv => OneEffort
  BY OnlyEffort DEF OneEffort
<1> QED
  BY <1>1, InvHolds, PTL

\* Such a program meets no assertion, and connection_ tells it the truth
\* (startInThisThread, newConnection, removeConnection, ~TcpClient).
THEOREM OneConnectSound == Spec => []OneConnectIsSound
<1>1. Inv => OneConnectIsSound
  <2> SUFFICES ASSUME Inv PROVE OneConnectIsSound
    OBVIOUS
  <2>1. OneConnectIsSafe
    BY DEF Inv, OneInv, OneConnectIsSafe
  <2>2. ConnectionIsOpen
    <3> SUFFICES ASSUME client = "here", connects <= 1
                 PROVE  OpenConns = (IF connection = 0 THEN {} ELSE {connection})
      BY DEF ConnectionIsOpen
    <3>1. /\ OpenConns # {} => OpenConns = {connection}
          /\ connection = 0 \/ OpenConns = {connection}
      BY DEF Inv, OneInv
    <3>2. 0 \notin OpenConns
      BY BoundsAssumption DEF OpenConns, Ids
    <3> QED
      BY <3>1, <3>2
  <2> QED
    BY <2>1, <2>2 DEF OneConnectIsSound
<1> QED
  BY <1>1, InvHolds, PTL

\* The client gives up only after an error that it does not retry (Connector::retry,
\* TcpClient::removeConnection).
THEOREM NoGivingUp == Spec => []KeepsTryingUnlessError
<1>1. Inv => KeepsTryingUnlessError
  BY DEF Inv
<1> QED
  BY <1>1, InvHolds, PTL

\* Only the handler of async_connect makes a connection, and only while connect_ is set.
LEMMA MadeByHandler ==
  ASSUME Inv, Next, made' # made
  PROVE  connectFlag = "yes"
<1>1. ConnectHandler
  BY DEF Next, ConnectCompletes, RetryTimer, ConnectionCloses, Restart, connectCall, stopCall,
     disconnect, threadFlags, threadPost, RunPosted, destroyClient, connVars
<1>2. PICK result, o, rest : Handle(result, o, rest)
  BY <1>1 DEF ConnectHandler
<1> QED
  BY <1>2 DEF Handle, connecting, connVars

\* After stop() on the loop no connection is made until the next connect()
\* (Connector::stop, connecting, TcpClient::removeConnection).
THEOREM StopFinal == Spec => StopIsFinal
<1>1. Inv /\ [Next]_vars => [stopped = "yes" /\ stopped' = "yes" => made' = made]_vars
  <2> SUFFICES ASSUME Inv, Next, stopped = "yes" PROVE made' = made
    OBVIOUS
  <2>1. connectFlag = "no"
    BY DEF Inv, BaseInv, StopInv
  <2> QED
    BY <2>1, MadeByHandler
<1> QED
  BY <1>1, InvHolds, PTL DEF Spec, StopIsFinal
=============================================================================
