--------------------------- MODULE TcpServerProofs ---------------------------
(***************************************************************************)
(* Proofs about TcpServer, for any numbers of pool threads and any number  *)
(* of connections.                                                         *)
(***************************************************************************)
EXTENDS TcpServer, FiniteSetTheorems, FunctionTheorems, SequenceTheorems, TLAPS

Quit == Task("quit", 0)
Establish(c) == Task("connectEstablished", c)
Unregister(c) == Task("connectDestroyed", c)
Removal(c) == Task("removeConnection", c)
Tasks == [run : Handlers, conn : 0..MaxConns]

\* What the queues are asked: whether they hold a handler, whether they hold none twice,
\* and whether s runs before t if they hold both.
Has(q, t) == \E i \in 1..Len(q) : q[i] = t
Distinct(q) == \A i, j \in 1..Len(q) : q[i] = q[j] => i = j
Before(q, s, t) == \A i, j \in 1..Len(q) : q[i] = s /\ q[j] = t => i < j

\* One queue of q gets a handler more, or loses its head.
Posted(q, q2, l, x) == q2 = [q EXCEPT ![l] = Append(@, x)]
Taken(q, q2, l) == q2 = [q EXCEPT ![l] = Tail(@)]

\* What that means for the queues' handlers.
AfterPost(q, q2, l, x) ==
  /\ q2 \in [Loops -> Seq(Tasks)]
  /\ \A m \in Loops : \A t : Has(q2[m], t) <=> Has(q[m], t) \/ (m = l /\ t = x)
  /\ \A m \in Loops : Distinct(q[m]) /\ (m = l => ~Has(q[m], x)) => Distinct(q2[m])
  /\ \A m \in Loops : \A s, t :
       Before(q[m], s, t) /\ s # t /\ (m = l /\ s = x => ~Has(q[m], t)) => Before(q2[m], s, t)

AfterTake(q, q2, l) ==
  /\ q2 \in [Loops -> Seq(Tasks)]
  /\ Head(q[l]) \in Tasks /\ Has(q[l], Head(q[l]))
  /\ \A m \in Loops : \A t : Has(q2[m], t) <=> Has(q[m], t) /\ ~(m = l /\ t = Head(q[l]))
  /\ \A m \in Loops : Distinct(q[m]) => Distinct(q2[m])
  /\ \A m \in Loops : \A s, t : Before(q[m], s, t) => Before(q2[m], s, t)

\* connectDestroyed is bound for c.
BoundFor(de, de2, c) == de2[c] = 1 /\ \A d \in Accepted : d # c => de2[d] = de[d]

\* ~TcpServer has begun.
Down == {"stopping", "destroyed"}

\* How far start() is, and with it the thread it starts.
StartInv ==
  /\ thread[0] = "none"
  /\ \A l \in Loops : l > starting => thread[l] = "none"
  /\ \A l \in 1..starting :
       l < starting \/ server \notin {"latch", "loop"} => thread[l] \in {"looping", "ended"}
  /\ \A l \in Loops : thread[l] = "ended" => server \in Down
  /\ server = "latch" => starting > 0 /\ thread[starting] \in {"created", "counted", "looping"}
  /\ server = "loop" => starting > 0 /\ thread[starting] \in {"counted", "looping"}
  /\ server = "new" => starting = 0
  /\ server = "started" => starting = numThreads
  /\ server \notin Down => stopping = 0

\* The loops up to next_ are one connection ahead of those behind it.
RobinInv ==
  /\ numThreads = 0 => next = 0
  /\ \A c \in Accepted : numThreads > 0 => loopOf[c] > 0
  /\ numThreads > 0 =>
       \E k \in Nat : \A l \in 1..numThreads :
         Cardinality(OnLoop(l)) = IF l <= next THEN k + 1 ELSE k

\* Every handler waits in the loop it belongs to, once, and finds the state_ it expects:
\* connectEstablished before connectDestroyed, and both before quitInThisThread.
QueueOk(q, st, de) ==
  /\ \A l \in Loops :
       /\ Distinct(q[l])
       /\ \A t \in Tasks : Has(q[l], t) =>
            IF t.run = "quit" THEN t = Quit /\ l # 0 /\ l <= stopping ELSE t.conn \in Accepted
  /\ \A l \in Loops : \A c \in Accepted :
       /\ Has(q[l], Establish(c)) => l # 0 /\ loopOf[c] = l /\ st[c] = "kConnecting"
       /\ Has(q[l], Unregister(c)) => loopOf[c] = l /\ de[c] = 1
       /\ Has(q[l], Removal(c)) => l = 0 /\ loopOf[c] # 0 /\ st[c] = "kDisconnected"
       /\ Before(q[l], Establish(c), Unregister(c))
       /\ Before(q[l], Unregister(c), Quit)

QueueInv == QueueOk(queue, state, destroyed)

\* connectDestroyed is bound when a connection leaves the map, and a new connection waits
\* for its connectEstablished.
ConnInv ==
  /\ \A c \in Ids : destroyed[c] <= 1
  /\ \A c \in Ids : c \in connections \/ c \notin Accepted => destroyed[c] = 0
  /\ \A c \in Ids \ Accepted : state[c] = "kConnecting" /\ loopOf[c] = 0
  /\ server \in Down => connections = {}
  /\ \A c \in Accepted : state[c] = "kConnecting" => Has(queue[loopOf[c]], Establish(c))

\* Until ~TcpServer, the map holds the connections that are not disconnected and those
\* whose removal is queued.
UpInv ==
  server \notin Down =>
    /\ failed = "none"
    /\ \A c \in reading : state[c] \in Open
    /\ \A c \in Accepted :
         /\ state[c] # "kDisconnected" => c \in connections
         /\ Has(queue[0], Removal(c)) <=> c \in connections /\ state[c] = "kDisconnected"
         /\ Has(queue[loopOf[c]], Unregister(c)) => state[c] = "kDisconnected"

\* From then on, a connection of the pool that is not disconnected waits for its
\* connectDestroyed.
DownInv ==
  server \in Down =>
    \A c \in Accepted : loopOf[c] # 0 /\ state[c] \in {"kConnecting", "kConnected"} =>
      Has(queue[loopOf[c]], Unregister(c))

\* The invariants together are inductive.
Inv ==
  /\ TypeOK /\ StartInv /\ RobinInv /\ QueueInv /\ ConnInv /\ UpInv /\ DownInv
  /\ DisconnectedBeforeQuit

-----------------------------------------------------------------------------
(* The queues.                                                              *)

\* Loops are numbered.
LEMMA LoopsNat == Loops \subseteq Nat
BY ThreadNumsAssumption DEF Loops

\* baseLoop_ and the loops of the pool have a queue.
LEMMA LoopsOfPool ==
  ASSUME TypeOK
  PROVE  /\ Loops \subseteq Nat /\ 0 \in Loops /\ numThreads \in Nat
         /\ 0..numThreads \subseteq Loops
         /\ \A c \in Ids : loopOf[c] \in Loops
BY ThreadNumsAssumption DEF TypeOK, Loops

\* A handler is a member of Tasks.
LEMMA TaskTypes ==
  /\ Quit \in Tasks
  /\ \A c \in Ids : Establish(c) \in Tasks /\ Unregister(c) \in Tasks /\ Removal(c) \in Tasks
  /\ \A c, d : Establish(c) # Unregister(d) /\ Establish(c) # Removal(d)
               /\ Unregister(c) # Removal(d)
  /\ \A c : Establish(c) # Quit /\ Unregister(c) # Quit /\ Removal(c) # Quit
  /\ \A c, d : /\ Establish(c) = Establish(d) => c = d
               /\ Unregister(c) = Unregister(d) => c = d
               /\ Removal(c) = Removal(d) => c = d
  /\ \A t \in Tasks :
       /\ t.run \in Handlers /\ t.conn \in 0..MaxConns
       /\ t.run = "connectEstablished" => t = Establish(t.conn)
       /\ t.run = "connectDestroyed" => t = Unregister(t.conn)
       /\ t.run = "removeConnection" => t = Removal(t.conn)
BY MaxConnsAssumption DEF Quit, Establish, Unregister, Removal, Task, Tasks, Handlers, Ids

\* Appending a handler adds it behind the others.
LEMMA AppendFacts ==
  ASSUME NEW S, NEW q \in Seq(S), NEW x \in S
  PROVE  /\ Append(q, x) \in Seq(S)
         /\ \A t : Has(Append(q, x), t) <=> Has(q, t) \/ t = x
         /\ Distinct(q) /\ ~Has(q, x) => Distinct(Append(q, x))
         /\ \A s, t : Before(q, s, t) /\ s # t /\ (s = x => ~Has(q, t)) =>
              Before(Append(q, x), s, t)
<1>1. /\ Append(q, x) \in Seq(S) /\ Len(Append(q, x)) = Len(q) + 1 /\ Len(q) \in Nat
      /\ \A i \in 1..Len(q) : Append(q, x)[i] = q[i]
      /\ Append(q, x)[Len(q) + 1] = x
  OBVIOUS
<1>2. \A i \in 1..(Len(q) + 1) : i \in 1..Len(q) \/ i = Len(q) + 1
  BY <1>1
<1>3. ASSUME NEW t PROVE Has(Append(q, x), t) <=> Has(q, t) \/ t = x
  BY <1>1, <1>2 DEF Has
<1>4. Distinct(q) /\ ~Has(q, x) => Distinct(Append(q, x))
  BY <1>1, <1>2 DEF Distinct, Has
<1>5. ASSUME NEW s, NEW t, Before(q, s, t), s # t, s = x => ~Has(q, t)
      PROVE  Before(Append(q, x), s, t)
  BY <1>1, <1>2, <1>5 DEF Before, Has
<1> QED
  BY <1>1, <1>3, <1>4, <1>5

\* Taking the head away takes nothing else away, and keeps the order.
LEMMA TailFacts ==
  ASSUME NEW S, NEW q \in Seq(S), q # <<>>, Distinct(q)
  PROVE  /\ Tail(q) \in Seq(S) /\ Head(q) \in S /\ Has(q, Head(q))
         /\ \A t : Has(Tail(q), t) <=> Has(q, t) /\ t # Head(q)
         /\ Distinct(Tail(q))
         /\ \A s, t : Before(q, s, t) => Before(Tail(q), s, t)
<1>1. /\ Tail(q) \in Seq(S) /\ Len(Tail(q)) = Len(q) - 1 /\ Len(q) \in Nat \ {0}
      /\ \A i \in 1..(Len(q) - 1) : Tail(q)[i] = q[i + 1]
      /\ Head(q) = q[1] /\ Head(q) \in S
  OBVIOUS
<1>2. Has(q, Head(q))
  BY <1>1 DEF Has
<1>3. ASSUME NEW t PROVE Has(Tail(q), t) <=> Has(q, t) /\ t # Head(q)
  <2>1. ASSUME Has(Tail(q), t) PROVE Has(q, t) /\ t # Head(q)
    BY <1>1, <2>1 DEF Has, Distinct
  <2>2. ASSUME Has(q, t), t # Head(q) PROVE Has(Tail(q), t)
    <3>1. PICK i \in 1..Len(q) : q[i] = t
      BY <2>2 DEF Has
    <3>2. i - 1 \in 1..(Len(q) - 1) /\ Tail(q)[i - 1] = t
      BY <1>1, <2>2, <3>1
    <3> QED
      BY <1>1, <3>2 DEF Has
  <2> QED
    BY <2>1, <2>2
<1>4. Distinct(Tail(q))
  <2> SUFFICES ASSUME NEW i \in 1..(Len(q) - 1), NEW j \in 1..(Len(q) - 1),
                      Tail(q)[i] = Tail(q)[j]
               PROVE  i = j
    BY <1>1 DEF Distinct
  <2>1. q[i + 1] = q[j + 1] /\ i + 1 \in 1..Len(q) /\ j + 1 \in 1..Len(q)
    BY <1>1
  <2> QED
    BY <2>1, <1>1 DEF Distinct
<1>5. ASSUME NEW s, NEW t, Before(q, s, t) PROVE Before(Tail(q), s, t)
  <2> SUFFICES ASSUME NEW i \in 1..(Len(q) - 1), NEW j \in 1..(Len(q) - 1),
                      Tail(q)[i] = s, Tail(q)[j] = t
               PROVE  i < j
    BY <1>1 DEF Before
  <2>1. q[i + 1] = s /\ q[j + 1] = t /\ i + 1 \in 1..Len(q) /\ j + 1 \in 1..Len(q)
    BY <1>1
  <2> QED
    BY <2>1, <1>5, <1>1 DEF Before
<1> QED
  BY <1>1, <1>2, <1>3, <1>4, <1>5

\* Appending a list of handlers that are not there yet.
LEMMA ConcatFacts ==
  ASSUME NEW S, NEW q \in Seq(S), NEW r \in Seq(S)
  PROVE  /\ q \o r \in Seq(S)
         /\ \A t : Has(q \o r, t) <=> Has(q, t) \/ Has(r, t)
         /\ Distinct(q) /\ Distinct(r) /\ (\A t \in S : Has(q, t) => ~Has(r, t)) =>
              Distinct(q \o r)
         /\ \A s, t : Before(q, s, t) /\ ~Has(r, s) => Before(q \o r, s, t)
<1>1. /\ q \o r \in Seq(S) /\ Len(q \o r) = Len(q) + Len(r) /\ Len(q) \in Nat /\ Len(r) \in Nat
      /\ \A i \in 1..Len(q) : (q \o r)[i] = q[i]
      /\ \A i \in (Len(q) + 1)..(Len(q) + Len(r)) : (q \o r)[i] = r[i - Len(q)]
  OBVIOUS
<1>2. \A i \in 1..(Len(q) + Len(r)) :
        \/ i \in 1..Len(q) /\ (q \o r)[i] = q[i]
        \/ i > Len(q) /\ i - Len(q) \in 1..Len(r) /\ (q \o r)[i] = r[i - Len(q)]
  BY <1>1
<1>3. ASSUME NEW t PROVE Has(q \o r, t) <=> Has(q, t) \/ Has(r, t)
  <2>1. Has(q \o r, t) => Has(q, t) \/ Has(r, t)
    BY <1>1, <1>2 DEF Has
  <2>2. Has(q, t) => Has(q \o r, t)
    BY <1>1 DEF Has
  <2>3. ASSUME Has(r, t) PROVE Has(q \o r, t)
    <3>1. PICK i \in 1..Len(r) : r[i] = t
      BY <2>3 DEF Has
    <3>2. Len(q) + i \in 1..(Len(q) + Len(r)) /\ (q \o r)[Len(q) + i] = t
      BY <1>1, <3>1
    <3> QED
      BY <1>1, <3>2 DEF Has
  <2> QED
    BY <2>1, <2>2, <2>3
<1>4. ASSUME Distinct(q), Distinct(r), \A t \in S : Has(q, t) => ~Has(r, t)
      PROVE  Distinct(q \o r)
  <2>1. \A i \in 1..Len(q), j \in 1..Len(r) : q[i] # r[j]
    <3>1. \A i \in 1..Len(q) : q[i] \in S
      OBVIOUS
    <3> QED
      BY <1>4, <3>1 DEF Has
  <2> SUFFICES ASSUME NEW i \in 1..(Len(q) + Len(r)), NEW j \in 1..(Len(q) + Len(r)),
                      (q \o r)[i] = (q \o r)[j]
               PROVE  i = j
    BY <1>1 DEF Distinct
  <2>2. CASE i \in 1..Len(q) /\ j \in 1..Len(q)
    BY <1>1, <1>4, <2>2 DEF Distinct
  <2>3. CASE i > Len(q) /\ j > Len(q)
    <3>1. r[i - Len(q)] = r[j - Len(q)] /\ i - Len(q) \in 1..Len(r) /\ j - Len(q) \in 1..Len(r)
      BY <1>2, <1>1, <2>3
    <3>2. i - Len(q) = j - Len(q)
      BY <3>1, <1>4 DEF Distinct
    <3> QED
      BY <3>2, <1>1
  <2> QED
    BY <1>1, <1>2, <2>1, <2>2, <2>3
<1>5. ASSUME NEW s, NEW t, Before(q, s, t), ~Has(r, s)
      PROVE  Before(q \o r, s, t)
  BY <1>1, <1>2, <1>5 DEF Before, Has
<1> QED
  BY <1>1, <1>3, <1>4, <1>5

\* Post appends one handler to one queue.
LEMMA PostFacts ==
  ASSUME NEW q \in [Loops -> Seq(Tasks)], NEW l \in Loops, NEW x \in Tasks, NEW q2,
         Posted(q, q2, l, x)
  PROVE  AfterPost(q, q2, l, x)
<1>1. q[l] \in Seq(Tasks) /\ q2[l] = Append(q[l], x)
  BY DEF Posted
<1>2. \A m \in Loops : m # l => q2[m] = q[m]
  BY DEF Posted
<1>3. q2 \in [Loops -> Seq(Tasks)]
  <2>1. Append(q[l], x) \in Seq(Tasks)
    BY <1>1, AppendFacts
  <2>2. q2 = [q EXCEPT ![l] = Append(q[l], x)]
    BY DEF Posted
  <2> QED
    BY <2>1, <2>2
<1>4. /\ \A t : Has(q2[l], t) <=> Has(q[l], t) \/ t = x
      /\ Distinct(q[l]) /\ ~Has(q[l], x) => Distinct(q2[l])
      /\ \A s, t : Before(q[l], s, t) /\ s # t /\ (s = x => ~Has(q[l], t)) => Before(q2[l], s, t)
  BY <1>1, AppendFacts
<1> QED
  BY <1>2, <1>3, <1>4 DEF AfterPost

\* A loop takes the handler at the head of its queue away.
LEMMA TakeFacts ==
  ASSUME NEW q \in [Loops -> Seq(Tasks)], NEW l \in Loops, NEW q2,
         q[l] # <<>>, Distinct(q[l]), Taken(q, q2, l)
  PROVE  AfterTake(q, q2, l)
<1>1. q[l] \in Seq(Tasks) /\ q2[l] = Tail(q[l])
  BY DEF Taken
<1>2. \A m \in Loops : m # l => q2[m] = q[m]
  BY DEF Taken
<1>3. q2 \in [Loops -> Seq(Tasks)]
  <2>1. Tail(q[l]) \in Seq(Tasks)
    BY <1>1, TailFacts
  <2>2. q2 = [q EXCEPT ![l] = Tail(q[l])]
    BY DEF Taken
  <2> QED
    BY <2>1, <2>2
<1>4. /\ Head(q[l]) \in Tasks /\ Has(q[l], Head(q[l]))
      /\ \A t : Has(q2[l], t) <=> Has(q[l], t) /\ t # Head(q[l])
      /\ Distinct(q2[l])
      /\ \A s, t : Before(q[l], s, t) => Before(q2[l], s, t)
  BY <1>1, TailFacts
<1> QED
  BY <1>2, <1>3, <1>4 DEF AfterTake

-----------------------------------------------------------------------------
(* start() and the threads it starts.                                       *)

\* A step of the start touches the program counters only.
LEMMA StartStep ==
  ASSUME Inv, UNCHANGED otherVars, server' \in Down <=> server \in Down,
         \A l \in Loops : thread'[l] = "ended" => thread[l] = "ended",
         TypeOK', StartInv'
  PROVE  Inv'
<1> USE DEF Inv, otherVars, poolVars
<1>1. RobinInv'
  BY DEF RobinInv, OnLoop, Accepted
<1>2. QueueInv'
  BY DEF QueueInv, QueueOk, Accepted
<1>3. ConnInv'
  BY DEF ConnInv, Accepted
<1>4. UpInv' /\ DownInv'
  BY DEF UpInv, DownInv, Accepted
<1>5. DisconnectedBeforeQuit'
  BY DEF DisconnectedBeforeQuit, OnLoop, Accepted
<1> QED
  BY <1>1, <1>2, <1>3, <1>4, <1>5

\* start() begins with no thread of the pool.
LEMMA StartPreserves == Inv /\ start => Inv'
<1> SUFFICES ASSUME Inv, start PROVE Inv'
  OBVIOUS
<1> USE DEF start, startVars, otherVars, poolVars
<1>1. TypeOK'
  BY DEF Inv, TypeOK, Accepted, InStart
<1>2. StartInv'
  BY DEF Inv, StartInv, Down
<1> QED
  BY <1>1, <1>2, StartStep DEF Down

\* The next thread is started when every earlier one runs its loop, or there is none left.
LEMMA StartThreadPreserves == Inv /\ startThread => Inv'
<1> SUFFICES ASSUME Inv, startThread PROVE Inv'
  OBVIOUS
<1> USE DEF otherVars, poolVars
<1>0. /\ thread \in [Loops -> {"none", "created", "counted", "looping", "ended"}]
      /\ starting \in 0..numThreads /\ numThreads \in Nat /\ 0..numThreads \subseteq Loops
      /\ UNCHANGED otherVars
  BY LoopsOfPool DEF Inv, TypeOK, startThread
<1>1. CASE /\ starting < numThreads /\ starting' = starting + 1
           /\ Becomes(starting + 1, "created") /\ server' = "latch"
  <2>0. /\ starting + 1 \in 0..numThreads /\ starting + 1 \in Loops
        /\ thread' \in [Loops -> {"none", "created", "counted", "looping", "ended"}]
        /\ thread'[starting + 1] = "created"
        /\ \A l \in Loops : l # starting + 1 => thread'[l] = thread[l]
    BY <1>0, <1>1 DEF Becomes
  <2>1. TypeOK'
    <3>1. stopping' \in 0..starting' /\ starting' \in 0..numThreads
      BY <1>0, <1>1, <2>0 DEF Inv, TypeOK
    <3> QED
      BY <1>0, <1>1, <2>0, <3>1 DEF Inv, TypeOK, Accepted, InStart, startThread
  <2>2. StartInv'
    <3>1. Loops \subseteq Nat /\ 0 \in Loops /\ server = "creating" /\ stopping' = stopping
      BY <1>0, LoopsOfPool DEF Inv, startThread
    <3>2. \A l \in 1..starting' : l < starting' => thread'[l] \in {"looping", "ended"}
      BY <1>0, <1>1, <2>0, <3>1 DEF Inv, StartInv
    <3> QED
      BY <1>0, <1>1, <2>0, <3>1, <3>2 DEF Inv, StartInv, Down
  <2>3. \A l \in Loops : thread'[l] = "ended" => thread[l] = "ended"
    BY <2>0
  <2> QED
    BY <1>0, <1>1, <2>1, <2>2, <2>3, StartStep DEF Down, startThread
<1>2. CASE starting = numThreads /\ server' = "started" /\ UNCHANGED <<starting, thread>>
  <2>1. TypeOK'
    BY <1>0, <1>2 DEF Inv, TypeOK, Accepted, InStart, startThread
  <2>2. StartInv'
    BY <1>0, <1>2 DEF Inv, StartInv, TypeOK, Down, startThread
  <2> QED
    BY <1>0, <1>2, <2>1, <2>2, StartStep DEF Down, startThread
<1> QED
  BY <1>1, <1>2 DEF startThread

\* Going to sleep, waking up and going on after a wait.
LEMMA WaitPreserves == Inv /\ (latchWait \/ loopWait \/ SpuriousWakeup) => Inv'
<1> SUFFICES ASSUME Inv, latchWait \/ loopWait \/ SpuriousWakeup PROVE Inv'
  OBVIOUS
<1> USE DEF latchWait, loopWait, SpuriousWakeup, Await, otherVars, poolVars, stopVars
<1>1. TypeOK'
  BY DEF Inv, TypeOK, Accepted, InStart
<1>2. StartInv'
  BY DEF Inv, TypeOK, StartInv, Down
<1>3. UNCHANGED otherVars /\ UNCHANGED thread /\ (server' \in Down <=> server \in Down)
  BY DEF Down
<1> QED
  BY <1>1, <1>2, <1>3, StartStep

\* The new thread opens the latch, then sets loop_.
LEMMA ThreadPreserves ==
  Inv /\ (\E l \in Loops : countDown(l) \/ threadFunc(l)) => Inv'
<1> SUFFICES ASSUME Inv, NEW l \in Loops, countDown(l) \/ threadFunc(l) PROVE Inv'
  OBVIOUS
<1> USE DEF countDown, threadFunc, notify, Becomes, otherVars, poolVars
<1>0. thread \in [Loops -> {"none", "created", "counted", "looping", "ended"}]
  BY DEF Inv, TypeOK
<1>1. TypeOK'
  BY <1>0 DEF Inv, TypeOK, Accepted
<1>2. StartInv'
  <2>1. /\ Loops \subseteq Nat /\ 0 \in Loops /\ starting \in Nat
        /\ 1..starting \subseteq Loops
    <3>1. TypeOK /\ starting \in 0..numThreads
      BY DEF Inv, TypeOK
    <3> QED
      BY <3>1, LoopsOfPool
  <2>2. thread'[l] \in {"counted", "looping"} /\ (thread[l] = "counted" => thread'[l] = "looping")
    BY <1>0
  <2>3. /\ \A m \in Loops : m # l => thread'[m] = thread[m]
        /\ thread[l] \in {"created", "counted"}
        /\ UNCHANGED <<server, starting, stopping, numThreads, nextConnId>>
    BY <1>0
  <2>4. l # 0 /\ l <= starting
    BY <2>1, <2>3 DEF Inv, StartInv
  <2>5. l = starting /\ server \in {"latch", "loop"}
    BY <2>1, <2>3, <2>4 DEF Inv, StartInv
  <2> HIDE DEF countDown, threadFunc, notify, Becomes
  <2> QED
    BY <2>1, <2>2, <2>3, <2>4, <2>5 DEF Inv, StartInv
<1>3. \A m \in Loops : thread'[m] = "ended" => thread[m] = "ended"
  BY <1>0
<1> QED
  BY <1>1, <1>2, <1>3, StartStep

-----------------------------------------------------------------------------
(* What the steps of the connections do to the queues.                      *)

\* Without its head, a queue still keeps what is asked of it.
LEMMA QueueTake ==
  ASSUME NEW q \in [Loops -> Seq(Tasks)], NEW st, NEW de, QueueOk(q, st, de),
         NEW l \in Loops, q[l] # <<>>, NEW q2, Taken(q, q2, l)
  PROVE  AfterTake(q, q2, l) /\ QueueOk(q2, st, de)
<1>1. Distinct(q[l])
  BY DEF QueueOk
<1>2. AfterTake(q, q2, l)
  BY <1>1, TakeFacts
<1>3. QueueOk(q2, st, de)
  BY <1>2 DEF QueueOk, AfterTake
<1> QED
  BY <1>2, <1>3

\* A connection's state_ changes, and no handler that waits relies on the old one.
LEMMA QueueState ==
  ASSUME NEW q, NEW st, NEW de, QueueOk(q, st, de), NEW c, NEW st2,
         \A d \in Accepted : d # c => st2[d] = st[d],
         \A m \in Loops : Has(q[m], Establish(c)) => st2[c] = "kConnecting",
         \A m \in Loops : Has(q[m], Removal(c)) => st2[c] = "kDisconnected"
  PROVE  QueueOk(q, st2, de)
BY DEF QueueOk

\* connectDestroyed is posted to the connection's loop.
LEMMA QueueUnregister ==
  ASSUME NEW q \in [Loops -> Seq(Tasks)], NEW st, NEW de, QueueOk(q, st, de),
         NEW c \in Accepted, Accepted \subseteq Ids, loopOf[c] \in Loops, de[c] = 0, stopping = 0,
         NEW q2, Posted(q, q2, loopOf[c], Unregister(c)),
         NEW de2, BoundFor(de, de2, c)
  PROVE  AfterPost(q, q2, loopOf[c], Unregister(c)) /\ QueueOk(q2, st, de2)
<1> DEFINE l == loopOf[c]
<1>1. Unregister(c) \in Tasks /\ l \in Loops /\ Posted(q, q2, l, Unregister(c))
  BY TaskTypes
<1>2. \A m \in Loops : ~Has(q[m], Unregister(c))
  BY DEF QueueOk
<1>3. \A m \in Loops : ~Has(q[m], Quit)
  BY LoopsNat, TaskTypes DEF QueueOk, Quit, Task
<1> HIDE DEF l
<1>4. AfterPost(q, q2, l, Unregister(c))
  BY <1>1, PostFacts
<1>5. \A m \in Loops : Distinct(q2[m])
  BY <1>2, <1>4 DEF QueueOk, AfterPost
<1>6. ASSUME NEW m \in Loops, NEW d \in Accepted
      PROVE  /\ Has(q2[m], Establish(d)) => m # 0 /\ loopOf[d] = m /\ st[d] = "kConnecting"
             /\ Has(q2[m], Unregister(d)) => loopOf[d] = m /\ de2[d] = 1
             /\ Has(q2[m], Removal(d)) => m = 0 /\ loopOf[d] # 0 /\ st[d] = "kDisconnected"
             /\ Before(q2[m], Establish(d), Unregister(d))
             /\ Before(q2[m], Unregister(d), Quit)
  <2>1. /\ Establish(d) # Unregister(c) /\ Removal(d) # Unregister(c) /\ Unregister(d) # Quit
        /\ Establish(d) # Unregister(d) /\ (Unregister(d) = Unregister(c) => d = c)
        /\ Quit # Unregister(c)
    BY TaskTypes
  <2>2. /\ Has(q[m], Establish(d)) => m # 0 /\ loopOf[d] = m /\ st[d] = "kConnecting"
        /\ Has(q[m], Unregister(d)) => loopOf[d] = m /\ de[d] = 1
        /\ Has(q[m], Removal(d)) => m = 0 /\ loopOf[d] # 0 /\ st[d] = "kDisconnected"
        /\ Before(q[m], Establish(d), Unregister(d))
        /\ Before(q[m], Unregister(d), Quit)
    BY DEF QueueOk
  <2> QED
    BY <1>2, <1>3, <1>4, <2>1, <2>2 DEF l, AfterPost, BoundFor
<1>7. ASSUME NEW m \in Loops, NEW t \in Tasks, Has(q2[m], t)
      PROVE  IF t.run = "quit" THEN t = Quit /\ m # 0 /\ m <= stopping ELSE t.conn \in Accepted
  BY <1>4, <1>7 DEF QueueOk, Unregister, Task, AfterPost
<1> QED
  BY <1>4, <1>5, <1>6, <1>7 DEF QueueOk, l

\* removeConnection is posted to baseLoop_.
LEMMA QueueRemoval ==
  ASSUME NEW q \in [Loops -> Seq(Tasks)], NEW st, NEW de, QueueOk(q, st, de),
         NEW c \in Accepted, Accepted \subseteq Ids, 0 \in Loops, loopOf[c] # 0,
         st[c] = "kDisconnected", ~Has(q[0], Removal(c)),
         NEW q2, Posted(q, q2, 0, Removal(c))
  PROVE  AfterPost(q, q2, 0, Removal(c)) /\ QueueOk(q2, st, de)
<1>1. Removal(c) \in Tasks
  BY TaskTypes
<1>2. AfterPost(q, q2, 0, Removal(c))
  BY <1>1, PostFacts
<1>3. \A m \in Loops : Distinct(q2[m])
  BY <1>2 DEF QueueOk, AfterPost
<1>4. ASSUME NEW m \in Loops, NEW d \in Accepted
      PROVE  /\ Has(q2[m], Establish(d)) => m # 0 /\ loopOf[d] = m /\ st[d] = "kConnecting"
             /\ Has(q2[m], Unregister(d)) => loopOf[d] = m /\ de[d] = 1
             /\ Has(q2[m], Removal(d)) => m = 0 /\ loopOf[d] # 0 /\ st[d] = "kDisconnected"
             /\ Before(q2[m], Establish(d), Unregister(d))
             /\ Before(q2[m], Unregister(d), Quit)
  <2>1. /\ Establish(d) # Removal(c) /\ Unregister(d) # Removal(c) /\ Unregister(d) # Quit
        /\ Establish(d) # Unregister(d) /\ (Removal(d) = Removal(c) => d = c)
    BY TaskTypes
  <2>2. /\ Has(q[m], Establish(d)) => m # 0 /\ loopOf[d] = m /\ st[d] = "kConnecting"
        /\ Has(q[m], Unregister(d)) => loopOf[d] = m /\ de[d] = 1
        /\ Has(q[m], Removal(d)) => m = 0 /\ loopOf[d] # 0 /\ st[d] = "kDisconnected"
        /\ Before(q[m], Establish(d), Unregister(d))
        /\ Before(q[m], Unregister(d), Quit)
    BY DEF QueueOk, AfterPost
  <2> QED
    BY <1>2, <2>1, <2>2 DEF AfterPost
<1>5. ASSUME NEW m \in Loops, NEW t \in Tasks, Has(q2[m], t)
      PROVE  IF t.run = "quit" THEN t = Quit /\ m # 0 /\ m <= stopping ELSE t.conn \in Accepted
  BY <1>2, <1>5 DEF QueueOk, AfterPost, Removal, Task
<1> QED
  BY <1>2, <1>3, <1>4, <1>5 DEF QueueOk, AfterPost

-----------------------------------------------------------------------------
(* Connections come, read, shut down and are destroyed.                     *)

\* newConnection gives the next connection to the next loop, and next_ stays an index.
LEMMA NewConnectionFacts ==
  ASSUME Inv, newConnection
  PROVE  LET c == nextConnId
             l == IF numThreads = 0 THEN 0 ELSE next + 1 IN
         /\ c \in Ids /\ c \notin Accepted /\ nextConnId' = c + 1
         /\ Accepted' = Accepted \cup {c} /\ Accepted \subseteq Ids
         /\ l \in 0..numThreads /\ l \in Loops
         /\ next' \in Nat /\ (numThreads > 0 => next' < numThreads)
         /\ next' = IF numThreads = 0 \/ l = numThreads THEN 0 ELSE l
         /\ loopOf' = [loopOf EXCEPT ![c] = l]
         /\ connections' = connections \cup {c}
         /\ \/ /\ l = 0 /\ state' = [state EXCEPT ![c] = "kConnected"]
               /\ reading' = reading \cup {c} /\ queue' = queue
            \/ /\ l # 0 /\ state' = state /\ reading' = reading
               /\ queue' = [queue EXCEPT ![l] = Append(@, Establish(c))]
         /\ UNCHANGED <<numThreads, gone, thread, server, starting, asleep, stopping, destroyed, failed>>
<1> DEFINE l == IF numThreads = 0 THEN 0 ELSE next + 1
<1>1. /\ numThreads \in Nat /\ 0..numThreads \subseteq Loops
      /\ next \in Nat /\ (numThreads > 0 => next < numThreads) /\ (numThreads = 0 => next = 0)
      /\ nextConnId \in 1..(MaxConns + 1) /\ MaxConns \in Nat
  BY LoopsOfPool, MaxConnsAssumption DEF Inv, TypeOK, RobinInv
<1>2. /\ nextConnId \in Ids /\ nextConnId' = nextConnId + 1
      /\ next' = getNextIOLoop[2] /\ getNextIOLoop[1] = l
      /\ loopOf' = [loopOf EXCEPT ![nextConnId] = l]
      /\ connections' = connections \cup {nextConnId}
      /\ UNCHANGED <<numThreads, gone, thread, server, starting, asleep, stopping, destroyed, failed>>
  BY DEF newConnection, getNextIOLoop, register, startVars, stopVars
<1>3. getNextIOLoop[2] = IF numThreads = 0 THEN next
                         ELSE IF next + 1 >= numThreads THEN 0 ELSE next + 1
  BY DEF getNextIOLoop
<1>4. \/ /\ l = 0 /\ state' = [state EXCEPT ![nextConnId] = "kConnected"]
         /\ reading' = reading \cup {nextConnId} /\ queue' = queue
      \/ /\ l # 0 /\ state' = state /\ reading' = reading
         /\ queue' = [queue EXCEPT ![l] = Append(@, Establish(nextConnId))]
  BY <1>2 DEF newConnection, Post, Establish
<1>5. /\ nextConnId \notin Accepted /\ Accepted' = Accepted \cup {nextConnId}
      /\ Accepted \subseteq Ids
  BY <1>1, <1>2 DEF Accepted, Ids
<1>6. l \in 0..numThreads /\ l \in Loops
  BY <1>1
<1>7. /\ next' \in Nat /\ (numThreads > 0 => next' < numThreads)
      /\ next' = IF numThreads = 0 \/ l = numThreads THEN 0 ELSE l
  BY <1>1, <1>2, <1>3
<1> HIDE DEF l
<1> QED
  BY <1>2, <1>4, <1>5, <1>6, <1>7 DEF l

\* A new connection goes to the loop whose turn it is, with its connectEstablished.
LEMMA AcceptPreserves == Inv /\ accept => Inv'
<1> SUFFICES ASSUME Inv, accept PROVE Inv'
  OBVIOUS
<1> DEFINE c == nextConnId
           l == IF numThreads = 0 THEN 0 ELSE next + 1
<1>1. /\ c \in Ids /\ c \notin Accepted /\ nextConnId' = c + 1
      /\ Accepted' = Accepted \cup {c} /\ Accepted \subseteq Ids
      /\ l \in 0..numThreads /\ l \in Loops
      /\ next' \in Nat /\ (numThreads > 0 => next' < numThreads)
      /\ next' = IF numThreads = 0 \/ l = numThreads THEN 0 ELSE l
      /\ loopOf' = [loopOf EXCEPT ![c] = l]
      /\ connections' = connections \cup {c}
      /\ \/ /\ l = 0 /\ state' = [state EXCEPT ![c] = "kConnected"]
            /\ reading' = reading \cup {c} /\ queue' = queue
         \/ /\ l # 0 /\ state' = state /\ reading' = reading
            /\ queue' = [queue EXCEPT ![l] = Append(@, Establish(c))]
      /\ UNCHANGED <<numThreads, gone, thread, server, starting, asleep, stopping, destroyed, failed>>
  BY NewConnectionFacts DEF accept
<1>2. /\ server = "started" /\ thread[0] = "none" /\ starting = numThreads
      /\ numThreads \in Nat /\ Loops \subseteq Nat /\ 0 \in Loops
      /\ 0..numThreads \subseteq Loops /\ (numThreads > 0 <=> l # 0)
      /\ next \in Nat /\ l = IF numThreads = 0 THEN 0 ELSE next + 1
  <2>1. /\ server = "started" /\ thread[0] = "none" /\ starting = numThreads
        /\ next \in Nat /\ TypeOK
    BY DEF Inv, TypeOK, StartInv, accept
  <2>2. /\ numThreads \in Nat /\ Loops \subseteq Nat /\ 0 \in Loops /\ 0..numThreads \subseteq Loops
    BY <2>1, LoopsOfPool
  <2> QED
    BY <2>1, <2>2
<1>3. /\ queue \in [Loops -> Seq(Tasks)] /\ Establish(c) \in Tasks
      /\ loopOf \in [Ids -> 0..numThreads] /\ loopOf' \in [Ids -> 0..numThreads]
      /\ state \in [Ids -> {"kDisconnected", "kConnecting"} \cup Open]
  BY <1>1, TaskTypes DEF Inv, TypeOK, Tasks
<1>4. /\ \A d \in Accepted : loopOf'[d] = loopOf[d] /\ state'[d] = state[d] /\ d # c
      /\ loopOf'[c] = l /\ state'[c] = IF l = 0 THEN "kConnected" ELSE "kConnecting"
      /\ \A d \in Ids : d # c => loopOf'[d] = loopOf[d] /\ state'[d] = state[d]
      /\ failed = "none" /\ destroyed[c] = 0 /\ server \notin Down
  BY <1>1, <1>2, <1>3 DEF Inv, ConnInv, UpInv, Down
<1> HIDE DEF c, l
<1>5. \A m \in Loops :
        ~Has(queue[m], Establish(c)) /\ ~Has(queue[m], Unregister(c)) /\ ~Has(queue[m], Removal(c))
  BY <1>1, TaskTypes DEF Inv, QueueInv, QueueOk, Establish, Unregister, Removal, Task
<1>6. /\ queue' \in [Loops -> Seq(Tasks)]
      /\ \A m \in Loops : \A t : Has(queue'[m], t) <=>
           Has(queue[m], t) \/ (l # 0 /\ m = l /\ t = Establish(c))
      /\ \A m \in Loops : Distinct(queue'[m])
      /\ \A m \in Loops, d \in Accepted :
           /\ Before(queue'[m], Establish(d), Unregister(d))
           /\ Before(queue'[m], Unregister(d), Quit)
      /\ \A m \in Loops : /\ Before(queue'[m], Establish(c), Unregister(c))
                          /\ Before(queue'[m], Unregister(c), Quit)
  <2>1. /\ \A m \in Loops : Distinct(queue[m])
        /\ \A m \in Loops, d \in Accepted :
             /\ Before(queue[m], Establish(d), Unregister(d))
             /\ Before(queue[m], Unregister(d), Quit)
        /\ \A m \in Loops : /\ Before(queue[m], Establish(c), Unregister(c))
                            /\ Before(queue[m], Unregister(c), Quit)
    BY <1>5 DEF Inv, QueueInv, QueueOk, Before, Has
  <2>2. CASE queue' = queue /\ l = 0
    BY <2>1, <2>2, <1>3
  <2>3. CASE queue' = [queue EXCEPT ![l] = Append(@, Establish(c))] /\ l # 0
    <3>1. /\ queue' \in [Loops -> Seq(Tasks)]
          /\ \A m \in Loops : \A t : Has(queue'[m], t) <=> Has(queue[m], t) \/ (m = l /\ t = Establish(c))
          /\ \A m \in Loops : Distinct(queue'[m])
          /\ \A m \in Loops : \A s, t :
               Before(queue[m], s, t) /\ s # t /\ (m = l /\ s = Establish(c) => ~Has(queue[m], t)) =>
                 Before(queue'[m], s, t)
      <4>1. /\ queue \in [Loops -> Seq(Tasks)] /\ l \in Loops /\ Establish(c) \in Tasks
            /\ Posted(queue, queue', l, Establish(c))
        BY <1>1, <1>3, <2>3 DEF Posted
      <4>2. AfterPost(queue, queue', l, Establish(c))
        BY <4>1, PostFacts
      <4> QED
        BY <4>2, <1>5, <2>1 DEF AfterPost
    <3>2. \A d : /\ Unregister(d) # Quit /\ Establish(d) # Unregister(d)
                 /\ Establish(c) # Unregister(d) /\ (Establish(d) = Establish(c) => d = c)
      BY TaskTypes
    <3>3. \A m \in Loops, d \in Accepted :
            /\ Before(queue'[m], Establish(d), Unregister(d))
            /\ Before(queue'[m], Unregister(d), Quit)
      BY <3>1, <3>2, <2>1, <1>4
    <3>4. \A m \in Loops : /\ Before(queue'[m], Establish(c), Unregister(c))
                           /\ Before(queue'[m], Unregister(c), Quit)
      BY <3>1, <3>2, <2>1, <1>5
    <3> QED
      BY <3>1, <3>3, <3>4, <2>3
  <2> QED
    BY <2>2, <2>3, <1>1
<1>7. TypeOK'
  <2>1. state' \in [Ids -> {"kDisconnected", "kConnecting"} \cup Open]
    <3>1. \/ state' = [state EXCEPT ![c] = "kConnected"] \/ state' = state
      BY <1>1
    <3> QED
      BY <1>3, <3>1 DEF Open
  <2>3. nextConnId' \in 1..(MaxConns + 1)
    <3>1. c \in 1..MaxConns /\ nextConnId' = c + 1
      BY <1>1 DEF Ids
    <3> QED
      BY <3>1, MaxConnsAssumption
  <2>2. connections' \subseteq Accepted' /\ reading' \subseteq Accepted' /\ gone' \subseteq Accepted'
    BY <1>1 DEF Inv, TypeOK
  <2> QED
    BY <1>1, <1>3, <1>6, <2>1, <2>2, <2>3 DEF Inv, TypeOK, Tasks
<1>8. StartInv'
  BY <1>1 DEF Inv, StartInv
<1>9. RobinInv'
  <2>1. \A m \in Nat : OnLoop(m)' = IF m = l THEN OnLoop(m) \cup {c} ELSE OnLoop(m)
    BY <1>1, <1>4 DEF OnLoop
  <2>2. \A m \in Nat : IsFiniteSet(OnLoop(m)) /\ c \notin OnLoop(m)
    <3>1. IsFiniteSet(Ids)
      BY FS_Interval, MaxConnsAssumption DEF Ids
    <3>2. \A m : OnLoop(m) \in SUBSET Ids /\ c \notin OnLoop(m)
      BY <1>1 DEF OnLoop
    <3> QED
      BY <3>1, <3>2, FS_Subset
  <2>3. CASE numThreads = 0
    BY <1>1, <1>4, <2>3 DEF Inv, RobinInv
  <2>4. CASE numThreads > 0
    <3>1. PICK k \in Nat : \A m \in 1..numThreads :
            Cardinality(OnLoop(m)) = IF m <= next THEN k + 1 ELSE k
      BY <2>4 DEF Inv, RobinInv
    <3>2. l = next + 1 /\ l \in 1..numThreads /\ next' = IF l = numThreads THEN 0 ELSE l
      BY <1>1, <1>2, <2>4
    <3>3. \A m \in 1..numThreads :
            Cardinality(OnLoop(m)') = IF m <= l THEN k + 1 ELSE k
      <4> TAKE m \in 1..numThreads
      <4>1. CASE m = l
        BY <2>1, <2>2, <3>1, <3>2, <4>1, <1>2, FS_AddElement
      <4>2. CASE m # l
        BY <2>1, <3>1, <3>2, <4>2, <1>2
      <4> QED
        BY <4>1, <4>2
    <3>4. \E k2 \in Nat : \A m \in 1..numThreads :
            Cardinality(OnLoop(m)') = IF m <= next' THEN k2 + 1 ELSE k2
      <4>1. CASE l = numThreads
        <5>1. \A m \in 1..numThreads : Cardinality(OnLoop(m)') = k + 1 /\ ~(m <= next')
          BY <3>2, <3>3, <4>1, <1>2
        <5> QED
          BY <5>1
      <4>2. CASE l # numThreads
        BY <3>2, <3>3, <4>2
      <4> QED
        BY <4>1, <4>2
    <3>5. \A d \in Accepted' : loopOf'[d] > 0
      BY <1>1, <1>2, <1>4, <3>2, <2>4 DEF Inv, RobinInv
    <3> QED
      BY <1>1, <2>4, <3>4, <3>5 DEF RobinInv
  <2> QED
    BY <1>2, <2>3, <2>4
<1>10. QueueInv'
  <2>1. ASSUME NEW m \in Loops, NEW t \in Tasks, Has(queue'[m], t)
        PROVE  IF t.run = "quit" THEN t = Quit /\ m # 0 /\ m <= stopping' ELSE t.conn \in Accepted'
    BY <1>1, <1>6, <2>1 DEF Inv, QueueInv, QueueOk, Establish, Task
  <2>2. ASSUME NEW m \in Loops, NEW d \in Accepted'
        PROVE  /\ Has(queue'[m], Establish(d)) => m # 0 /\ loopOf'[d] = m /\ state'[d] = "kConnecting"
               /\ Has(queue'[m], Unregister(d)) => loopOf'[d] = m /\ destroyed'[d] = 1
               /\ Has(queue'[m], Removal(d)) => m = 0 /\ loopOf'[d] # 0 /\ state'[d] = "kDisconnected"
    <3>1. CASE d = c
      BY <1>4, <1>5, <1>6, <3>1, TaskTypes
    <3>2. CASE d \in Accepted
      <4>1. Establish(d) # Establish(c) /\ Unregister(d) # Establish(c) /\ Removal(d) # Establish(c)
        BY <1>1, <3>2, TaskTypes
      <4>2. /\ Has(queue[m], Establish(d)) => m # 0 /\ loopOf[d] = m /\ state[d] = "kConnecting"
            /\ Has(queue[m], Unregister(d)) => loopOf[d] = m /\ destroyed[d] = 1
            /\ Has(queue[m], Removal(d)) => m = 0 /\ loopOf[d] # 0 /\ state[d] = "kDisconnected"
        BY <3>2 DEF Inv, QueueInv, QueueOk
      <4>3. destroyed'[d] = destroyed[d] /\ loopOf'[d] = loopOf[d] /\ state'[d] = state[d]
        BY <1>1, <1>4, <3>2
      <4> QED
        BY <1>6, <4>1, <4>2, <4>3
    <3> QED
      BY <1>1, <3>1, <3>2
  <2> QED
    BY <1>1, <1>6, <2>1, <2>2 DEF QueueInv, QueueOk
<1>11. ConnInv'
  <2>1. \A d \in Accepted' : state'[d] = "kConnecting" => Has(queue'[loopOf'[d]], Establish(d))
    BY <1>1, <1>3, <1>2, <1>4, <1>6 DEF Inv, ConnInv
  <2> QED
    BY <1>1, <1>4, <2>1 DEF Inv, ConnInv
<1>12. UpInv'
  <2>1. \A d \in reading' : state'[d] \in Open
    BY <1>1, <1>4 DEF Inv, UpInv, TypeOK, Open
  <2>2. ASSUME NEW d \in Accepted'
        PROVE  /\ state'[d] # "kDisconnected" => d \in connections'
               /\ Has(queue'[0], Removal(d)) <=> d \in connections' /\ state'[d] = "kDisconnected"
               /\ Has(queue'[loopOf'[d]], Unregister(d)) => state'[d] = "kDisconnected"
    <3>1. CASE d = c
      BY <1>1, <1>2, <1>3, <1>4, <1>5, <1>6, <3>1, TaskTypes, SMTT(30)
    <3>2. CASE d \in Accepted
      <4>1. loopOf[d] \in Loops
        BY <1>1, <1>2, <1>3, <3>2
      <4>2. /\ state[d] # "kDisconnected" => d \in connections
            /\ Has(queue[0], Removal(d)) <=> d \in connections /\ state[d] = "kDisconnected"
            /\ Has(queue[loopOf[d]], Unregister(d)) => state[d] = "kDisconnected"
        <5>1. UpInv /\ server \notin Down
          BY <1>4 DEF Inv
        <5> QED
          BY <3>2, <5>1 DEF UpInv
      <4>3. Removal(d) # Establish(c) /\ Unregister(d) # Establish(c)
        BY TaskTypes
      <4>4. /\ state'[d] = state[d] /\ loopOf'[d] = loopOf[d] /\ (d \in connections' <=> d \in connections)
        BY <1>1, <1>4, <3>2
      <4>5. /\ Has(queue'[0], Removal(d)) <=> Has(queue[0], Removal(d))
            /\ Has(queue'[loopOf[d]], Unregister(d)) <=> Has(queue[loopOf[d]], Unregister(d))
        BY <1>1, <1>2, <1>6, <4>1, <4>3
      <4> QED
        BY <4>2, <4>4, <4>5
    <3> QED
      BY <1>1, <3>1, <3>2
  <2> QED
    BY <1>1, <1>4, <2>1, <2>2 DEF UpInv
<1>13. DownInv' /\ DisconnectedBeforeQuit'
  BY <1>1, <1>2, <1>4 DEF Inv, StartInv, DownInv, DisconnectedBeforeQuit
<1> QED
  BY <1>7, <1>8, <1>9, <1>10, <1>11, <1>12, <1>13 DEF Inv

\* What the invariant says of the variables' shapes.
LEMMA Shape ==
  ASSUME Inv
  PROVE  /\ Accepted \subseteq Ids /\ 0 \in Loops /\ Loops \subseteq Nat
         /\ \A c \in Ids : loopOf[c] \in Loops
         /\ queue \in [Loops -> Seq(Tasks)] /\ QueueOk(queue, state, destroyed)
         /\ state \in [Ids -> {"kDisconnected", "kConnecting"} \cup Open]
         /\ destroyed \in [Ids -> Nat]
         /\ connections \subseteq Accepted /\ reading \subseteq Accepted /\ gone \subseteq Accepted
         /\ server \notin Down => stopping = 0
         /\ thread[0] = "none"
<1>1. TypeOK /\ nextConnId \in 1..(MaxConns + 1)
  BY DEF Inv, TypeOK
<1>2. Accepted \subseteq Ids
  BY <1>1, MaxConnsAssumption DEF Accepted, Ids
<1> QED
  BY <1>1, <1>2, LoopsOfPool DEF Inv, TypeOK, QueueInv, StartInv, Tasks

\* A step of the connections leaves the start and the round robin alone.
LEMMA ConnStep ==
  ASSUME Inv, UNCHANGED <<poolVars, startVars, stopVars>>, QueueOk(queue', state', destroyed')
  PROVE  Accepted' = Accepted /\ StartInv' /\ RobinInv' /\ QueueInv'
<1> USE DEF poolVars, startVars, stopVars
<1>1. Accepted' = Accepted
  BY DEF Accepted
<1>2. StartInv'
  BY DEF Inv, StartInv
<1>3. RobinInv'
  BY <1>1 DEF Inv, RobinInv, OnLoop
<1>4. QueueInv'
  BY <1>1 DEF QueueInv, QueueOk
<1> QED
  BY <1>1, <1>2, <1>3, <1>4

\* The map loses the connection and connectDestroyed is bound, or nothing is done.
LEMMA RemoveInPlace ==
  ASSUME Inv, NEW q \in [Loops -> Seq(Tasks)], NEW st, QueueOk(q, st, destroyed),
         NEW c \in Accepted, removeConnectionInThisThread(c, q)
  PROVE  /\ QueueOk(queue', st, destroyed')
         /\ \/ /\ c \in connections /\ server \notin Down
               /\ connections' = connections \ {c}
               /\ AfterPost(q, queue', loopOf[c], Unregister(c))
               /\ destroyed' = [destroyed EXCEPT ![c] = 1] /\ failed' = failed
            \/ /\ c \notin connections
               /\ UNCHANGED <<connections, destroyed>> /\ queue' = q
               /\ failed' \in {"danglingServer", "removeConnection"}
<1>1. /\ Accepted \subseteq Ids /\ loopOf[c] \in Loops /\ destroyed \in [Ids -> Nat]
      /\ connections \subseteq Accepted
  BY Shape
<1>2. CASE server # "destroyed" /\ c \in connections
  <2>1. /\ server \notin Down /\ stopping = 0 /\ destroyed[c] = 0 /\ c \in Ids
    BY <1>1, <1>2, Shape DEF Inv, ConnInv, Down
  <2>2. /\ Posted(q, queue', loopOf[c], Unregister(c))
        /\ destroyed' = [destroyed EXCEPT ![c] = 1]
        /\ connections' = connections \ {c} /\ failed' = failed
    BY <1>1, <1>2, <2>1 DEF removeConnectionInThisThread, Posted, Unregister
  <2>3. AfterPost(q, queue', loopOf[c], Unregister(c)) /\ QueueOk(queue', st, destroyed')
    <3>1. BoundFor(destroyed, destroyed', c)
      BY <1>1, <2>1, <2>2 DEF BoundFor
    <3> QED
      BY <1>1, <2>1, <2>2, <3>1, QueueUnregister
  <2> QED
    BY <1>2, <2>1, <2>2, <2>3
<1>3. CASE ~(server # "destroyed" /\ c \in connections)
  <2>1. c \notin connections
    BY <1>3 DEF Inv, ConnInv, Down
  <2> QED
    BY <1>3, <2>1 DEF removeConnectionInThisThread
<1> QED
  BY <1>2, <1>3

\* handleClose: the connection leaves the map at once on baseLoop_, and else its removal is
\* posted, once.
LEMMA ReadFailedPreserves ==
  ASSUME Inv, NEW c \in Ids, ReadFailed(c)
  PROVE  Inv'
<1>1. /\ c \in Accepted /\ c \in reading /\ reading' = reading \ {c} /\ UNCHANGED gone
      /\ UNCHANGED <<poolVars, startVars, stopVars>>
  BY Shape DEF ReadFailed
<1>2. /\ Accepted \subseteq Ids /\ 0 \in Loops /\ loopOf[c] \in Loops
      /\ \A d \in Ids : loopOf[d] \in Loops
      /\ queue \in [Loops -> Seq(Tasks)] /\ QueueOk(queue, state, destroyed)
      /\ state \in [Ids -> {"kDisconnected", "kConnecting"} \cup Open]
      /\ destroyed \in [Ids -> Nat]
      /\ connections \subseteq Accepted /\ reading \subseteq Accepted /\ gone \subseteq Accepted
  BY Shape
<1>3. CASE state[c] \notin Open
  <2>1. failed' = "handleClose" /\ UNCHANGED <<state, connections, queue, destroyed>>
    BY <1>3 DEF ReadFailed, Open
  <2>2. server \in Down
    BY <1>1, <1>3 DEF Inv, UpInv
  <2>3. Accepted' = Accepted /\ StartInv' /\ RobinInv' /\ QueueInv'
    BY <1>1, <1>2, <2>1, ConnStep
  <2>4. TypeOK'
    BY <1>1, <2>1, <2>3 DEF Inv, TypeOK, poolVars, startVars, stopVars
  <2>5. ConnInv' /\ UpInv' /\ DownInv' /\ DisconnectedBeforeQuit'
    BY <1>1, <2>1, <2>2, <2>3
       DEF Inv, ConnInv, UpInv, DownInv, DisconnectedBeforeQuit, OnLoop, poolVars, startVars, stopVars
  <2> QED
    BY <2>3, <2>4, <2>5 DEF Inv
<1>4. CASE state[c] \in Open
  <2>1. /\ state' = [state EXCEPT ![c] = "kDisconnected"] /\ removeConnection(c)
    BY <1>4 DEF ReadFailed, Open
  <2>2. /\ state'[c] = "kDisconnected" /\ \A d \in Ids : d # c => state'[d] = state[d]
        /\ state' \in [Ids -> {"kDisconnected", "kConnecting"} \cup Open]
        /\ state[c] # "kDisconnected" /\ state[c] # "kConnecting"
    BY <1>2, <1>4, <2>1 DEF Open
  <2>3. \A m \in Loops : ~Has(queue[m], Establish(c)) /\ ~Has(queue[m], Removal(c))
    BY <1>1, <1>2, <2>2 DEF QueueOk
  <2>4. QueueOk(queue, state', destroyed)
    BY <1>2, <2>2, <2>3, QueueState
  <2>5. /\ QueueOk(queue', state', destroyed') /\ queue' \in [Loops -> Seq(Tasks)]
        /\ \A m \in Loops : \A t : Has(queue[m], t) => Has(queue'[m], t)
        /\ \A m \in Loops, d \in Accepted : d # c =>
             /\ Has(queue'[m], Removal(d)) <=> Has(queue[m], Removal(d))
             /\ Has(queue'[m], Unregister(d)) <=> Has(queue[m], Unregister(d))
        /\ \/ /\ c \in connections /\ server \notin Down
              /\ connections' = connections \ {c} /\ ~Has(queue'[0], Removal(c))
              /\ destroyed' = [destroyed EXCEPT ![c] = 1] /\ failed' = failed
           \/ /\ c \notin connections
              /\ UNCHANGED <<connections, destroyed>>
              /\ failed' \in {"danglingServer", "removeConnection"}
           \/ /\ UNCHANGED <<connections, destroyed, failed>>
              /\ Has(queue'[0], Removal(c))
    <3>1. CASE removeConnectionInThisThread(c, queue)
      <4>1. /\ QueueOk(queue', state', destroyed')
            /\ \/ /\ c \in connections /\ server \notin Down
                  /\ connections' = connections \ {c}
                  /\ AfterPost(queue, queue', loopOf[c], Unregister(c))
                  /\ destroyed' = [destroyed EXCEPT ![c] = 1] /\ failed' = failed
               \/ /\ c \notin connections
                  /\ UNCHANGED <<connections, destroyed>> /\ queue' = queue
                  /\ failed' \in {"danglingServer", "removeConnection"}
        BY <1>1, <1>2, <2>4, <3>1, RemoveInPlace
      <4> QED
        BY <1>2, <2>3, <4>1, TaskTypes DEF AfterPost
    <3>2. CASE /\ loopOf[c] # 0 /\ Posted(queue, queue', 0, Removal(c))
               /\ UNCHANGED <<connections, destroyed, failed>>
      <4>1. AfterPost(queue, queue', 0, Removal(c)) /\ QueueOk(queue', state', destroyed)
        BY <1>1, <1>2, <2>2, <2>3, <2>4, <3>2, QueueRemoval
      <4> QED
        BY <1>2, <3>2, <4>1, TaskTypes DEF AfterPost
    <3> QED
      BY <2>1, <3>1, <3>2 DEF removeConnection, Post, Posted, Removal
  <2>6. Accepted' = Accepted /\ StartInv' /\ RobinInv' /\ QueueInv'
    BY <1>1, <2>5, ConnStep
  <2>7. TypeOK'
    <3>1. connections' \subseteq Accepted /\ destroyed' \in [Ids -> Nat]
      BY <1>2, <2>5
    <3>2. failed' \in {"none", "connectEstablished", "handleClose", "removeConnection",
                       "destructor", "danglingServer"}
      BY <2>5 DEF Inv, TypeOK
    <3> QED
      BY <1>1, <2>2, <2>5, <2>6, <3>1, <3>2 DEF Inv, TypeOK, poolVars, startVars, stopVars, Tasks
  <2>8. ConnInv'
    <3>1. \A d \in Accepted : state'[d] = "kConnecting" => Has(queue'[loopOf[d]], Establish(d))
      BY <1>2, <2>2, <2>5 DEF Inv, ConnInv
    <3>2. \A d \in Ids : /\ destroyed'[d] <= 1
                         /\ d \in connections' \/ d \notin Accepted => destroyed'[d] = 0
      BY <1>1, <1>2, <2>5 DEF Inv, ConnInv
    <3> QED
      BY <1>1, <1>2, <2>2, <2>5, <2>6, <3>1, <3>2 DEF Inv, ConnInv, poolVars, stopVars
  <2>9. UpInv'
    <3> SUFFICES ASSUME server \notin Down PROVE UpInv'
      BY <1>1 DEF UpInv, stopVars
    <3>1. c \in connections /\ failed = "none"
      BY <1>1, <2>2 DEF Inv, UpInv
    <3>2. \A d \in reading' : state'[d] \in Open
      BY <1>1, <1>2, <2>2 DEF Inv, UpInv
    <3>3. failed' = "none"
      BY <2>5, <3>1
    <3>4. ASSUME NEW d \in Accepted
          PROVE  /\ state'[d] # "kDisconnected" => d \in connections'
                 /\ Has(queue'[0], Removal(d)) <=> d \in connections' /\ state'[d] = "kDisconnected"
                 /\ Has(queue'[loopOf[d]], Unregister(d)) => state'[d] = "kDisconnected"
      <4>1. CASE d = c
        BY <2>2, <2>5, <3>1, <4>1
      <4>2. CASE d # c
        BY <1>2, <2>2, <2>5, <4>2 DEF Inv, UpInv
      <4> QED
        BY <4>1, <4>2
    <3> QED
      BY <1>1, <2>6, <3>2, <3>3, <3>4 DEF UpInv, poolVars
  <2>10. DownInv'
    BY <1>1, <1>2, <2>2, <2>5, <2>6 DEF Inv, DownInv, poolVars, stopVars
  <2>11. DisconnectedBeforeQuit'
    BY <1>1, <1>2, <2>2, <2>6 DEF Inv, DisconnectedBeforeQuit, OnLoop, poolVars, stopVars
  <2> QED
    BY <2>6, <2>7, <2>8, <2>9, <2>10, <2>11 DEF Inv
<1> QED
  BY <1>3, <1>4

\* shutdown() leaves the connection open.
LEMMA ShutdownPreserves ==
  ASSUME Inv, NEW c \in Ids, shutdown(c)
  PROVE  Inv'
<1>1. /\ c \in Accepted /\ state[c] = "kConnected"
      /\ state' = [state EXCEPT ![c] = "kDisconnecting"]
      /\ UNCHANGED <<poolVars, startVars, stopVars, connections, reading, gone, queue, destroyed, failed>>
  BY DEF shutdown
<1>2. /\ Accepted \subseteq Ids /\ QueueOk(queue, state, destroyed)
      /\ state \in [Ids -> {"kDisconnected", "kConnecting"} \cup Open]
  BY Shape
<1>3. /\ state'[c] = "kDisconnecting" /\ \A d \in Ids : d # c => state'[d] = state[d]
      /\ state' \in [Ids -> {"kDisconnected", "kConnecting"} \cup Open]
  BY <1>1, <1>2 DEF Open
<1>4. QueueOk(queue', state', destroyed')
  <2>1. \A m \in Loops : ~Has(queue[m], Establish(c)) /\ ~Has(queue[m], Removal(c))
    BY <1>1, <1>2 DEF QueueOk
  <2>2. QueueOk(queue, state', destroyed)
    BY <1>2, <1>3, <2>1, QueueState
  <2> QED
    BY <1>1, <2>2
<1>5. Accepted' = Accepted /\ StartInv' /\ RobinInv' /\ QueueInv'
  BY <1>1, <1>4, ConnStep
<1> USE DEF poolVars, startVars, stopVars
<1>6. TypeOK'
  BY <1>1, <1>3, <1>5 DEF Inv, TypeOK
<1>7. ConnInv' /\ DownInv' /\ DisconnectedBeforeQuit'
  BY <1>1, <1>2, <1>3, <1>5 DEF Inv, ConnInv, DownInv, DisconnectedBeforeQuit, OnLoop
<1>8. UpInv'
  <2>1. server \notin Down => ~Has(queue[0], Removal(c)) /\ ~Has(queue[loopOf[c]], Unregister(c))
    BY <1>1 DEF Inv, UpInv
  <2> QED
    BY <1>1, <1>2, <1>3, <1>5, <2>1, Shape DEF Inv, UpInv, Open
<1> QED
  BY <1>5, <1>6, <1>7, <1>8 DEF Inv

\* A connection that nothing refers to has been disconnected, until ~TcpServer.
LEMMA DestroyPreserves ==
  ASSUME Inv, NEW c \in Ids, Destroy(c)
  PROVE  Inv'
<1>1. /\ c \in Accepted \ connections /\ gone' = gone \cup {c}
      /\ failed' = (IF state[c] = "kDisconnected" THEN failed ELSE "destructor")
      /\ UNCHANGED <<poolVars, startVars, stopVars, connections, state, reading, queue, destroyed>>
  BY DEF Destroy
<1>2. QueueOk(queue', state', destroyed')
  BY <1>1, Shape
<1>3. Accepted' = Accepted /\ StartInv' /\ RobinInv' /\ QueueInv'
  BY <1>1, <1>2, ConnStep
<1> USE DEF poolVars, startVars, stopVars
<1>4. TypeOK'
  BY <1>1, <1>3 DEF Inv, TypeOK
<1>5. ConnInv' /\ DownInv' /\ DisconnectedBeforeQuit'
  BY <1>1, <1>3 DEF Inv, ConnInv, DownInv, DisconnectedBeforeQuit, OnLoop
<1>6. UpInv'
  BY <1>1, <1>3 DEF Inv, UpInv
<1> QED
  BY <1>3, <1>4, <1>5, <1>6 DEF Inv

-----------------------------------------------------------------------------
(* A loop runs a handler.                                                   *)

\* What runs before the head is not in the queue.
LEMMA HeadIsFirst ==
  ASSUME NEW S, NEW q \in Seq(S), q # <<>>, NEW s, Before(q, s, Head(q))
  PROVE  ~Has(q, s)
<1>1. Len(q) \in Nat \ {0} /\ Head(q) = q[1]
  OBVIOUS
<1>2. \A i \in 1..Len(q) : ~(i < 1) /\ 1 \in 1..Len(q)
  BY <1>1
<1> QED
  BY <1>1, <1>2 DEF Before, Has

\* The handler that l runs is one of the four, for a connection of its own.
LEMMA RunFacts ==
  ASSUME Inv, NEW l \in Loops, Run(l)
  PROVE  LET task == Head(queue[l])
             rest == [queue EXCEPT ![l] = Tail(@)] IN
         /\ queue[l] # <<>> /\ (l = 0 \/ thread[l] = "looping")
         /\ AfterTake(queue, rest, l) /\ QueueOk(rest, state, destroyed)
         /\ UNCHANGED <<poolVars, startVars, server, stopping, gone>>
         /\ \/ \E c \in Accepted :
                 /\ task = Establish(c)
                 /\ queue' = rest /\ state' = [state EXCEPT ![c] = "kConnected"]
                 /\ reading' = reading \cup {c}
                 /\ failed' = IF state[c] = "kConnecting" THEN failed ELSE "connectEstablished"
                 /\ UNCHANGED <<thread, connections, destroyed>>
            \/ \E c \in Accepted :
                 /\ task = Unregister(c) /\ queue' = rest /\ connectDestroyed(c)
                 /\ UNCHANGED <<thread, reading, connections, destroyed, failed>>
            \/ \E c \in Accepted :
                 /\ task = Removal(c) /\ removeConnectionInThisThread(c, rest)
                 /\ UNCHANGED <<thread, state, reading>>
            \/ /\ task = Quit /\ l # 0 /\ l <= stopping /\ quitInThisThread(l)
               /\ UNCHANGED <<state, connections, destroyed, failed>>
<1> DEFINE task == Head(queue[l])
           rest == [queue EXCEPT ![l] = Tail(@)]
<1>1. /\ queue \in [Loops -> Seq(Tasks)] /\ QueueOk(queue, state, destroyed)
      /\ queue[l] # <<>> /\ (l = 0 \/ thread[l] = "looping")
      /\ UNCHANGED <<poolVars, startVars, server, stopping, gone>>
  BY Shape DEF Run, Runs
<1>2. Taken(queue, rest, l)
  BY DEF Taken
<1>3. AfterTake(queue, rest, l) /\ QueueOk(rest, state, destroyed)
  <2> HIDE DEF rest
  <2> QED
    BY <1>1, <1>2, QueueTake
<1>4. /\ task \in Tasks /\ Has(queue[l], task)
  BY <1>3 DEF AfterTake
<1>5. IF task.run = "quit" THEN task = Quit /\ l # 0 /\ l <= stopping ELSE task.conn \in Accepted
  BY <1>1, <1>4 DEF QueueOk
<1>6. \/ /\ task.run = "connectEstablished"
         /\ queue' = rest
         /\ state' = [state EXCEPT ![task.conn] = "kConnected"]
         /\ reading' = reading \cup {task.conn}
         /\ failed' = IF state[task.conn] = "kConnecting" THEN failed ELSE "connectEstablished"
         /\ UNCHANGED <<thread, connections, destroyed>>
      \/ /\ task.run = "connectDestroyed"
         /\ queue' = rest
         /\ connectDestroyed(task.conn)
         /\ UNCHANGED <<thread, reading, connections, destroyed, failed>>
      \/ /\ task.run = "removeConnection"
         /\ removeConnectionInThisThread(task.conn, rest)
         /\ UNCHANGED <<thread, state, reading>>
      \/ /\ task.run = "quit"
         /\ quitInThisThread(l)
         /\ UNCHANGED <<state, connections, destroyed, failed>>
  BY DEF Run
<1>7. /\ task.run = "connectEstablished" => task = Establish(task.conn)
      /\ task.run = "connectDestroyed" => task = Unregister(task.conn)
      /\ task.run = "removeConnection" => task = Removal(task.conn)
  BY <1>4, TaskTypes
<1> HIDE DEF task, rest
<1>8. \/ \E c \in Accepted :
           /\ task = Establish(c)
           /\ queue' = rest /\ state' = [state EXCEPT ![c] = "kConnected"]
           /\ reading' = reading \cup {c}
           /\ failed' = IF state[c] = "kConnecting" THEN failed ELSE "connectEstablished"
           /\ UNCHANGED <<thread, connections, destroyed>>
      \/ \E c \in Accepted :
           /\ task = Unregister(c) /\ queue' = rest /\ connectDestroyed(c)
           /\ UNCHANGED <<thread, reading, connections, destroyed, failed>>
      \/ \E c \in Accepted :
           /\ task = Removal(c) /\ removeConnectionInThisThread(c, rest)
           /\ UNCHANGED <<thread, state, reading>>
      \/ /\ task = Quit /\ l # 0 /\ l <= stopping /\ quitInThisThread(l)
         /\ UNCHANGED <<state, connections, destroyed, failed>>
  <2>1. CASE task.run = "connectEstablished"
    BY <2>1, <1>5, <1>6, <1>7
  <2>2. CASE task.run = "connectDestroyed"
    BY <2>2, <1>5, <1>6, <1>7
  <2>3. CASE task.run = "removeConnection"
    BY <2>3, <1>5, <1>6, <1>7
  <2>4. CASE task.run = "quit"
    BY <2>4, <1>5, <1>6
  <2> QED
    BY <1>6, <2>1, <2>2, <2>3, <2>4
<1> QED
  BY <1>1, <1>3, <1>8 DEF task, rest

\* connectEstablished.
LEMMA RunEstablish ==
  ASSUME Inv, NEW l \in Loops, NEW c \in Accepted, NEW rest,
         queue[l] # <<>>, l = 0 \/ thread[l] = "looping",
         AfterTake(queue, rest, l), QueueOk(rest, state, destroyed),
         Head(queue[l]) = Establish(c), queue' = rest,
         state' = [state EXCEPT ![c] = "kConnected"], reading' = reading \cup {c},
         failed' = (IF state[c] = "kConnecting" THEN failed ELSE "connectEstablished"),
         UNCHANGED <<poolVars, startVars, stopVars, gone, connections, destroyed>>
  PROVE  Inv'
<1>1. /\ Accepted \subseteq Ids /\ 0 \in Loops /\ \A d \in Ids : loopOf[d] \in Loops
      /\ QueueOk(queue, state, destroyed)
      /\ state \in [Ids -> {"kDisconnected", "kConnecting"} \cup Open]
  BY Shape
<1>2. Has(queue[l], Establish(c))
  BY DEF AfterTake
<1>3. l # 0 /\ thread[l] = "looping" /\ loopOf[c] = l /\ state[c] = "kConnecting" /\ failed' = failed
  BY <1>1, <1>2 DEF QueueOk
<1>4. /\ state'[c] = "kConnected" /\ \A d \in Ids : d # c => state'[d] = state[d]
      /\ state' \in [Ids -> {"kDisconnected", "kConnecting"} \cup Open]
  BY <1>1 DEF Open
<1>5. \A m \in Loops : \A t : Has(queue'[m], t) <=> Has(queue[m], t) /\ ~(m = l /\ t = Establish(c))
  BY DEF AfterTake
<1>6. QueueOk(queue', state', destroyed')
  <2>1. ASSUME NEW m \in Loops
        PROVE  ~Has(rest[m], Establish(c)) /\ ~Has(rest[m], Removal(c))
    <3>1. /\ Has(queue[m], Establish(c)) => loopOf[c] = m
          /\ Has(queue[m], Removal(c)) => state[c] = "kDisconnected"
      BY <1>1 DEF QueueOk
    <3>2. \A t : Has(rest[m], t) => Has(queue[m], t) /\ ~(m = l /\ t = Establish(c))
      BY <1>5
    <3> QED
      BY <1>3, <3>1, <3>2
  <2>2. QueueOk(rest, state', destroyed)
    BY <1>1, <1>4, <2>1, QueueState
  <2> QED
    BY <2>2
<1>7. Accepted' = Accepted /\ StartInv' /\ RobinInv' /\ QueueInv'
  BY <1>6, ConnStep
<1> USE DEF poolVars, startVars, stopVars
<1>8. TypeOK'
  BY <1>3, <1>4, <1>7 DEF Inv, TypeOK, AfterTake, Tasks
<1>9. ConnInv'
  <2>1. ASSUME NEW d \in Accepted, state'[d] = "kConnecting"
        PROVE  Has(queue'[loopOf[d]], Establish(d))
    BY <1>1, <1>4, <1>5, <2>1, TaskTypes DEF Inv, ConnInv
  <2> QED
    BY <1>1, <1>4, <1>7, <2>1 DEF Inv, ConnInv
<1>10. UpInv'
  <2>1. server \notin Down => c \in connections /\ ~Has(queue[loopOf[c]], Unregister(c))
    BY <1>3 DEF Inv, UpInv
  <2>2. \A d \in Accepted : Removal(d) # Establish(c) /\ Unregister(d) # Establish(c)
    BY TaskTypes
  <2> QED
    BY <1>1, <1>3, <1>4, <1>5, <1>7, <2>1, <2>2 DEF Inv, UpInv, TypeOK, Open
<1>11. DownInv'
  <2>1. \A d \in Accepted : Unregister(d) # Establish(c)
    BY TaskTypes
  <2> QED
    BY <1>1, <1>3, <1>4, <1>5, <1>7, <2>1 DEF Inv, DownInv
<1>12. DisconnectedBeforeQuit'
  BY <1>1, <1>3, <1>4, <1>7 DEF Inv, DisconnectedBeforeQuit, OnLoop
<1> QED
  BY <1>7, <1>8, <1>9, <1>10, <1>11, <1>12 DEF Inv

\* connectDestroyed.
LEMMA RunUnregister ==
  ASSUME Inv, NEW l \in Loops, NEW c \in Accepted, NEW rest,
         queue[l] # <<>>,
         AfterTake(queue, rest, l), QueueOk(rest, state, destroyed),
         Head(queue[l]) = Unregister(c), queue' = rest, connectDestroyed(c),
         UNCHANGED <<poolVars, startVars, stopVars, gone, reading, connections, destroyed, failed>>
  PROVE  Inv'
<1>1. /\ Accepted \subseteq Ids /\ 0 \in Loops /\ \A d \in Ids : loopOf[d] \in Loops
      /\ QueueOk(queue, state, destroyed) /\ queue \in [Loops -> Seq(Tasks)]
      /\ state \in [Ids -> {"kDisconnected", "kConnecting"} \cup Open]
  BY Shape
<1>2. Has(queue[l], Unregister(c)) /\ loopOf[c] = l
  BY <1>1 DEF AfterTake, QueueOk
<1>3. state[c] # "kConnecting"
  <2>1. Before(queue[l], Establish(c), Head(queue[l])) /\ queue[l] \in Seq(Tasks)
    BY <1>1 DEF QueueOk
  <2>2. ~Has(queue[l], Establish(c))
    BY <2>1, HeadIsFirst
  <2> QED
    BY <1>2, <2>2 DEF Inv, ConnInv
<1>4. /\ state'[c] \notin {"kConnecting", "kConnected"} /\ \A d \in Ids : d # c => state'[d] = state[d]
      /\ state'[c] = state[c] \/ (state[c] = "kConnected" /\ state'[c] = "kDisconnected")
      /\ state' \in [Ids -> {"kDisconnected", "kConnecting"} \cup Open]
  BY <1>1, <1>3 DEF Open, connectDestroyed
<1>5. \A m \in Loops : \A t : Has(queue'[m], t) <=> Has(queue[m], t) /\ ~(m = l /\ t = Unregister(c))
  BY DEF AfterTake
<1>6. QueueOk(queue', state', destroyed')
  <2>1. \A m \in Loops : /\ ~Has(rest[m], Establish(c))
                         /\ Has(rest[m], Removal(c)) => state'[c] = "kDisconnected"
    BY <1>1, <1>3, <1>4, <1>5 DEF QueueOk
  <2>2. QueueOk(rest, state', destroyed)
    BY <1>1, <1>4, <2>1, QueueState
  <2> QED
    BY <2>2
<1>7. Accepted' = Accepted /\ StartInv' /\ RobinInv' /\ QueueInv'
  BY <1>6, ConnStep
<1> USE DEF poolVars, startVars, stopVars
<1>8. TypeOK'
  BY <1>4, <1>7 DEF Inv, TypeOK, AfterTake, Tasks
<1>9. \A d \in Accepted : /\ Establish(d) # Unregister(c) /\ Removal(d) # Unregister(c)
                          /\ Unregister(d) = Unregister(c) => d = c
  BY TaskTypes
<1>10. ConnInv'
  <2>1. ASSUME NEW d \in Accepted, state'[d] = "kConnecting"
        PROVE  Has(queue'[loopOf[d]], Establish(d))
    BY <1>1, <1>4, <1>5, <1>9, <2>1 DEF Inv, ConnInv
  <2> QED
    BY <1>1, <1>4, <1>7, <2>1 DEF Inv, ConnInv
<1>11. UpInv'
  <2> SUFFICES ASSUME server \notin Down PROVE UpInv'
    BY DEF UpInv
  <2>1. state[c] = "kDisconnected"
    BY <1>2 DEF Inv, UpInv
  <2>2. \A d \in Accepted : state'[d] = state[d]
    BY <1>1, <1>4, <2>1
  <2>3. \A d \in reading' : state'[d] \in Open
    BY <2>2, Shape DEF Inv, UpInv
  <2> QED
    BY <1>1, <1>5, <1>7, <1>9, <2>2, <2>3 DEF Inv, UpInv
<1>12. DownInv'
  BY <1>1, <1>4, <1>5, <1>7, <1>9 DEF Inv, DownInv
<1>13. DisconnectedBeforeQuit'
  BY <1>1, <1>4, <1>7 DEF Inv, DisconnectedBeforeQuit, OnLoop
<1> QED
  BY <1>7, <1>8, <1>10, <1>11, <1>12, <1>13 DEF Inv

\* removeConnectionInThisThread.
LEMMA RunRemoval ==
  ASSUME Inv, NEW l \in Loops, NEW c \in Accepted, NEW rest,
         AfterTake(queue, rest, l), QueueOk(rest, state, destroyed),
         Head(queue[l]) = Removal(c), removeConnectionInThisThread(c, rest),
         UNCHANGED <<poolVars, startVars, stopVars, gone, state, reading>>
  PROVE  Inv'
<1>1. /\ Accepted \subseteq Ids /\ 0 \in Loops /\ \A d \in Ids : loopOf[d] \in Loops
      /\ QueueOk(queue, state, destroyed) /\ destroyed \in [Ids -> Nat]
      /\ connections \subseteq Accepted /\ rest \in [Loops -> Seq(Tasks)]
  BY Shape DEF AfterTake
<1>2. l = 0 /\ state[c] = "kDisconnected" /\ Has(queue[0], Removal(c))
  BY <1>1 DEF AfterTake, QueueOk
<1>3. \A m \in Loops : \A t : Has(rest[m], t) <=> Has(queue[m], t) /\ ~(m = l /\ t = Removal(c))
  BY DEF AfterTake
<1>4. /\ QueueOk(queue', state, destroyed')
      /\ \/ /\ c \in connections /\ server \notin Down
            /\ connections' = connections \ {c}
            /\ AfterPost(rest, queue', loopOf[c], Unregister(c))
            /\ destroyed' = [destroyed EXCEPT ![c] = 1] /\ failed' = failed
         \/ /\ c \notin connections
            /\ UNCHANGED <<connections, destroyed>> /\ queue' = rest
            /\ failed' \in {"danglingServer", "removeConnection"}
  BY <1>1, RemoveInPlace
<1>5. /\ queue' \in [Loops -> Seq(Tasks)]
      /\ \A m \in Loops : \A t : Has(queue'[m], t) =>
           Has(queue[m], t) \/ (m = loopOf[c] /\ t = Unregister(c))
      /\ \A m \in Loops : \A t : Has(queue[m], t) /\ t # Removal(c) => Has(queue'[m], t)
      /\ ~Has(queue'[0], Removal(c))
      /\ connections' = connections \ {c}
  BY <1>1, <1>2, <1>3, <1>4, TaskTypes DEF AfterPost
<1>6. Accepted' = Accepted /\ StartInv' /\ RobinInv' /\ QueueInv'
  BY <1>4, ConnStep
<1> USE DEF poolVars, startVars, stopVars
<1>7. \A d \in Accepted : /\ Establish(d) # Removal(c) /\ Unregister(d) # Removal(c)
                          /\ Removal(d) # Unregister(c)
                          /\ Removal(d) = Removal(c) => d = c
                          /\ Unregister(d) = Unregister(c) => d = c
  BY TaskTypes
<1>8. TypeOK'
  <2>1. destroyed' \in [Ids -> Nat] /\ connections' \subseteq Accepted
    <3>1. destroyed' = [destroyed EXCEPT ![c] = 1] \/ destroyed' = destroyed
      BY <1>4
    <3> QED
      BY <1>1, <1>5, <3>1
  <2>2. failed' \in {"none", "connectEstablished", "handleClose", "removeConnection",
                     "destructor", "danglingServer"}
    BY <1>4 DEF Inv, TypeOK
  <2> QED
    BY <1>5, <1>6, <2>1, <2>2 DEF Inv, TypeOK, Tasks
<1>9. ConnInv'
  <2>1. \A d \in Accepted : state[d] = "kConnecting" => Has(queue'[loopOf[d]], Establish(d))
    BY <1>1, <1>5, <1>7 DEF Inv, ConnInv
  <2>2. \A d \in Ids : /\ destroyed'[d] <= 1
                       /\ d \in connections' \/ d \notin Accepted => destroyed'[d] = 0
    BY <1>1, <1>4, <1>5 DEF Inv, ConnInv
  <2> QED
    BY <1>5, <1>6, <2>1, <2>2 DEF Inv, ConnInv
<1>10. UpInv'
  <2> SUFFICES ASSUME server \notin Down PROVE UpInv'
    BY DEF UpInv
  <2>1. c \in connections /\ failed' = "none"
    BY <1>2, <1>4 DEF Inv, UpInv
  <2>2. ASSUME NEW d \in Accepted
        PROVE  /\ state[d] # "kDisconnected" => d \in connections'
               /\ Has(queue'[0], Removal(d)) <=> d \in connections' /\ state[d] = "kDisconnected"
               /\ Has(queue'[loopOf[d]], Unregister(d)) => state[d] = "kDisconnected"
    <3>1. CASE d = c
      BY <1>2, <1>5, <3>1
    <3>2. CASE d # c
      BY <1>1, <1>5, <1>7, <3>2 DEF Inv, UpInv
    <3> QED
      BY <3>1, <3>2
  <2> QED
    BY <1>6, <2>1, <2>2 DEF Inv, UpInv
<1>11. DownInv'
  BY <1>1, <1>5, <1>6, <1>7 DEF Inv, DownInv
<1>12. DisconnectedBeforeQuit'
  BY <1>6 DEF Inv, DisconnectedBeforeQuit, OnLoop
<1> QED
  BY <1>6, <1>8, <1>9, <1>10, <1>11, <1>12 DEF Inv

\* quitInThisThread: everything bound before it has run.
LEMMA RunQuit ==
  ASSUME Inv, NEW l \in Loops, queue[l] # <<>>, thread[l] = "looping",
         AfterTake(queue, [queue EXCEPT ![l] = Tail(@)], l),
         Head(queue[l]) = Quit, l # 0, l <= stopping, quitInThisThread(l),
         UNCHANGED <<poolVars, startVars, server, stopping, gone, state, connections, destroyed, failed>>
  PROVE  Inv'
<1>1. /\ Accepted \subseteq Ids /\ 0 \in Loops /\ \A d \in Ids : loopOf[d] \in Loops
      /\ QueueOk(queue, state, destroyed) /\ queue \in [Loops -> Seq(Tasks)]
      /\ Loops \subseteq Nat /\ stopping \in Nat
      /\ thread \in [Loops -> {"none", "created", "counted", "looping", "ended"}]
  <2>1. starting \in Nat /\ stopping \in 0..starting
    BY LoopsOfPool DEF Inv, TypeOK
  <2>2. thread \in [Loops -> {"none", "created", "counted", "looping", "ended"}]
    BY DEF Inv, TypeOK
  <2> QED
    BY <2>1, <2>2, Shape
<1>2. server \in Down
  BY <1>1 DEF Inv, StartInv
<1>3. /\ queue' = [queue EXCEPT ![l] = <<>>]
      /\ thread' = [thread EXCEPT ![l] = "ended"]
      /\ reading' = {c \in reading : loopOf[c] # l}
  BY DEF quitInThisThread, Becomes
<1>4. /\ queue' \in [Loops -> Seq(Tasks)]
      /\ \A m \in Loops : m # l => queue'[m] = queue[m]
      /\ \A t : ~Has(queue'[l], t)
      /\ Distinct(queue'[l]) /\ \A s, t : Before(queue'[l], s, t)
  BY <1>1, <1>3 DEF Has, Distinct, Before
<1>5. \A c \in OnLoop(l) : c \in Accepted /\ loopOf[c] = l /\ state[c] \notin {"kConnecting", "kConnected"}
  <2> SUFFICES ASSUME NEW c \in Accepted, loopOf[c] = l PROVE state[c] \notin {"kConnecting", "kConnected"}
    BY DEF OnLoop
  <2>1. Before(queue[l], Unregister(c), Head(queue[l])) /\ queue[l] \in Seq(Tasks)
    BY <1>1 DEF QueueOk
  <2>2. ~Has(queue[l], Unregister(c))
    BY <2>1, HeadIsFirst
  <2> QED
    BY <1>2, <2>2 DEF Inv, DownInv
<1> USE DEF poolVars, startVars
<1>6. Accepted' = Accepted
  BY DEF Accepted
<1>7. TypeOK'
  <2>1. thread' \in [Loops -> {"none", "created", "counted", "looping", "ended"}]
    BY <1>1, <1>3
  <2> QED
    BY <1>3, <1>4, <1>6, <2>1 DEF Inv, TypeOK, Tasks
<1>8. StartInv'
  <2>1. thread'[l] = "ended" /\ \A m \in Loops : m # l => thread'[m] = thread[m]
    BY <1>1, <1>3
  <2>2. starting \in Nat /\ 1..starting \subseteq Loops /\ l <= starting
    <3>1. starting \in 0..numThreads /\ TypeOK
      BY DEF Inv, TypeOK
    <3>2. starting \in Nat /\ 1..starting \subseteq Loops
      BY <3>1, LoopsOfPool
    <3> QED
      BY <1>1, <3>2 DEF Inv, StartInv
  <2> QED
    BY <1>1, <1>2, <2>1, <2>2 DEF Inv, StartInv, Down
<1>9. RobinInv'
  BY <1>6 DEF Inv, RobinInv, OnLoop
<1>10. QueueInv'
  <2>1. \A m \in Loops :
          /\ Distinct(queue'[m])
          /\ \A t \in Tasks : Has(queue'[m], t) =>
               IF t.run = "quit" THEN t = Quit /\ m # 0 /\ m <= stopping ELSE t.conn \in Accepted
    BY <1>1, <1>4 DEF QueueOk
  <2>2. \A m \in Loops : \A c \in Accepted :
          /\ Has(queue'[m], Establish(c)) => m # 0 /\ loopOf[c] = m /\ state[c] = "kConnecting"
          /\ Has(queue'[m], Unregister(c)) => loopOf[c] = m /\ destroyed[c] = 1
          /\ Has(queue'[m], Removal(c)) => m = 0 /\ loopOf[c] # 0 /\ state[c] = "kDisconnected"
          /\ Before(queue'[m], Establish(c), Unregister(c))
          /\ Before(queue'[m], Unregister(c), Quit)
    BY <1>1, <1>4 DEF QueueOk
  <2> QED
    BY <1>6, <2>1, <2>2 DEF QueueInv, QueueOk
<1>11. ConnInv'
  <2>1. ASSUME NEW c \in Accepted, state[c] = "kConnecting"
        PROVE  Has(queue'[loopOf[c]], Establish(c))
    BY <1>1, <1>4, <1>5, <2>1 DEF Inv, ConnInv, OnLoop
  <2> QED
    BY <1>6, <2>1 DEF Inv, ConnInv
<1>12. UpInv' /\ DownInv'
  <2>1. ASSUME NEW c \in Accepted, loopOf[c] # 0, state[c] \in {"kConnecting", "kConnected"}
        PROVE  Has(queue'[loopOf[c]], Unregister(c))
    BY <1>1, <1>2, <1>4, <1>5, <2>1 DEF Inv, DownInv, OnLoop
  <2> QED
    BY <1>2, <1>6, <2>1 DEF UpInv, DownInv
<1>13. DisconnectedBeforeQuit'
  BY <1>1, <1>3, <1>5, <1>6 DEF Inv, DisconnectedBeforeQuit, OnLoop
<1> QED
  BY <1>7, <1>8, <1>9, <1>10, <1>11, <1>12, <1>13 DEF Inv

\* A loop runs the handler at the head of its queue: one of the four.
LEMMA RunPreserves ==
  ASSUME Inv, NEW l \in Loops, Run(l)
  PROVE  Inv'
<1> DEFINE rest == [queue EXCEPT ![l] = Tail(@)]
<1>1. /\ queue[l] # <<>> /\ (l = 0 \/ thread[l] = "looping")
      /\ AfterTake(queue, rest, l) /\ QueueOk(rest, state, destroyed)
      /\ UNCHANGED <<poolVars, startVars, server, stopping, gone>>
      /\ \/ \E c \in Accepted :
              /\ Head(queue[l]) = Establish(c)
              /\ queue' = rest /\ state' = [state EXCEPT ![c] = "kConnected"]
              /\ reading' = reading \cup {c}
              /\ failed' = IF state[c] = "kConnecting" THEN failed ELSE "connectEstablished"
              /\ UNCHANGED <<thread, connections, destroyed>>
         \/ \E c \in Accepted :
              /\ Head(queue[l]) = Unregister(c) /\ queue' = rest /\ connectDestroyed(c)
              /\ UNCHANGED <<thread, reading, connections, destroyed, failed>>
         \/ \E c \in Accepted :
              /\ Head(queue[l]) = Removal(c) /\ removeConnectionInThisThread(c, rest)
              /\ UNCHANGED <<thread, state, reading>>
         \/ /\ Head(queue[l]) = Quit /\ l # 0 /\ l <= stopping /\ quitInThisThread(l)
            /\ UNCHANGED <<state, connections, destroyed, failed>>
  BY RunFacts
<1>5. CASE /\ Head(queue[l]) = Quit /\ l # 0 /\ l <= stopping /\ quitInThisThread(l)
           /\ UNCHANGED <<state, connections, destroyed, failed>>
  BY <1>1, <1>5, RunQuit
<1> HIDE DEF rest
<1>2. CASE \E c \in Accepted :
              /\ Head(queue[l]) = Establish(c)
              /\ queue' = rest /\ state' = [state EXCEPT ![c] = "kConnected"]
              /\ reading' = reading \cup {c}
              /\ failed' = IF state[c] = "kConnecting" THEN failed ELSE "connectEstablished"
              /\ UNCHANGED <<thread, connections, destroyed>>
  <2>1. UNCHANGED <<poolVars, startVars, stopVars, gone, connections, destroyed>>
    BY <1>1, <1>2 DEF stopVars
  <2> QED
    BY <1>1, <1>2, <2>1, RunEstablish
<1>3. CASE \E c \in Accepted :
              /\ Head(queue[l]) = Unregister(c) /\ queue' = rest /\ connectDestroyed(c)
              /\ UNCHANGED <<thread, reading, connections, destroyed, failed>>
  <2>1. UNCHANGED <<poolVars, startVars, stopVars, gone, reading, connections, destroyed, failed>>
    BY <1>1, <1>3 DEF stopVars
  <2> QED
    BY <1>1, <1>3, <2>1, RunUnregister
<1>4. CASE \E c \in Accepted :
              /\ Head(queue[l]) = Removal(c) /\ removeConnectionInThisThread(c, rest)
              /\ UNCHANGED <<thread, state, reading>>
  <2>1. UNCHANGED <<poolVars, startVars, stopVars, gone, state, reading>>
    BY <1>1, <1>4 DEF stopVars
  <2> QED
    BY <1>1, <1>4, <2>1, RunRemoval
<1> QED
  BY <1>1, <1>2, <1>3, <1>4, <1>5
-----------------------------------------------------------------------------
(* Teardown.                                                                *)

\* SetToSeq lists the members of a finite set, each once.
LEMMA SetToSeqFacts ==
  ASSUME NEW S, IsFiniteSet(S)
  PROVE  /\ SetToSeq(S) \in Seq(S)
         /\ Distinct(SetToSeq(S))
         /\ \A x : Has(SetToSeq(S), x) <=> x \in S
<1> DEFINE n == Cardinality(S)
           f == SetToSeq(S)
<1>1. n \in Nat /\ ExistsBijection(1..n, S) /\ IsFiniteSet(1..n) /\ Cardinality(1..n) = n
  BY FS_CardinalityType, FS_Interval
<1>2. PICK g : g \in Bijection(1..n, S)
  BY <1>1, Fun_ExistsBij
<1>3. g \in [1..n -> S] /\ IsInjective(g)
  BY <1>2 DEF Bijection, Injection
<1>4. f \in [1..n -> S] /\ IsInjective(f)
  BY <1>3 DEF SetToSeq
<1> HIDE DEF f
<1>5. f \in Injection(1..n, S)
  BY <1>4 DEF Injection
<1>6. f \in Bijection(1..n, Range(f))
  BY <1>5, Fun_InjMeansBijImage DEF Range
<1>7. ExistsBijection(1..n, Range(f)) /\ Range(f) \in SUBSET S
  BY <1>4, <1>6, Fun_ExistsBij DEF Range
<1>8. Cardinality(Range(f)) = n
  BY <1>1, <1>7, FS_Bijection
<1>9. Range(f) = S
  BY <1>7, <1>8, FS_Subset
<1>10. f \in Seq(S) /\ Len(f) = n
  BY <1>1, <1>4
<1>11. Distinct(f)
  BY <1>4, <1>10 DEF Distinct, IsInjective
<1>12. \A x : Has(f, x) <=> x \in S
  BY <1>4, <1>9, <1>10 DEF Has, Range
<1> QED
  BY <1>10, <1>11, <1>12 DEF f

\* The handlers ~TcpServer posts: one connectDestroyed for each connection of a pool's
\* loop, behind what the loop's queue holds.
LEMMA DestroyServerQueues ==
  ASSUME Inv, destroyServer
  PROVE  /\ queue' \in [Loops -> Seq(Tasks)]
         /\ \A m \in Loops : \A t : Has(queue'[m], t) <=>
              \/ Has(queue[m], t)
              \/ m # 0 /\ \E c \in connections : loopOf[c] = m /\ t = Unregister(c)
         /\ \A m \in Loops : Distinct(queue'[m])
         /\ \A m \in Loops, c \in Accepted :
              /\ Before(queue'[m], Establish(c), Unregister(c))
              /\ Before(queue'[m], Unregister(c), Quit)
<1> DEFINE Of(l) == SetToSeq({c \in connections : loopOf[c] = l})
           All(l) == [i \in 1..Len(Of(l)) |-> Task("connectDestroyed", Of(l)[i])]
<1>1. queue' = [l \in Loops |-> IF l = 0 THEN queue[l] ELSE queue[l] \o All(l)]
  BY DEF destroyServer
<1>2. /\ queue \in [Loops -> Seq(Tasks)] /\ QueueOk(queue, state, destroyed)
      /\ connections \subseteq Accepted /\ Accepted \subseteq Ids /\ stopping = 0
      /\ Loops \subseteq Nat /\ \A c \in connections : destroyed[c] = 0
  BY Shape DEF Inv, ConnInv, destroyServer, Down
<1>3. ASSUME NEW m \in Loops
      PROVE  /\ All(m) \in Seq(Tasks) /\ Distinct(All(m))
             /\ \A t : Has(All(m), t) <=> \E c \in connections : loopOf[c] = m /\ t = Unregister(c)
  <2> DEFINE S == {c \in connections : loopOf[c] = m}
  <2>1. IsFiniteSet(S)
    <3>1. IsFiniteSet(1..MaxConns)
      BY FS_Interval, MaxConnsAssumption
    <3>2. S \in SUBSET Ids
      BY <1>2
    <3> HIDE DEF S
    <3> QED
      BY <3>1, <3>2, FS_Subset DEF Ids
  <2>2. Of(m) \in Seq(S) /\ Distinct(Of(m)) /\ \A x : Has(Of(m), x) <=> x \in S
    <3> HIDE DEF S
    <3>1. SetToSeq(S) \in Seq(S) /\ Distinct(SetToSeq(S)) /\ \A x : Has(SetToSeq(S), x) <=> x \in S
      BY <2>1, SetToSeqFacts
    <3> QED
      BY <3>1 DEF S
  <2> DEFINE n == Len(Of(m))
  <2>3. /\ n \in Nat /\ \A i \in 1..n : Of(m)[i] \in S
        /\ All(m) = [i \in 1..n |-> Unregister(Of(m)[i])]
    <3>1. All(m) = [i \in 1..n |-> Unregister(Of(m)[i])]
      BY DEF Unregister
    <3> HIDE DEF Of, S, All
    <3>2. n \in Nat /\ \A i \in 1..n : Of(m)[i] \in S
      BY <2>2
    <3> QED
      BY <3>1, <3>2
  <2> HIDE DEF n, All, Of
  <2>4. All(m) \in Seq(Tasks) /\ Len(All(m)) = n /\ \A i \in 1..n : All(m)[i] = Unregister(Of(m)[i])
    <3>1. \A i \in 1..n : Of(m)[i] \in Ids
      BY <1>2, <2>3
    <3>2. \A i \in 1..n : Unregister(Of(m)[i]) \in Tasks
      BY <3>1, TaskTypes
    <3> QED
      BY <2>3, <3>2
  <2>5. Distinct(All(m))
    <3> HIDE DEF Of
    <3> QED
      BY <2>2, <2>4, TaskTypes DEF Distinct, n
  <2>6. ASSUME NEW t PROVE Has(All(m), t) <=> \E c \in S : t = Unregister(c)
    <3> HIDE DEF Of, S
    <3> QED
      BY <2>2, <2>3, <2>4 DEF Has, n
  <2> QED
    BY <2>4, <2>5, <2>6
<1> HIDE DEF All
<1>4. ASSUME NEW m \in Loops, m # 0
      PROVE  /\ queue'[m] \in Seq(Tasks)
             /\ \A t : Has(queue'[m], t) <=> Has(queue[m], t) \/ Has(All(m), t)
             /\ Distinct(queue[m]) /\ Distinct(All(m)) /\ (\A t \in Tasks : Has(queue[m], t) => ~Has(All(m), t))
                  => Distinct(queue'[m])
             /\ \A s, t : Before(queue[m], s, t) /\ ~Has(All(m), s) => Before(queue'[m], s, t)
  <2>1. queue'[m] = queue[m] \o All(m) /\ queue[m] \in Seq(Tasks) /\ All(m) \in Seq(Tasks)
    BY <1>1, <1>2, <1>3, <1>4
  <2> QED
    BY <2>1, ConcatFacts
<1>5. \A m \in Loops : m = 0 => queue'[m] = queue[m]
  BY <1>1
<1>6. queue' \in [Loops -> Seq(Tasks)]
  <2>1. \A m \in Loops : queue'[m] \in Seq(Tasks)
    BY <1>2, <1>4, <1>5
  <2> QED
    BY <1>1, <2>1
<1>7. \A m \in Loops : \A t : Has(queue'[m], t) <=>
        \/ Has(queue[m], t)
        \/ m # 0 /\ \E c \in connections : loopOf[c] = m /\ t = Unregister(c)
  BY <1>3, <1>4, <1>5
<1>8. ASSUME NEW m \in Loops PROVE Distinct(queue'[m])
  <2>1. \A t \in Tasks : Has(queue[m], t) => ~Has(All(m), t)
    BY <1>2, <1>3 DEF QueueOk
  <2> QED
    BY <1>2, <1>3, <1>4, <1>5, <2>1 DEF QueueOk
<1>9. ASSUME NEW m \in Loops, NEW c \in Accepted
      PROVE  /\ Before(queue'[m], Establish(c), Unregister(c))
             /\ Before(queue'[m], Unregister(c), Quit)
  <2>1. Before(queue[m], Establish(c), Unregister(c)) /\ ~Has(queue[m], Quit)
    BY <1>2, TaskTypes DEF QueueOk, Quit, Task
  <2>2. ~Has(All(m), Establish(c)) /\ ~Has(All(m), Quit)
    BY <1>3, TaskTypes
  <2>3. ~Has(queue'[m], Quit)
    BY <1>4, <1>5, <2>1, <2>2
  <2> QED
    <3>1. Before(queue'[m], Establish(c), Unregister(c))
      BY <1>4, <1>5, <2>1, <2>2
    <3>2. Before(queue'[m], Unregister(c), Quit)
      BY <2>3 DEF Before, Has
    <3> QED
      BY <3>1, <3>2
<1> QED
  BY <1>6, <1>7, <1>8, <1>9

\* ~TcpServer empties the map, and every connection of the pool waits for its
\* connectDestroyed.
LEMMA DestroyServerPreserves == Inv /\ destroyServer => Inv'
<1> SUFFICES ASSUME Inv, destroyServer PROVE Inv'
  OBVIOUS
<1>1. /\ server \in {"new", "started"} /\ server' = "stopping" /\ connections' = {}
      /\ state' = [c \in Ids |->
           IF c \in connections /\ loopOf[c] = 0 /\ state[c] = "kConnected"
           THEN "kDisconnected" ELSE state[c]]
      /\ destroyed' = [c \in Ids |-> IF c \in connections THEN destroyed[c] + 1 ELSE destroyed[c]]
      /\ UNCHANGED <<poolVars, startVars, thread, stopping, reading, gone, failed>>
  BY DEF destroyServer
<1>2. /\ Accepted \subseteq Ids /\ \A d \in Ids : loopOf[d] \in Loops
      /\ QueueOk(queue, state, destroyed) /\ stopping = 0
      /\ state \in [Ids -> {"kDisconnected", "kConnecting"} \cup Open]
      /\ destroyed \in [Ids -> Nat] /\ connections \subseteq Accepted
  BY <1>1, Shape DEF Down
<1>3. /\ queue' \in [Loops -> Seq(Tasks)]
      /\ \A m \in Loops : \A t : Has(queue'[m], t) <=>
           \/ Has(queue[m], t)
           \/ m # 0 /\ \E c \in connections : loopOf[c] = m /\ t = Unregister(c)
      /\ \A m \in Loops : Distinct(queue'[m])
      /\ \A m \in Loops, c \in Accepted :
           /\ Before(queue'[m], Establish(c), Unregister(c))
           /\ Before(queue'[m], Unregister(c), Quit)
  BY DestroyServerQueues
<1> USE DEF poolVars, startVars
<1>4. Accepted' = Accepted
  BY <1>1 DEF Accepted
<1>5. /\ \A c \in Accepted : loopOf[c] # 0 => state'[c] = state[c]
      /\ \A c \in Ids : state'[c] = state[c] \/ state'[c] = "kDisconnected"
      /\ \A c \in Ids \ Accepted : state'[c] = state[c]
      /\ \A c \in connections : destroyed'[c] = 1
      /\ \A c \in Ids \ connections : destroyed'[c] = destroyed[c]
      /\ destroyed' \in [Ids -> Nat]
  BY <1>1, <1>2 DEF Inv, ConnInv
<1>6. TypeOK'
  <2>1. state' \in [Ids -> {"kDisconnected", "kConnecting"} \cup Open]
    BY <1>1, <1>2
  <2> QED
    BY <1>1, <1>3, <1>4, <1>5, <2>1 DEF Inv, TypeOK, Tasks
<1>7. StartInv'
  BY <1>1 DEF Inv, StartInv, Down
<1>8. RobinInv'
  BY <1>1, <1>4 DEF Inv, RobinInv, OnLoop
<1>9. QueueInv'
  <2>1. ASSUME NEW m \in Loops, NEW t \in Tasks, Has(queue'[m], t)
        PROVE  IF t.run = "quit" THEN t = Quit /\ m # 0 /\ m <= stopping' ELSE t.conn \in Accepted
    BY <1>1, <1>2, <1>3, <2>1 DEF QueueOk, Unregister, Task
  <2>2. ASSUME NEW m \in Loops, NEW c \in Accepted
        PROVE  /\ Has(queue'[m], Establish(c)) => m # 0 /\ loopOf[c] = m /\ state'[c] = "kConnecting"
               /\ Has(queue'[m], Unregister(c)) => loopOf[c] = m /\ destroyed'[c] = 1
               /\ Has(queue'[m], Removal(c)) => m = 0 /\ loopOf[c] # 0 /\ state'[c] = "kDisconnected"
    <3>1. /\ Has(queue'[m], Establish(c)) => Has(queue[m], Establish(c))
          /\ Has(queue'[m], Removal(c)) => Has(queue[m], Removal(c))
      BY <1>3, TaskTypes
    <3>2. /\ Has(queue[m], Establish(c)) => m # 0 /\ loopOf[c] = m /\ state[c] = "kConnecting"
          /\ Has(queue[m], Unregister(c)) => loopOf[c] = m /\ destroyed[c] = 1
          /\ Has(queue[m], Removal(c)) => m = 0 /\ loopOf[c] # 0 /\ state[c] = "kDisconnected"
      BY <1>2 DEF QueueOk
    <3>3. Has(queue'[m], Unregister(c)) =>
            Has(queue[m], Unregister(c)) \/ (c \in connections /\ loopOf[c] = m)
      BY <1>3, TaskTypes
    <3> QED
      BY <1>2, <1>5, <3>1, <3>2, <3>3 DEF Inv, ConnInv
  <2>3. \A m \in Loops :
          /\ Distinct(queue'[m])
          /\ \A t \in Tasks : Has(queue'[m], t) =>
               IF t.run = "quit" THEN t = Quit /\ m # 0 /\ m <= stopping' ELSE t.conn \in Accepted
    BY <1>3, <2>1
  <2>4. \A m \in Loops : \A c \in Accepted :
          /\ Has(queue'[m], Establish(c)) => m # 0 /\ loopOf[c] = m /\ state'[c] = "kConnecting"
          /\ Has(queue'[m], Unregister(c)) => loopOf[c] = m /\ destroyed'[c] = 1
          /\ Has(queue'[m], Removal(c)) => m = 0 /\ loopOf[c] # 0 /\ state'[c] = "kDisconnected"
          /\ Before(queue'[m], Establish(c), Unregister(c))
          /\ Before(queue'[m], Unregister(c), Quit)
    <3>1. \A m \in Loops, c \in Accepted :
            /\ Before(queue'[m], Establish(c), Unregister(c))
            /\ Before(queue'[m], Unregister(c), Quit)
      BY <1>3
    <3> QED
      BY <2>2, <3>1
  <2>5. loopOf' = loopOf
    BY <1>1
  <2> QED
    BY <1>4, <2>3, <2>4, <2>5 DEF QueueInv, QueueOk
<1>10. ConnInv'
  <2>1. \A c \in Accepted : state'[c] = "kConnecting" => Has(queue'[loopOf[c]], Establish(c))
    BY <1>2, <1>3, <1>5 DEF Inv, ConnInv
  <2>2. \A c \in Ids : destroyed'[c] <= 1 /\ (c \notin Accepted => destroyed'[c] = 0)
    <3> SUFFICES ASSUME NEW c \in Ids PROVE destroyed'[c] <= 1 /\ (c \notin Accepted => destroyed'[c] = 0)
      OBVIOUS
    <3>1. destroyed[c] <= 1 /\ (c \notin Accepted => destroyed[c] = 0)
      BY DEF Inv, ConnInv
    <3> QED
      BY <1>2, <1>5, <3>1
  <2>3. \A c \in Ids \ Accepted : state'[c] = "kConnecting" /\ loopOf[c] = 0
    BY <1>5 DEF Inv, ConnInv
  <2>4. connections' = {} /\ loopOf' = loopOf
    BY <1>1
  <2> QED
    BY <1>4, <2>1, <2>2, <2>3, <2>4 DEF ConnInv
<1>11. UpInv' /\ DownInv'
  <2>1. ASSUME NEW c \in Accepted, loopOf[c] # 0, state'[c] \in {"kConnecting", "kConnected"}
        PROVE  Has(queue'[loopOf[c]], Unregister(c))
    <3>1. c \in connections
      BY <1>1, <1>5, <2>1 DEF Inv, UpInv, Down
    <3> QED
      BY <1>2, <1>3, <2>1, <3>1
  <2> QED
    BY <1>1, <1>4, <2>1 DEF UpInv, DownInv, Down
<1>12. DisconnectedBeforeQuit'
  BY <1>1 DEF Inv, StartInv, DisconnectedBeforeQuit, Down
<1> QED
  BY <1>6, <1>7, <1>8, <1>9, <1>10, <1>11, <1>12 DEF Inv

\* quitInThisThread is posted behind everything else the loop has to do.
LEMMA StopNextPreserves == Inv /\ stopNext => Inv'
<1> SUFFICES ASSUME Inv, stopNext PROVE Inv'
  OBVIOUS
<1> DEFINE l == stopping + 1
<1>1. /\ server = "stopping" /\ stopping < starting /\ stopping' = l
      /\ Posted(queue, queue', l, Quit)
      /\ UNCHANGED <<poolVars, startVars, thread, server, connections, state, reading, gone, destroyed, failed>>
  BY DEF stopNext, Post, Posted, Quit
<1>2. /\ Accepted \subseteq Ids /\ \A d \in Ids : loopOf[d] \in Loops
      /\ QueueOk(queue, state, destroyed) /\ queue \in [Loops -> Seq(Tasks)]
      /\ Loops \subseteq Nat
  BY Shape
<1>3. stopping \in Nat /\ l \in Loops /\ l # 0 /\ starting \in Nat /\ l \in 0..starting
  <2>1. /\ starting \in 0..numThreads /\ stopping \in 0..starting
        /\ numThreads \in Nat /\ 0..numThreads \subseteq Loops
    BY LoopsOfPool DEF Inv, TypeOK
  <2> QED
    BY <1>1, <2>1
<1>4. ~Has(queue[l], Quit)
  <2>1. Has(queue[l], Quit) => l <= stopping
    BY <1>2, <1>3, TaskTypes DEF QueueOk, Quit, Task
  <2> QED
    BY <1>3, <2>1
<1>5. stopping' = stopping + 1
  BY <1>1
<1> HIDE DEF l
<1>6. AfterPost(queue, queue', l, Quit)
  BY <1>1, <1>2, <1>3, TaskTypes, PostFacts
<1> USE DEF poolVars, startVars
<1>7. Accepted' = Accepted
  BY <1>1 DEF Accepted
<1>8. \A c : Establish(c) # Quit /\ Unregister(c) # Quit /\ Removal(c) # Quit /\ Establish(c) # Unregister(c)
  BY TaskTypes
<1>9. TypeOK'
  BY <1>1, <1>3, <1>6, <1>7 DEF Inv, TypeOK, AfterPost, Tasks
<1>10. StartInv' /\ RobinInv'
  <2>1. UNCHANGED <<thread, server, starting>> /\ server \in Down
    BY <1>1 DEF Down
  <2>2. StartInv'
    <3>1. StartInv
      BY DEF Inv
    <3>2. thread' = thread /\ server' = server /\ starting' = starting
      BY <2>1
    <3> QED
      BY <2>1, <3>1, <3>2 DEF StartInv, Down
  <2>3. UNCHANGED <<numThreads, next, loopOf>>
    BY <1>1
  <2>4. \A m : OnLoop(m)' = OnLoop(m)
    BY <1>7, <2>3 DEF OnLoop
  <2>5. RobinInv'
    BY <1>7, <2>3, <2>4 DEF Inv, RobinInv
  <2> QED
    BY <2>2, <2>5
<1>11. QueueInv'
  <2>1. \A m \in Loops : Distinct(queue'[m])
    BY <1>2, <1>4, <1>6 DEF QueueOk, AfterPost
  <2>2. ASSUME NEW m \in Loops, NEW t \in Tasks, Has(queue'[m], t)
        PROVE  IF t.run = "quit" THEN t = Quit /\ m # 0 /\ m <= stopping' ELSE t.conn \in Accepted
    <3>1. CASE Has(queue[m], t)
      BY <1>2, <1>3, <1>5, <3>1 DEF QueueOk
    <3>2. CASE m = l /\ t = Quit
      BY <1>1, <1>3, <3>2 DEF Quit, Task
    <3> QED
      BY <1>6, <2>2, <3>1, <3>2 DEF AfterPost
  <2>3. ASSUME NEW m \in Loops, NEW c \in Accepted
        PROVE  /\ Has(queue'[m], Establish(c)) => m # 0 /\ loopOf[c] = m /\ state[c] = "kConnecting"
               /\ Has(queue'[m], Unregister(c)) => loopOf[c] = m /\ destroyed[c] = 1
               /\ Has(queue'[m], Removal(c)) => m = 0 /\ loopOf[c] # 0 /\ state[c] = "kDisconnected"
               /\ Before(queue'[m], Establish(c), Unregister(c))
               /\ Before(queue'[m], Unregister(c), Quit)
    BY <1>2, <1>6, <1>8 DEF QueueOk, AfterPost
  <2> QED
    BY <1>1, <1>7, <2>1, <2>2, <2>3 DEF QueueInv, QueueOk
<1>12. ConnInv' /\ UpInv' /\ DownInv' /\ DisconnectedBeforeQuit'
  <2>1. \A m \in Loops : \A t : Has(queue[m], t) => Has(queue'[m], t)
    BY <1>6 DEF AfterPost
  <2> QED
    BY <1>1, <1>2, <1>7, <2>1 DEF Inv, ConnInv, UpInv, DownInv, Down, DisconnectedBeforeQuit, OnLoop
<1> QED
  BY <1>9, <1>10, <1>11, <1>12 DEF Inv

\* ~TcpServer returns after the last join().
LEMMA ServerDestroyedPreserves == Inv /\ serverDestroyed => Inv'
<1> SUFFICES ASSUME Inv, serverDestroyed PROVE Inv'
  OBVIOUS
<1>1. /\ server = "stopping" /\ server' = "destroyed"
      /\ UNCHANGED <<poolVars, startVars, thread, stopping, connections, state, reading, gone, queue,
                     destroyed, failed>>
  BY DEF serverDestroyed
<1> USE DEF poolVars, startVars
<1>2. Accepted' = Accepted
  BY <1>1 DEF Accepted
<1>3. TypeOK'
  BY <1>1, <1>2 DEF Inv, TypeOK
<1>4. StartInv' /\ RobinInv'
  BY <1>1, <1>2 DEF Inv, StartInv, RobinInv, OnLoop, Down
<1>5. QueueInv'
  BY <1>1, <1>2 DEF Inv, QueueInv, QueueOk
<1>6. ConnInv' /\ UpInv' /\ DownInv' /\ DisconnectedBeforeQuit'
  BY <1>1, <1>2 DEF Inv, ConnInv, UpInv, DownInv, Down, DisconnectedBeforeQuit, OnLoop
<1> QED
  BY <1>3, <1>4, <1>5, <1>6 DEF Inv

-----------------------------------------------------------------------------
(* The theorems.                                                            *)

\* Nothing is started, accepted or queued at first.
LEMMA InitInv == Init => Inv
<1> SUFFICES ASSUME Init PROVE Inv
  OBVIOUS
<1>1. /\ numThreads \in ThreadNums /\ numThreads \in Nat /\ 0..numThreads \subseteq Loops
      /\ Loops \subseteq Nat /\ 0 \in Loops
  BY ThreadNumsAssumption DEF Init, Loops
<1>2. Accepted = {} /\ (\A l : OnLoop(l) = {}) /\ (\A l \in Loops : queue[l] = <<>>)
  BY DEF Init, Accepted, OnLoop
<1>3. \A l \in Loops :
        /\ \A t : ~Has(queue[l], t)
        /\ Distinct(queue[l]) /\ \A s, t : Before(queue[l], s, t)
  BY <1>2 DEF Has, Distinct, Before
<1>4. TypeOK
  <2>1. queue \in [Loops -> Seq([run : Handlers, conn : 0..MaxConns])]
    BY DEF Init
  <2>2. loopOf \in [Ids -> 0..numThreads]
    BY <1>1 DEF Init
  <2> QED
    BY <1>1, <1>2, <2>1, <2>2, MaxConnsAssumption DEF Init, TypeOK
<1>5. StartInv
  BY <1>1 DEF Init, StartInv, Down
<1>6. RobinInv
  <2>1. \A l : Cardinality(OnLoop(l)) = 0
    BY <1>2, FS_EmptySet
  <2> QED
    BY <1>1, <1>2, <2>1 DEF Init, RobinInv
<1>7. QueueInv
  BY <1>2, <1>3 DEF QueueInv, QueueOk
<1>8. ConnInv /\ UpInv /\ DownInv
  BY <1>2 DEF Init, ConnInv, UpInv, DownInv, Down
<1>9. DisconnectedBeforeQuit
  BY DEF Init, DisconnectedBeforeQuit
<1> QED
  BY <1>4, <1>5, <1>6, <1>7, <1>8, <1>9 DEF Inv

\* Every step keeps the invariants: one case for each action of Next.
LEMMA NextInv == Inv /\ [Next]_vars => Inv'
<1> SUFFICES ASSUME Inv, [Next]_vars PROVE Inv'
  OBVIOUS
<1>1. CASE start
  BY <1>1, StartPreserves
<1>2. CASE startThread
  BY <1>2, StartThreadPreserves
<1>3. CASE latchWait \/ loopWait \/ SpuriousWakeup
  BY <1>3, WaitPreserves
<1>4. ASSUME NEW l \in Loops, countDown(l) \/ threadFunc(l) PROVE Inv'
  BY <1>4, ThreadPreserves
<1>5. CASE accept
  BY <1>5, AcceptPreserves
<1>6. ASSUME NEW c \in Ids, ReadFailed(c) PROVE Inv'
  BY <1>6, ReadFailedPreserves
<1>7. ASSUME NEW c \in Ids, shutdown(c) PROVE Inv'
  BY <1>7, ShutdownPreserves
<1>8. ASSUME NEW c \in Ids, Destroy(c) PROVE Inv'
  BY <1>8, DestroyPreserves
<1>9. ASSUME NEW l \in Loops, Run(l) PROVE Inv'
  BY <1>9, RunPreserves
<1>10. CASE destroyServer
  BY <1>10, DestroyServerPreserves
<1>11. CASE stopNext
  BY <1>11, StopNextPreserves
<1>12. CASE serverDestroyed
  BY <1>12, ServerDestroyedPreserves
<1>13. CASE UNCHANGED vars
  <2>1. /\ UNCHANGED otherVars /\ UNCHANGED <<thread, server, startVars>>
    BY <1>13 DEF vars, otherVars, stopVars
  <2>2. UNCHANGED <<poolVars, stopping, connections, state, reading, gone, queue, destroyed, failed, starting, asleep>>
    BY <1>13 DEF vars, startVars, stopVars
  <2>3. TypeOK'
    BY <2>1, <2>2 DEF poolVars, Inv, TypeOK, Accepted
  <2>4. StartInv'
    BY <2>1, <2>2 DEF poolVars, Inv, StartInv
  <2> QED
    BY <2>1, <2>3, <2>4, StartStep
<1> QED
  BY <1>1, <1>2, <1>3, <1>4, <1>5, <1>6, <1>7, <1>8, <1>9, <1>10, <1>11, <1>12, <1>13
  DEF Next, Startup, Teardown

\* The invariants hold in every reachable state.
THEOREM InvHolds == Spec => []Inv
BY InitInv, NextInv, PTL DEF Spec

\* Every variable keeps to its type, and next_ indexes io_contexts_ (getNextIOLoop).
THEOREM TypeCorrect == Spec => []TypeOK
<1>1. Inv => TypeOK
  BY DEF Inv
<1> QED
  BY <1>1, InvHolds, PTL

\* The loops of the pool get equally many connections, give or take one, and baseLoop_
\* gets none when there is a pool (getNextIOLoop).
THEOREM RoundRobin == Spec => []RoundRobinBalanced
<1>1. Inv => RoundRobinBalanced
  <2> SUFFICES ASSUME Inv PROVE RoundRobinBalanced
    OBVIOUS
  <2>1. ASSUME NEW l \in 1..numThreads, NEW m \in 1..numThreads
        PROVE  Cardinality(OnLoop(l)) <= Cardinality(OnLoop(m)) + 1
    <3>1. numThreads > 0
      BY LoopsOfPool DEF Inv
    <3>2. PICK k \in Nat : \A i \in 1..numThreads :
            Cardinality(OnLoop(i)) = IF i <= next THEN k + 1 ELSE k
      BY <3>1 DEF Inv, RobinInv
    <3> QED
      BY <3>2
  <2>2. numThreads > 0 => OnLoop(0) = {}
    BY DEF Inv, RobinInv, OnLoop
  <2> QED
    BY <2>1, <2>2 DEF RoundRobinBalanced
<1> QED
  BY <1>1, InvHolds, PTL

\* start() goes on only with threads whose loop exists and runs (CountDownLatch::wait,
\* IOLoopThread::start, IOLoopThreadPool::run).
THEOREM LoopsUp == Spec => []LoopsAreUp
<1>1. Inv => LoopsAreUp
  <2> SUFFICES ASSUME Inv PROVE LoopsAreUp
    OBVIOUS
  <2>1. 1..starting \subseteq Loops
    <3>1. starting \in 0..numThreads /\ TypeOK
      BY DEF Inv, TypeOK
    <3> QED
      BY <3>1, LoopsOfPool
  <2>2. ASSUME server \in {"creating", "started"}, NEW l \in 1..starting
        PROVE  thread[l] = "looping"
    BY <2>1, <2>2 DEF Inv, StartInv, Down
  <2> QED
    BY <2>2 DEF Inv, StartInv, LoopsAreUp
<1> QED
  BY <1>1, InvHolds, PTL

\* Until ~TcpServer the map holds the connections that are open or whose one removal is
\* queued, no assertion fails, and connectDestroyed is bound once (handleClose,
\* removeConnectionInThisThread, ~TcpServer).
THEOREM MapMatches == Spec => []MapMatchesConnections
<1>1. Inv => MapMatchesConnections
  <2> SUFFICES ASSUME Inv PROVE MapMatchesConnections
    OBVIOUS
  <2>1. ASSUME server = "started", NEW c \in Accepted
        PROVE  Removals(c) = IF c \in connections /\ state[c] = "kDisconnected" THEN 1 ELSE 0
    <3> DEFINE S == {i \in 1..Len(queue[0]) : queue[0][i] = Removal(c)}
    <3>1. Removals(c) = Cardinality(S)
      BY DEF Removals, Removal
    <3>2. Has(queue[0], Removal(c)) <=> c \in connections /\ state[c] = "kDisconnected"
      BY <2>1 DEF Inv, UpInv, Down
    <3>3. Distinct(queue[0])
      BY LoopsOfPool DEF Inv, QueueInv, QueueOk
    <3>4. CASE Has(queue[0], Removal(c))
      <4>1. PICK i \in 1..Len(queue[0]) : queue[0][i] = Removal(c)
        BY <3>4 DEF Has
      <4>2. S = {i}
        BY <3>3, <4>1 DEF Distinct
      <4> QED
        BY <3>1, <3>2, <3>4, <4>2, FS_Singleton
    <3>5. CASE ~Has(queue[0], Removal(c))
      <4>1. S = {}
        BY <3>5 DEF Has
      <4> QED
        BY <3>1, <3>2, <3>5, <4>1, FS_EmptySet
    <3> QED
      BY <3>4, <3>5
  <2>2. server = "started" => failed = "none" /\ \A c \in Accepted : state[c] # "kDisconnected" => c \in connections
    BY DEF Inv, UpInv, Down
  <2>3. \A c \in Ids : destroyed[c] <= 1
    BY DEF Inv, ConnInv
  <2> QED
    BY <2>1, <2>2, <2>3 DEF MapMatchesConnections
<1> QED
  BY <1>1, InvHolds, PTL

\* connectDestroyed runs before quitInThisThread: the connections of a loop that has ended
\* have been reported as disconnected or were shutting down (~TcpServer, IOLoop::quit).
THEOREM DisconnectedFirst == Spec => []DisconnectedBeforeQuit
<1>1. Inv => DisconnectedBeforeQuit
  BY DEF Inv
<1> QED
  BY <1>1, InvHolds, PTL
=============================================================================
