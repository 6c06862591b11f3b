-------------------------- MODULE ThreadPoolProofs --------------------------
(***************************************************************************)
(* Proofs about ThreadPool, for any finite sets of producers and workers   *)
(* and any limit of the queue.                                             *)
(***************************************************************************)
EXTENDS ThreadPool, FiniteSetTheorems, TLAPS

\* The invariants of ThreadPool together are inductive.
Inv ==
  /\ TypeOK
  /\ QueueBounded
  /\ WorkersNotForgotten
  /\ ProducersNotForgotten
  /\ MutexHeldOnlyIfStopped

-----------------------------------------------------------------------------
(* How a step of one worker or one producer changes the sets of those that  *)
(* wait and those that were woken, and how many were woken.                 *)

\* The threads woken from a condition variable are finitely many.
LEMMA WokenFinite ==
  /\ IsFiniteSet(WokenEmpty) /\ Cardinality(WokenEmpty) \in Nat
  /\ IsFiniteSet(WokenFull) /\ Cardinality(WokenFull) \in Nat
<1>1. WokenEmpty \in SUBSET Workers /\ WokenFull \in SUBSET Producers
  BY DEF WokenEmpty, WokenFull
<1>2. IsFiniteSet(WokenEmpty) /\ IsFiniteSet(WokenFull)
  BY <1>1, FS_Subset, WorkersAssumption, ProducersAssumption
<1> QED
  BY <1>2, FS_CardinalityType

\* A worker that moves to step s leaves or enters the sets of notEmpty_.
LEMMA WorkerMoves ==
  ASSUME TypeOK, NEW w \in Workers, NEW s \in WorkerSteps,
         worker' = [worker EXCEPT ![w] = s]
  PROVE  /\ worker' \in [Workers -> WorkerSteps]
         /\ WaitEmpty' = IF s = "waitEmpty" THEN WaitEmpty \cup {w} ELSE WaitEmpty \ {w}
         /\ WokenEmpty' = IF s = "wokenEmpty" THEN WokenEmpty \cup {w} ELSE WokenEmpty \ {w}
BY DEF TypeOK, WaitEmpty, WokenEmpty

\* A producer that moves to step s leaves or enters the sets of notFull_.
LEMMA ProducerMoves ==
  ASSUME TypeOK, NEW p \in Producers, NEW s \in ProducerSteps,
         producer' = [producer EXCEPT ![p] = s]
  PROVE  /\ producer' \in [Producers -> ProducerSteps]
         /\ WaitFull' = IF s = "waitFull" THEN WaitFull \cup {p} ELSE WaitFull \ {p}
         /\ WokenFull' = IF s = "wokenFull" THEN WokenFull \cup {p} ELSE WokenFull \ {p}
BY DEF TypeOK, WaitFull, WokenFull

\* notify_one on notEmpty_ wakes exactly one worker more, unless none waits.
LEMMA NotifyEmptyWakesOne ==
  ASSUME TypeOK, NotifyEmpty
  PROVE  /\ worker' \in [Workers -> WorkerSteps]
         /\ WaitEmpty' \subseteq WaitEmpty
         /\ WaitEmpty # {} => Cardinality(WokenEmpty') = Cardinality(WokenEmpty) + 1
<1>1. CASE WaitEmpty = {} /\ UNCHANGED worker
  BY <1>1 DEF TypeOK, WaitEmpty
<1>2. CASE \E w \in WaitEmpty : worker' = [worker EXCEPT ![w] = "wokenEmpty"]
  <2>1. PICK w \in WaitEmpty : worker' = [worker EXCEPT ![w] = "wokenEmpty"]
    BY <1>2
  <2>2. w \in Workers /\ w \notin WokenEmpty /\ "wokenEmpty" \in WorkerSteps
    BY DEF WaitEmpty, WokenEmpty, WorkerSteps
  <2>3. /\ worker' \in [Workers -> WorkerSteps]
        /\ WaitEmpty' = WaitEmpty \ {w}
        /\ WokenEmpty' = WokenEmpty \cup {w}
    BY <2>1, <2>2, WorkerMoves
  <2> QED
    BY <2>2, <2>3, WokenFinite, FS_AddElement
<1> QED
  BY <1>1, <1>2 DEF NotifyEmpty

\* notify_one on notFull_ wakes exactly one producer more, unless none waits.
LEMMA NotifyFullWakesOne ==
  ASSUME TypeOK, NotifyFull
  PROVE  /\ producer' \in [Producers -> ProducerSteps]
         /\ WaitFull' \subseteq WaitFull
         /\ WaitFull # {} => Cardinality(WokenFull') = Cardinality(WokenFull) + 1
         /\ MutexFree' <=> MutexFree
<1>1. CASE WaitFull = {} /\ UNCHANGED producer
  BY <1>1 DEF TypeOK, WaitFull, MutexFree
<1>2. CASE \E p \in WaitFull : producer' = [producer EXCEPT ![p] = "wokenFull"]
  <2>1. PICK p \in WaitFull : producer' = [producer EXCEPT ![p] = "wokenFull"]
    BY <1>2
  <2>2. p \in Producers /\ p \notin WokenFull /\ "wokenFull" \in ProducerSteps
    BY DEF WaitFull, WokenFull, ProducerSteps
  <2>3. /\ producer' \in [Producers -> ProducerSteps]
        /\ WaitFull' = WaitFull \ {p}
        /\ WokenFull' = WokenFull \cup {p}
    BY <2>1, <2>2, ProducerMoves
  <2>4. MutexFree' <=> MutexFree
    BY <2>1, <2>2 DEF TypeOK, MutexFree, WaitFull
  <2> QED
    BY <2>2, <2>3, <2>4, WokenFinite, FS_AddElement
<1> QED
  BY <1>1, <1>2 DEF NotifyFull

-----------------------------------------------------------------------------
(* Each operation preserves the invariant.                                  *)

\* The part of the invariant about notEmpty_ after a push.
LEMMA PushPreserves ==
  ASSUME Inv, NEW p \in Producers, Push(p), ~Full, MutexFree,
         producer[p] \in {"idle", "wokenFull"},
         UNCHANGED <<maxQueueSize, runing, taken, fatal>>, posts' \in Nat
  PROVE  Inv'
<1> USE DEF Inv
<1>1. /\ size' = size + 1 /\ accepted' = accepted + 1
      /\ producer' = [producer EXCEPT ![p] = "idle"]
      /\ NotifyEmpty
  BY DEF Push
<1>2. /\ producer' \in [Producers -> ProducerSteps]
      /\ WaitFull' = WaitFull \ {p}
      /\ WokenFull' = WokenFull \ {p}
  BY <1>1, ProducerMoves DEF ProducerSteps
<1>3. TypeOK'
  BY <1>1, <1>2, NotifyEmptyWakesOne DEF TypeOK
<1>4. QueueBounded'
  BY DEF Push, QueueBounded, Full, TypeOK
<1>5. WorkersNotForgotten'
  BY <1>1, NotifyEmptyWakesOne, WokenFinite DEF WorkersNotForgotten, TypeOK
<1>6. ProducersNotForgotten'
  <2>1. /\ IsFiniteSet(WokenFull')
        /\ Cardinality(WokenFull') =
             IF p \in WokenFull THEN Cardinality(WokenFull) - 1 ELSE Cardinality(WokenFull)
    BY <1>2, WokenFinite, FS_RemoveElement
  <2>2. Cardinality(WokenFull') \in Nat
    BY <2>1, FS_CardinalityType
  <2> QED
    BY <1>1, <1>2, <2>1, <2>2, WokenFinite DEF ProducersNotForgotten, TypeOK
<1>7. MutexHeldOnlyIfStopped'
  BY <1>1 DEF MutexHeldOnlyIfStopped, MutexFree, TypeOK
<1> QED
  BY <1>3, <1>4, <1>5, <1>6, <1>7

\* The invariant after a pop by a worker that held the mutex or was woken.
LEMMA PopPreserves ==
  ASSUME Inv, NEW w \in Workers, Pop(w), size > 0, MutexFree,
         worker[w] \in {"take", "wokenEmpty"},
         UNCHANGED <<maxQueueSize, runing, posts, accepted, fatal>>
  PROVE  Inv'
<1> USE DEF Inv
<1>1. /\ size' = size - 1 /\ taken' = taken + 1
      /\ worker' = [worker EXCEPT ![w] = "task"]
  BY DEF Pop
<1>2. /\ worker' \in [Workers -> WorkerSteps]
      /\ WaitEmpty' = WaitEmpty \ {w}
      /\ WokenEmpty' = WokenEmpty \ {w}
  BY <1>1, WorkerMoves DEF WorkerSteps
<1>3. WaitEmpty' = WaitEmpty
  BY <1>2 DEF WaitEmpty
<1>4. QueueBounded'
  BY <1>1 DEF QueueBounded, TypeOK
<1>5. WorkersNotForgotten'
  <2>1. /\ IsFiniteSet(WokenEmpty')
        /\ Cardinality(WokenEmpty') =
             IF w \in WokenEmpty THEN Cardinality(WokenEmpty) - 1 ELSE Cardinality(WokenEmpty)
    BY <1>2, WokenFinite, FS_RemoveElement
  <2>2. Cardinality(WokenEmpty') \in Nat
    BY <2>1, FS_CardinalityType
  <2> QED
    BY <1>1, <1>3, <2>1, <2>2, WokenFinite DEF WorkersNotForgotten, TypeOK
<1>6. CASE maxQueueSize > 0 /\ NotifyFull
  <2>1. TypeOK'
    BY <1>1, <1>2, <1>6, NotifyFullWakesOne DEF TypeOK
  <2>2. ProducersNotForgotten'
    BY <1>1, <1>6, NotifyFullWakesOne, WokenFinite DEF ProducersNotForgotten, TypeOK
  <2>3. MutexHeldOnlyIfStopped'
    BY <1>6, NotifyFullWakesOne DEF MutexHeldOnlyIfStopped
  <2> QED
    BY <1>4, <1>5, <2>1, <2>2, <2>3
<1>7. CASE maxQueueSize = 0 /\ UNCHANGED producer
  <2>1. TypeOK'
    BY <1>1, <1>2, <1>7 DEF TypeOK
  <2>2. ProducersNotForgotten'
    <3>1. Cardinality(WokenFull') = Cardinality(WokenFull)
      BY <1>7 DEF WokenFull
    <3> QED
      BY <1>1, <1>7, <3>1, WokenFinite DEF ProducersNotForgotten, TypeOK
  <2>3. MutexHeldOnlyIfStopped'
    BY <1>7 DEF MutexHeldOnlyIfStopped, MutexFree
  <2> QED
    BY <1>4, <1>5, <2>1, <2>2, <2>3
<1> QED
  BY <1>6, <1>7 DEF Pop, TypeOK

\* A producer that waits, or is woken in vain, finds the queue full.
LEMMA BlockPreserves ==
  ASSUME Inv, NEW p \in Producers, NEW s \in {"waitFull", "spin"}, MoveProducer(p, s),
         Full, MutexFree, s = "spin" => runing = "no",
         UNCHANGED <<maxQueueSize, runing, taken, fatal>>, posts' \in Nat
  PROVE  Inv'
<1> USE DEF Inv
<1>1. /\ producer' = [producer EXCEPT ![p] = s]
      /\ UNCHANGED <<size, worker, accepted>>
  BY DEF MoveProducer
<1>2. /\ producer' \in [Producers -> ProducerSteps]
      /\ WokenFull' = WokenFull \ {p}
  BY <1>1, ProducerMoves DEF ProducerSteps
<1>3. Cardinality(WokenFull') \in Nat
  BY <1>2, WokenFinite, FS_RemoveElement, FS_CardinalityType
<1>4. TypeOK'
  BY <1>1, <1>2 DEF TypeOK
<1>5. QueueBounded' /\ WorkersNotForgotten'
  BY <1>1 DEF QueueBounded, WorkersNotForgotten, WaitEmpty, WokenEmpty
<1>6. ProducersNotForgotten'
  BY <1>1, <1>3 DEF ProducersNotForgotten, Full, TypeOK
<1>7. MutexHeldOnlyIfStopped'
  BY <1>1 DEF MutexHeldOnlyIfStopped, MutexFree, Full, TypeOK
<1> QED
  BY <1>4, <1>5, <1>6, <1>7

\* A worker that moves without the queue leaves the invariant alone, unless it starts to
\* wait, and then the queue is empty.
LEMMA MovePreserves ==
  ASSUME Inv, NEW w \in Workers, NEW s \in {"loop", "take", "waitEmpty", "exit"},
         MoveWorker(w, s), worker[w] = "wokenEmpty" \/ s = "waitEmpty" => size = 0,
         UNCHANGED <<maxQueueSize, runing, posts, accepted>>, fatal' \in {"yes", "no"}
  PROVE  Inv'
<1> USE DEF Inv
<1>1. /\ worker' = [worker EXCEPT ![w] = s]
      /\ UNCHANGED <<size, producer, taken>>
  BY DEF MoveWorker
<1>2. /\ worker' \in [Workers -> WorkerSteps]
      /\ WaitEmpty' = IF s = "waitEmpty" THEN WaitEmpty \cup {w} ELSE WaitEmpty \ {w}
      /\ WokenEmpty' = WokenEmpty \ {w}
  BY <1>1, WorkerMoves DEF WorkerSteps
<1>3. Cardinality(WokenEmpty') \in Nat
  BY <1>2, WokenFinite, FS_RemoveElement, FS_CardinalityType
<1>4. TypeOK'
  BY <1>1, <1>2 DEF TypeOK
<1>5. QueueBounded' /\ ProducersNotForgotten' /\ MutexHeldOnlyIfStopped'
  BY <1>1 DEF QueueBounded, ProducersNotForgotten, MutexHeldOnlyIfStopped, WaitFull, WokenFull,
              MutexFree, Full
<1>6. WorkersNotForgotten'
  <2>1. CASE size = 0
    BY <1>1, <1>3, <2>1 DEF WorkersNotForgotten, TypeOK
  <2>2. CASE size # 0
    <3>1. w \notin WokenEmpty /\ s # "waitEmpty"
      BY <2>2 DEF WokenEmpty
    <3>2. WokenEmpty' = WokenEmpty /\ WaitEmpty' \subseteq WaitEmpty
      BY <1>2, <3>1
    <3> QED
      BY <1>1, <3>2 DEF WorkersNotForgotten
  <2> QED
    BY <2>1, <2>2
<1> QED
  BY <1>4, <1>5, <1>6

-----------------------------------------------------------------------------
\* Every step preserves the invariant.
LEMMA NextPreserves ==
  ASSUME Inv, [Next]_vars
  PROVE  Inv'
<1> USE DEF Inv
<1>1. ASSUME NEW p \in Producers, post(p)
      PROVE  Inv'
  <2>1. posts' \in Nat
    BY <1>1 DEF post, TypeOK
  <2>2. CASE runing = "no" /\ UNCHANGED <<size, producer, worker, accepted>>
    BY <1>1, <2>1, <2>2 DEF post, TypeOK, QueueBounded, WorkersNotForgotten, ProducersNotForgotten,
       MutexHeldOnlyIfStopped, MutexFree, Full, WaitEmpty, WokenEmpty, WaitFull, WokenFull
  <2>3. CASE runing = "yes" /\ ~Full /\ Push(p)
    BY <1>1, <2>1, <2>3, PushPreserves DEF post
  <2>4. CASE runing = "yes" /\ Full /\ MoveProducer(p, "waitFull")
    BY <1>1, <2>1, <2>4, BlockPreserves DEF post
  <2> QED
    BY <1>1, <2>2, <2>3, <2>4 DEF post
<1>2. ASSUME NEW p \in Producers, postWoken(p)
      PROVE  Inv'
  <2>1. posts' \in Nat
    BY <1>2 DEF postWoken, TypeOK
  <2>2. CASE ~Full /\ Push(p)
    BY <1>2, <2>1, <2>2, PushPreserves DEF postWoken
  <2>3. CASE Full /\ runing = "yes" /\ MoveProducer(p, "waitFull")
    BY <1>2, <2>1, <2>3, BlockPreserves DEF postWoken
  <2>4. CASE Full /\ runing = "no" /\ MoveProducer(p, "spin")
    BY <1>2, <2>1, <2>4, BlockPreserves DEF postWoken
  <2> QED
    BY <1>2, <2>2, <2>3, <2>4 DEF postWoken
<1>3. ASSUME NEW w \in Workers, testRuning(w)
      PROVE  Inv'
  BY <1>3, MovePreserves DEF testRuning, TypeOK
<1>4. ASSUME NEW w \in Workers, take(w)
      PROVE  Inv'
  <2>1. CASE size > 0 /\ Pop(w) /\ UNCHANGED fatal
    BY <1>4, <2>1, PopPreserves DEF take
  <2>2. CASE size = 0 /\ MoveWorker(w, "waitEmpty") /\ UNCHANGED fatal
    BY <1>4, <2>2, MovePreserves DEF take, TypeOK
  <2>3. CASE size = 0 /\ MoveWorker(w, "exit") /\ fatal' = "yes"
    BY <1>4, <2>3, MovePreserves DEF take, TypeOK
  <2> QED
    BY <1>4, <2>1, <2>2, <2>3 DEF take
<1>5. ASSUME NEW w \in Workers, takeWoken(w)
      PROVE  Inv'
  <2>1. CASE size > 0 /\ Pop(w)
    BY <1>5, <2>1, PopPreserves DEF takeWoken
  <2>2. CASE size = 0 /\ MoveWorker(w, "waitEmpty")
    BY <1>5, <2>2, MovePreserves DEF takeWoken, TypeOK
  <2> QED
    BY <1>5, <2>1, <2>2 DEF takeWoken
<1>6. ASSUME NEW w \in Workers, RunTask(w)
      PROVE  Inv'
  BY <1>6, MovePreserves DEF RunTask, TypeOK
<1>7. CASE stop
  <2>1. WaitEmpty' = {} /\ WaitFull' = {} /\ MutexFree'
    BY <1>7 DEF stop, WaitEmpty, WaitFull, MutexFree
  <2>2. TypeOK'
    BY <1>7 DEF stop, TypeOK, WorkerSteps, ProducerSteps
  <2> QED
    BY <1>7, <2>1, <2>2 DEF stop, QueueBounded, WorkersNotForgotten, ProducersNotForgotten,
       MutexHeldOnlyIfStopped
<1>8. CASE SpuriousWake
  <2>1. CASE WaitEmpty # {} /\ NotifyEmpty /\ UNCHANGED producer
    <3>1. WorkersNotForgotten'
      BY <1>8, <2>1, NotifyEmptyWakesOne, WokenFinite
      DEF SpuriousWake, WorkersNotForgotten, TypeOK
    <3> QED
      BY <1>8, <2>1, <3>1, NotifyEmptyWakesOne DEF SpuriousWake, TypeOK, QueueBounded,
         ProducersNotForgotten, MutexHeldOnlyIfStopped, MutexFree, Full, WaitFull, WokenFull
  <2>2. CASE WaitFull # {} /\ NotifyFull /\ UNCHANGED worker
    <3>1. ProducersNotForgotten'
      BY <1>8, <2>2, NotifyFullWakesOne, WokenFinite
      DEF SpuriousWake, ProducersNotForgotten, TypeOK
    <3>2. MutexHeldOnlyIfStopped'
      BY <1>8, <2>2, NotifyFullWakesOne DEF SpuriousWake, MutexHeldOnlyIfStopped, Full
    <3> QED
      BY <1>8, <2>2, <3>1, <3>2, NotifyFullWakesOne DEF SpuriousWake, TypeOK, QueueBounded,
         WorkersNotForgotten, WaitEmpty, WokenEmpty
  <2> QED
    BY <1>8, <2>1, <2>2 DEF SpuriousWake
<1>9. CASE UNCHANGED vars
  BY <1>9 DEF vars, TypeOK, QueueBounded, WorkersNotForgotten, ProducersNotForgotten,
     MutexHeldOnlyIfStopped, MutexFree, Full, WaitEmpty, WokenEmpty, WaitFull, WokenFull
<1> QED
  BY <1>1, <1>2, <1>3, <1>4, <1>5, <1>6, <1>7, <1>8, <1>9
  DEF Next, ProducerStep, WorkerStep

\* The invariant holds when start() returns.
LEMMA InitEstablishes == Init => Inv
<1> SUFFICES ASSUME Init PROVE Inv
  OBVIOUS
<1>1. TypeOK
  BY MaxQueueSizesAssumption DEF Init, TypeOK, ProducerSteps, WorkerSteps
<1>2. WaitEmpty = {} /\ WaitFull = {} /\ MutexFree
  BY DEF Init, WaitEmpty, WaitFull, MutexFree
<1> QED
  BY <1>1, <1>2 DEF Inv, Init, TypeOK, QueueBounded, WorkersNotForgotten, ProducersNotForgotten,
     MutexHeldOnlyIfStopped

\* All invariants of the thread pool hold, for every number of producers and workers.
THEOREM InvHolds == Spec => []Inv
BY InitEstablishes, NextPreserves, PTL DEF Spec

\* Every variable of the pool keeps its type, for any number of producers and workers.
THEOREM TypeCorrect == Spec => []TypeOK
<1>1. Inv => TypeOK
  BY DEF Inv
<1> QED
  BY <1>1, InvHolds, PTL

\* No wake-up of a worker and none of a producer is lost by notify_one.
THEOREM NobodyForgotten == Spec => []NoLostWakeup
<1>1. Inv => NoLostWakeup
  BY DEF Inv, NoLostWakeup
<1> QED
  BY <1>1, InvHolds, PTL

\* The queue is never longer than its limit, and post() keeps the mutex only on a full
\* queue after stop().
THEOREM PostIsAlwaysSound == Spec => []PostIsSound
<1>1. Inv => PostIsSound
  BY DEF Inv, PostIsSound
<1> QED
  BY <1>1, InvHolds, PTL
=============================================================================
