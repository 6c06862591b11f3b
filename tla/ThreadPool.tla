----------------------------- MODULE ThreadPool -----------------------------
(***************************************************************************)
(* ThreadPool: producers call post(), workers run threadFunc(), and one    *)
(* mutex with the conditions notFull_ and notEmpty_ guards queue_.         *)
(*                                                                         *)
(* A critical section is one step.  Waiting on a condition splits it: a    *)
(* waiter is blocked until it is notified (or wakes spuriously), and then  *)
(* has to get the mutex back before it tests its predicate again.          *)
(***************************************************************************)
EXTENDS Naturals, FiniteSets

CONSTANTS
  Producers,      \* threads that call post()
  Workers,        \* threads_, as started by start()
  MaxQueueSizes,  \* the sizes setmaxQueueSize may have been given, 0 for no limit
  MaxPosts        \* bound: calls of post()

ASSUME ProducersAssumption == IsFiniteSet(Producers)
ASSUME WorkersAssumption == IsFiniteSet(Workers)
ASSUME MaxQueueSizesAssumption == MaxQueueSizes \subseteq Nat
ASSUME MaxPostsAssumption == MaxPosts \in Nat

VARIABLES
  maxQueueSize,  \* maxQueueSize_
  runing,        \* runing_: "yes" or "no"
  size,          \* queue_.size()
  producer,      \* where each producer stands in post()
  worker,        \* where each worker stands in threadFunc() and take()
  posts,         \* calls of post() so far
  accepted,      \* tasks pushed so far
  taken,         \* tasks popped so far
  fatal          \* "yes" once LOG(FATAL) has aborted the process

vars == <<maxQueueSize, runing, size, producer, worker, posts, accepted, taken, fatal>>

ProducerSteps == {"idle", "waitFull", "wokenFull", "spin"}
WorkerSteps == {"loop", "take", "waitEmpty", "wokenEmpty", "task", "exit"}

WaitFull == {p \in Producers : producer[p] = "waitFull"}
WokenFull == {p \in Producers : producer[p] = "wokenFull"}
WaitEmpty == {w \in Workers : worker[w] = "waitEmpty"}
WokenEmpty == {w \in Workers : worker[w] = "wokenEmpty"}

\* A producer that spins in post() never gives the mutex back.
MutexFree == \A p \in Producers : producer[p] # "spin"
Live == fatal = "no"
Full == maxQueueSize > 0 /\ maxQueueSize = size

-----------------------------------------------------------------------------
\* start() has created the workers; none of them has done anything yet.
Init ==
  /\ maxQueueSize \in MaxQueueSizes
  /\ runing = "yes"
  /\ size = 0 /\ posts = 0 /\ accepted = 0 /\ taken = 0
  /\ producer = [p \in Producers |-> "idle"]
  /\ worker = [w \in Workers |-> "loop"]
  /\ fatal = "no"

-----------------------------------------------------------------------------
(* notify_one wakes one waiter, if there is one.                            *)

NotifyEmpty ==
  \/ WaitEmpty = {} /\ UNCHANGED worker
  \/ \E w \in WaitEmpty : worker' = [worker EXCEPT ![w] = "wokenEmpty"]

NotifyFull ==
  \/ WaitFull = {} /\ UNCHANGED producer
  \/ \E p \in WaitFull : producer' = [producer EXCEPT ![p] = "wokenFull"]

-----------------------------------------------------------------------------
(* post().                                                                  *)

MoveProducer(p, step) ==
  /\ producer' = [producer EXCEPT ![p] = step]
  /\ UNCHANGED <<size, worker, accepted>>

\* Faulty: does not notify.
PushSilently(p) ==
  /\ size' = size + 1 /\ accepted' = accepted + 1
  /\ producer' = [producer EXCEPT ![p] = "idle"]
  /\ UNCHANGED worker

Push(p) ==
  /\ size' = size + 1 /\ accepted' = accepted + 1
  /\ producer' = [producer EXCEPT ![p] = "idle"]
  /\ NotifyEmpty

post(p) ==
  /\ Live /\ MutexFree /\ producer[p] = "idle" /\ posts < MaxPosts
  /\ posts' = posts + 1
  /\ \/ runing = "no" /\ UNCHANGED <<size, producer, worker, accepted>>
     \/ runing = "yes" /\ ~Full /\ Push(p)
     \/ runing = "yes" /\ Full /\ MoveProducer(p, "waitFull")
  /\ UNCHANGED <<maxQueueSize, runing, taken, fatal>>

\* Faulty: does not test the queue again after waiting.
postWokenUntested(p) ==
  /\ Live /\ MutexFree /\ producer[p] = "wokenFull"
  /\ Push(p)
  /\ UNCHANGED <<maxQueueSize, runing, posts, taken, fatal>>

\* notFull_.wait() has the mutex back.  Its predicate also holds on a stopped pool, but
\* the loop around it ends only when the queue is not full: the producer then keeps
\* testing both with the mutex held.
postWoken(p) ==
  /\ Live /\ MutexFree /\ producer[p] = "wokenFull"
  /\ \/ ~Full /\ Push(p)
     \/ Full /\ runing = "yes" /\ MoveProducer(p, "waitFull")
     \/ Full /\ runing = "no" /\ MoveProducer(p, "spin")
  /\ UNCHANGED <<maxQueueSize, runing, posts, taken, fatal>>

-----------------------------------------------------------------------------
(* threadFunc() and take().                                                 *)

MoveWorker(w, step) ==
  /\ worker' = [worker EXCEPT ![w] = step]
  /\ UNCHANGED <<size, producer, taken>>

\* Faulty: notifies only when the queue was full.
PopNotifyFull(w) ==
  /\ size' = size - 1 /\ taken' = taken + 1
  /\ worker' = [worker EXCEPT ![w] = "task"]
  /\ IF Full THEN NotifyFull ELSE UNCHANGED producer

Pop(w) ==
  /\ size' = size - 1 /\ taken' = taken + 1
  /\ worker' = [worker EXCEPT ![w] = "task"]
  /\ IF maxQueueSize > 0 THEN NotifyFull ELSE UNCHANGED producer

\* while (runing_), outside the mutex.
testRuning(w) ==
  /\ Live /\ worker[w] = "loop"
  /\ MoveWorker(w, IF runing = "yes" THEN "take" ELSE "exit")
  /\ UNCHANGED <<maxQueueSize, runing, posts, accepted, fatal>>

\* On an empty queue of a stopped pool take() returns an empty Task; calling it throws
\* bad_function_call, which threadFunc() turns into LOG(FATAL).
take(w) ==
  /\ Live /\ MutexFree /\ worker[w] = "take"
  /\ \/ size > 0 /\ Pop(w) /\ UNCHANGED fatal
     \/ size = 0 /\ runing = "yes" /\ MoveWorker(w, "waitEmpty") /\ UNCHANGED fatal
     \/ size = 0 /\ runing = "no" /\ MoveWorker(w, "exit") /\ fatal' = "yes"
  /\ UNCHANGED <<maxQueueSize, runing, posts, accepted>>

\* Faulty: does not test the queue again after waiting.
takeWokenUntested(w) ==
  /\ Live /\ MutexFree /\ worker[w] = "wokenEmpty"
  /\ Pop(w)
  /\ UNCHANGED <<maxQueueSize, runing, posts, accepted, fatal>>

\* notEmpty_.wait() has the mutex back; its predicate does not look at runing_.
takeWoken(w) ==
  /\ Live /\ MutexFree /\ worker[w] = "wokenEmpty"
  /\ \/ size > 0 /\ Pop(w)
     \/ size = 0 /\ MoveWorker(w, "waitEmpty")
  /\ UNCHANGED <<maxQueueSize, runing, posts, accepted, fatal>>

\* task() returns.
RunTask(w) ==
  /\ Live /\ worker[w] = "task"
  /\ MoveWorker(w, "loop")
  /\ UNCHANGED <<maxQueueSize, runing, posts, accepted, fatal>>

-----------------------------------------------------------------------------
\* stop() wakes everybody; joined() does not wait for the workers.
stop ==
  /\ Live /\ MutexFree /\ runing = "yes"
  /\ runing' = "no"
  /\ worker' = [w \in Workers |-> IF w \in WaitEmpty THEN "wokenEmpty" ELSE worker[w]]
  /\ producer' = [p \in Producers |-> IF p \in WaitFull THEN "wokenFull" ELSE producer[p]]
  /\ UNCHANGED <<maxQueueSize, size, posts, accepted, taken, fatal>>

\* A condition variable may wake a waiter that nobody notified.
SpuriousWake ==
  /\ Live
  /\ \/ WaitEmpty # {} /\ NotifyEmpty /\ UNCHANGED producer
     \/ WaitFull # {} /\ NotifyFull /\ UNCHANGED worker
  /\ UNCHANGED <<maxQueueSize, runing, size, posts, accepted, taken, fatal>>

ProducerStep(p) == post(p) \/ postWoken(p)
WorkerStep(w) == testRuning(w) \/ take(w) \/ takeWoken(w) \/ RunTask(w)

Next ==
  \/ \E p \in Producers : ProducerStep(p)
  \/ \E w \in Workers : WorkerStep(w)
  \/ stop
  \/ SpuriousWake

(* A worker that can run does, which needs tasks that return and a mutex    *)
(* that starves nobody for ever.  Nobody owes a post, a stop or a spurious  *)
(* wake-up.                                                                 *)
Fairness == \A w \in Workers : WF_vars(WorkerStep(w))

Spec == Init /\ [][Next]_vars
FairSpec == Spec /\ Fairness

-----------------------------------------------------------------------------
(* Properties.                                                              *)

\* Every variable holds a value of the member or program counter it stands for; a pop
\* never takes the queue below empty (take).
TypeOK ==
  /\ maxQueueSize \in Nat
  /\ runing \in {"yes", "no"}
  /\ size \in Nat /\ posts \in Nat /\ accepted \in Nat /\ taken \in Nat
  /\ producer \in [Producers -> ProducerSteps]
  /\ worker \in [Workers -> WorkerSteps]
  /\ fatal \in {"yes", "no"}

\* The queue never outgrows its limit, although producers that were woken compete with
\* producers that just arrived, and post() tests for == only (post).
QueueBounded == maxQueueSize > 0 => size <= maxQueueSize

\* No wake-up of a worker is lost: while a worker is blocked on notEmpty_, as many others
\* have been woken and not run yet as there are tasks (post notifies one, take).
WorkersNotForgotten == WaitEmpty # {} => size <= Cardinality(WokenEmpty)

\* No wake-up of a producer is lost: while a producer is blocked on notFull_, as many
\* others have been woken and not run yet as there are free places (take notifies one).
ProducersNotForgotten == WaitFull # {} => maxQueueSize <= size + Cardinality(WokenFull)

\* While the pool runs nobody keeps the mutex: a producer can only spin in post() on a
\* bounded queue that was full when stop() was called.
MutexHeldOnlyIfStopped == ~MutexFree => runing = "no" /\ Full

\* No wake-up is lost on either side, although notify_one may reach a thread that is
\* overtaken before it runs (post, take).
NoLostWakeup == WorkersNotForgotten /\ ProducersNotForgotten

\* post() neither overfills the queue nor, while the pool runs, keeps the mutex.
PostIsSound == QueueBounded /\ MutexHeldOnlyIfStopped

\* While the pool runs, every task that was pushed is taken by a worker: the queue is
\* first in first out, so the n-th task pushed is the n-th one taken (post, take).
TasksAreTaken ==
  \A n \in 1..MaxPosts : accepted >= n ~> (taken >= n \/ runing = "no")

\* threadFunc() never ends in its LOG(FATAL): a worker only calls tasks that were posted.
NeverFatal == fatal = "no"
=============================================================================
