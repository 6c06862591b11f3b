----------------------------- MODULE TimerQueue -----------------------------
(***************************************************************************)
(* The TimerQueue of one IOLoop: the ordered set timers_, its index        *)
(* activeTimers_, the one steady_timer that wakes the loop for the         *)
(* earliest of them, and the handler that runs the expired callbacks.      *)
(* Callbacks may add and cancel timers themselves, other threads may do so *)
(* through handlers they post.                                             *)
(*                                                                         *)
(* A Timer is identified by its sequence_.  A handler of the loop is one   *)
(* step, except the one of the steady_timer: it is one step per callback,  *)
(* because calls of the callbacks come in between.                         *)
(***************************************************************************)
EXTENDS Naturals, Sequences, FiniteSets, FiniteSetsExt

CONSTANTS
  MaxTimers,   \* bound: timers created
  MaxTime,     \* bound: the clock stops here
  Intervals,   \* the intervals of runEvery, 0 for runAt and runAfter
  kSecond      \* ticks of the clock per second

ASSUME BoundsAssumption == MaxTimers \in Nat /\ MaxTime \in Nat
ASSUME IntervalsAssumption == Intervals \subseteq Nat
ASSUME SecondAssumption == kSecond \in Nat \ {0}

VARIABLES
  now,         \* Timestamp::now()
  created,     \* Timer::s_numCreated_
  expiration,  \* expiration_ of each timer
  interval,    \* interval_ of each timer
  timers,      \* timers_, a set of [when, id]
  active,      \* activeTimers_
  waiting,     \* "yes" while an async_wait of steadyTimer_ is outstanding
  deadline,    \* when it completes, 0 for none
  queue,       \* handlers the loop has not run yet, in order
  batch,       \* expired, while the handler of steadyTimer_ runs
  todo,        \* those of them whose callback has not been called yet
  current,     \* the timer whose callback runs, 0 outside the handler
  since,       \* now, as the handler read it, 0 outside the handler
  canceling,   \* cancelingTimers_
  freed,       \* timers deleted
  known,       \* timers of which the program has the TimerId
  returning,   \* the timer another thread is adding, before addTimer returns; or 0
  asked,       \* timers another thread has asked to cancel
  cancelled    \* timers that were there when cancelInThisThread ran for them

setVars == <<timers, active, expiration>>
armVars == <<waiting, deadline>>
batchVars == <<batch, todo, current, since>>
userVars == <<created, interval, known, returning, asked>>
vars == <<now, setVars, armVars, batchVars, userVars, queue, canceling, freed, cancelled>>

Ids == 1..MaxTimers
Entry(w, id) == [when |-> w, id |-> id]
Task(h, id) == [run |-> h, id |-> id]

\* timers_.begin()->first of a set of entries that is not empty.
Earliest(ts) == Min({e.when : e \in ts})

-----------------------------------------------------------------------------
Init ==
  /\ now = 0 /\ created = 0
  /\ expiration = [i \in Ids |-> 0] /\ interval = [i \in Ids |-> 0]
  /\ timers = {} /\ active = {}
  /\ waiting = "no" /\ deadline = 0
  /\ queue = <<>>
  /\ batch = {} /\ todo = {} /\ current = 0 /\ since = 0
  /\ canceling = {} /\ freed = {}
  /\ known = {} /\ returning = 0 /\ asked = {} /\ cancelled = {}

-----------------------------------------------------------------------------
(* Arming steadyTimer_ and changing the two sets.                           *)

\* Faulty: lets the time to wait get negative.
resetTimerUnclamped(when) ==
  /\ waiting' = "yes"
  /\ deadline' = now + ((when - now) \div kSecond) * kSecond

\* expires_from_now replaces the wait that is outstanding; the time to wait is cut to
\* whole seconds.
resetTimer(when) ==
  /\ waiting' = "yes"
  /\ deadline' = now + (IF when > now THEN ((when - now) \div kSecond) * kSecond ELSE 0)

\* Faulty: arms only for the first timer.
addTimerFirstOnly(id, when) ==
  /\ timers' = timers \cup {Entry(when, id)}
  /\ active' = active \cup {id}
  /\ expiration' = [expiration EXCEPT ![id] = when]
  /\ IF timers = {} THEN resetTimer(when) ELSE UNCHANGED armVars

\* insert, and resetTimer when the timer is the earliest now.
addTimerInThisThread(id, when) ==
  /\ timers' = timers \cup {Entry(when, id)}
  /\ active' = active \cup {id}
  /\ expiration' = [expiration EXCEPT ![id] = when]
  /\ IF timers = {} \/ when < Earliest(timers) THEN resetTimer(when) ELSE UNCHANGED armVars

\* Faulty: forgets a timer whose callback is being run or about to be.
cancelNotExpired(id) ==
  /\ active' = active \ {id}
  /\ timers' = IF id \in active THEN timers \ {Entry(expiration[id], id)} ELSE timers
  /\ freed' = IF id \in active THEN freed \cup {id} ELSE freed
  /\ UNCHANGED canceling

\* Faulty: deletes a timer whose callback is being run or about to be.
cancelAtOnce(id) ==
  /\ active' = active \ {id}
  /\ timers' = timers \ {Entry(expiration[id], id)}
  /\ freed' = IF id \in active \cup batch THEN freed \cup {id} ELSE freed
  /\ UNCHANGED canceling

cancelInThisThread(id) ==
  /\ active' = active \ {id}
  /\ timers' = IF id \in active THEN timers \ {Entry(expiration[id], id)} ELSE timers
  /\ freed' = IF id \in active THEN freed \cup {id} ELSE freed
  /\ canceling' = IF id \notin active /\ current # 0 THEN canceling \cup {id} ELSE canceling

Cancel(id) ==
  /\ cancelInThisThread(id)
  /\ cancelled' = cancelled \cup ({id} \cap (active \cup batch))

-----------------------------------------------------------------------------
(* Calls.  A handler of the loop, also a timer's callback, calls in place;  *)
(* another thread posts.                                                    *)

Create(i) ==
  /\ created < MaxTimers
  /\ created' = created + 1
  /\ interval' = [interval EXCEPT ![created + 1] = i]

addTimer == \E when \in 0..MaxTime, i \in Intervals :
  /\ Create(i)
  /\ addTimerInThisThread(created + 1, when)
  /\ known' = known \cup {created + 1}
  /\ UNCHANGED <<now, batchVars, returning, asked, queue, canceling, freed, cancelled>>

\* expiration_ is set by the constructor, before the post.
addTimerFromThread == \E when \in 0..MaxTime, i \in Intervals :
  /\ returning = 0 /\ Create(i)
  /\ returning' = created + 1
  /\ expiration' = [expiration EXCEPT ![created + 1] = when]
  /\ queue' = Append(queue, Task("add", created + 1))
  /\ UNCHANGED <<now, timers, active, armVars, batchVars, known, asked, canceling, freed, cancelled>>

\* addTimer reads timer->sequence() after the post.  A timer that is deleted by then has
\* none: the TimerId names no timer.
returnTimerId ==
  /\ returning # 0
  /\ known' = IF returning \in freed THEN known ELSE known \cup {returning}
  /\ returning' = 0
  /\ UNCHANGED <<now, setVars, armVars, batchVars, created, interval, asked, queue, canceling, freed, cancelled>>

cancel == \E id \in known :
  /\ Cancel(id)
  /\ UNCHANGED <<now, expiration, armVars, batchVars, userVars, queue>>

cancelFromThread == \E id \in known \ asked :
  /\ asked' = asked \cup {id}
  /\ queue' = Append(queue, Task("cancel", id))
  /\ UNCHANGED <<now, setVars, armVars, batchVars, created, interval, known, returning, canceling, freed, cancelled>>

-----------------------------------------------------------------------------
(* The steady_timer.                                                        *)

\* The wait ends and its handler is queued; a later expires_from_now does not undo that.
WaitEnds ==
  /\ waiting = "yes" /\ deadline <= now
  /\ waiting' = "no" /\ deadline' = 0
  /\ queue' = Append(queue, Task("expired", 0))
  /\ UNCHANGED <<now, setVars, batchVars, userVars, canceling, freed, cancelled>>

\* getExpired, then the first callback.
Expired == {e \in timers : e.when <= now}

\* The next of todo: the set is ordered by expiration, then by address.
First(ids) == {i \in ids : \A j \in ids : expiration[i] <= expiration[j]}

\* A timer that goes on: it repeats and was not cancelled by a callback of the batch.
restarts(i) == interval[i] > 0 /\ i \notin canceling

\* Faulty: does not arm steadyTimer_ again.
resetUnarmed ==
  LET again == {i \in batch : restarts(i)} IN
  /\ expiration' = [i \in Ids |-> IF i \in again THEN since + interval[i] ELSE expiration[i]]
  /\ timers' = timers \cup {Entry(since + interval[i], i) : i \in again}
  /\ active' = active \cup again
  /\ freed' = freed \cup (batch \ again)
  /\ UNCHANGED armVars

\* reset: timers that go on are inserted again, the others deleted, and steadyTimer_ is
\* armed for the earliest timer, if there is one.
reset ==
  LET again == {i \in batch : restarts(i)}
      all == timers \cup {Entry(since + interval[i], i) : i \in again} IN
  /\ expiration' = [i \in Ids |-> IF i \in again THEN since + interval[i] ELSE expiration[i]]
  /\ timers' = all
  /\ active' = active \cup again
  /\ freed' = freed \cup (batch \ again)
  /\ IF all = {} THEN UNCHANGED armVars ELSE resetTimer(Earliest(all))

\* The handler of steadyTimer_: without an expired timer it only arms steadyTimer_ again.
handleExpired ==
  /\ canceling' = {}
  /\ \/ /\ Expired = {}
        /\ IF timers = {} THEN UNCHANGED armVars ELSE resetTimer(Earliest(timers))
        /\ UNCHANGED <<setVars, batchVars>>
     \/ /\ Expired # {}
        /\ timers' = timers \ Expired
        /\ active' = active \ {e.id : e \in Expired}
        /\ batch' = {e.id : e \in Expired}
        /\ since' = now
        /\ \E id \in First(batch') : current' = id /\ todo' = batch' \ {id}
        /\ UNCHANGED <<expiration, armVars>>

\* A callback returns, and the next one is called.
nextCallback ==
  /\ current # 0 /\ todo # {}
  /\ \E id \in First(todo) : current' = id /\ todo' = todo \ {id}
  /\ UNCHANGED <<now, setVars, armVars, batch, since, userVars, queue, canceling, freed, cancelled>>

\* The last callback returns.
lastCallback ==
  /\ current # 0 /\ todo = {}
  /\ reset
  /\ batch' = {} /\ current' = 0 /\ since' = 0
  /\ UNCHANGED <<now, todo, userVars, queue, canceling, cancelled>>

\* The loop runs the handler at the head of its queue.
RunPosted ==
  /\ current = 0 /\ queue # <<>>
  /\ queue' = Tail(queue)
  /\ LET task == Head(queue) IN
     \/ /\ task.run = "add"
        /\ addTimerInThisThread(task.id, expiration[task.id])
        /\ UNCHANGED <<batchVars, canceling, freed, cancelled>>
     \/ /\ task.run = "cancel"
        /\ Cancel(task.id)
        /\ UNCHANGED <<expiration, armVars, batchVars>>
     \/ /\ task.run = "expired"
        /\ handleExpired
        /\ UNCHANGED <<freed, cancelled>>
  /\ UNCHANGED <<now, userVars>>

Tick ==
  /\ now < MaxTime
  /\ now' = now + 1
  /\ UNCHANGED <<setVars, armVars, batchVars, userVars, queue, canceling, freed, cancelled>>

-----------------------------------------------------------------------------
Next ==
  \/ addTimer \/ addTimerFromThread \/ returnTimerId \/ cancel \/ cancelFromThread
  \/ WaitEnds \/ RunPosted \/ nextCallback \/ lastCallback \/ Tick

(* Time goes on, the loop runs its handlers and callbacks return.           *)
Fairness ==
  /\ WF_vars(Tick) /\ WF_vars(WaitEnds) /\ WF_vars(RunPosted)
  /\ WF_vars(nextCallback) /\ WF_vars(lastCallback)

Spec == Init /\ [][Next]_vars
FairSpec == Spec /\ Fairness

-----------------------------------------------------------------------------
(* Properties.                                                              *)

\* Every variable holds a value of the member it stands for.
TypeOK ==
  /\ now \in 0..MaxTime /\ created \in 0..MaxTimers
  /\ expiration \in [Ids -> Nat] /\ interval \in [Ids -> Nat]
  /\ timers \subseteq [when : Nat, id : Ids]
  /\ active \subseteq Ids /\ batch \subseteq Ids /\ todo \subseteq batch
  /\ waiting \in {"yes", "no"} /\ deadline \in Nat
  /\ queue \in Seq([run : {"add", "cancel", "expired"}, id : 0..MaxTimers])
  /\ current \in batch \cup {0} /\ since \in Nat
  /\ canceling \subseteq Ids /\ freed \subseteq Ids /\ known \subseteq Ids
  /\ returning \in 0..MaxTimers /\ asked \subseteq known /\ cancelled \subseteq Ids

\* timers_ and activeTimers_ hold the same timers, each under the expiration it has now,
\* so that the assertions on their sizes and on erase() hold (insert, getExpired,
\* cancelInThisThread).
SameTimers == timers = {Entry(expiration[i], i) : i \in active}

Adding == {queue[k].id : k \in {j \in 1..Len(queue) : queue[j].run = "add"}}

\* Every Timer has exactly one owner - the handler that will add it, the two sets, or the
\* batch being run - until it is deleted; so none leaks, and none is deleted twice or used
\* afterwards, whatever callbacks cancel (cancelInThisThread, reset).
OwnedOnce ==
  /\ 1..created = UNION {Adding, active, batch, freed}
  /\ Cardinality(Adding) + Cardinality(active) + Cardinality(batch) + Cardinality(freed)
       = created

\* The sets agree on the timers they hold, and every Timer is in one place.
OneOwnerInBothSets == SameTimers /\ OwnedOnce

\* No timer is forgotten: between two handlers, steadyTimer_ is armed no later than for
\* the earliest timer, or its handler is queued (resetTimer, insert, reset).
ArmedInTime ==
  active # {} /\ current = 0 =>
    \/ waiting = "yes" /\ (deadline <= Earliest(timers) \/ deadline <= now)
    \/ \E k \in 1..Len(queue) : queue[k].run = "expired"

\* A cancelled timer is gone once the callbacks that were due with it have run, also when
\* its own callback or another one of the batch cancelled it (cancelInThisThread, reset).
CancelledIsGone == current = 0 => cancelled \subseteq freed

\* A timer that is due before the clock stops is run, or cancelled (update, getExpired).
TimersRun ==
  \A i \in Ids :
    (i \in active /\ expiration[i] <= MaxTime) ~> (i \in batch \cup freed)
=============================================================================
