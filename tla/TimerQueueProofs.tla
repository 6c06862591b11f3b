-------------------------- MODULE TimerQueueProofs --------------------------
(***************************************************************************)
(* Proofs about TimerQueue, for any number of timers, any intervals and    *)
(* any clock.                                                              *)
(***************************************************************************)
EXTENDS TimerQueue, FiniteSetTheorems, WellFoundedInduction, SequenceTheorems, TLAPS

Tasks == [run : {"add", "cancel", "expired"}, id : 0..MaxTimers]

\* What the queue holds: the timers it will add, each once, and the steady_timer's handler.
Added(q) == {q[k].id : k \in {j \in 1..Len(q) : q[j].run = "add"}}
AddOnce(q) == \A j, k \in 1..Len(q) :
  q[j].run = "add" /\ q[k].run = "add" /\ q[j].id = q[k].id => j = k
Wakes(q) == \E k \in 1..Len(q) : q[k].run = "expired"

\* steadyTimer_ completes no later than for the earliest of ts.
Armed(ts, w, d) == w = "yes" /\ (d <= Earliest(ts) \/ d <= now)

\* Every Timer is in one of the four places.
Owners ==
  /\ 1..created = UNION {Adding, active, batch, freed}
  /\ Adding \cap (active \cup batch \cup freed) = {}
  /\ active \cap (batch \cup freed) = {}
  /\ batch \cap freed = {}

\* A timer that was cancelled is deleted, or reset() will delete it.
CancelInv == cancelled \subseteq freed \cup (batch \cap canceling)

\* The batch is there while its callbacks run.
BatchInv == current = 0 => batch = {}

\* The invariants together are inductive.
Inv ==
  /\ TypeOK /\ SameTimers /\ Owners /\ AddOnce(queue) /\ BatchInv /\ CancelInv
  /\ ArmedInTime

-----------------------------------------------------------------------------
(* The earliest timer, and the time to wait for it.                         *)

Less == {r \in Nat \X Nat : r[1] < r[2]}

\* Numbers cannot decrease for ever.
LEMMA LessWellFounded == IsWellFoundedOn(Less, Nat)
BY NatLessThanWellFounded DEF OpToRel, Less

\* A set of numbers that is not empty has a least member, which Min names.
LEMMA MinFacts ==
  ASSUME NEW S, S \subseteq Nat, S # {}
  PROVE  Min(S) \in S /\ \A y \in S : Min(S) <= y
<1>1. PICK x \in S : \A y \in S : <<y, x>> \notin Less
  BY LessWellFounded, WFMin
<1>2. \A y \in S : x <= y
  <2> SUFFICES ASSUME NEW y \in S, y < x PROVE FALSE
    OBVIOUS
  <2>1. <<y, x>> \in Nat \X Nat
    OBVIOUS
  <2>2. <<y, x>> \in Less
    BY <2>1 DEF Less
  <2> QED
    BY <1>1, <2>2
<1> QED
  BY <1>2 DEF Min

\* Earliest is the expiration of one of the timers, and none is before it.
LEMMA EarliestFacts ==
  ASSUME NEW ts, ts \subseteq [when : Nat, id : Ids], ts # {}
  PROVE  /\ Earliest(ts) \in Nat
         /\ \E e \in ts : e.when = Earliest(ts)
         /\ \A e \in ts : Earliest(ts) <= e.when
<1> DEFINE S == {e.when : e \in ts}
<1>1. S \subseteq Nat /\ S # {}
  OBVIOUS
<1>2. Earliest(ts) = Min(S)
  BY DEF Earliest
<1> HIDE DEF S
<1>3. Min(S) \in S /\ \A y \in S : Min(S) <= y
  BY <1>1, MinFacts
<1> QED
  BY <1>1, <1>2, <1>3 DEF S

\* A subset has no earlier timer.
LEMMA EarliestOfSubset ==
  ASSUME NEW ts, ts \subseteq [when : Nat, id : Ids], NEW us, us \subseteq ts, us # {}
  PROVE  Earliest(ts) <= Earliest(us) /\ Earliest(ts) \in Nat /\ Earliest(us) \in Nat
<1>1. Earliest(us) \in Nat /\ \E e \in us : e.when = Earliest(us)
  BY EarliestFacts
<1>2. Earliest(ts) \in Nat /\ \A e \in ts : Earliest(ts) <= e.when
  BY EarliestFacts
<1> QED
  BY <1>1, <1>2

\* Cutting a time to whole seconds makes it no longer.
LEMMA WholeSeconds ==
  ASSUME NEW a \in Nat
  PROVE  (a \div kSecond) * kSecond \in Nat /\ (a \div kSecond) * kSecond <= a
BY SecondAssumption

\* resetTimer arms steadyTimer_ for a time that is not after `when', or at once.
LEMMA ResetFacts ==
  ASSUME now \in Nat, NEW when \in Nat, resetTimer(when)
  PROVE  waiting' = "yes" /\ deadline' \in Nat /\ (deadline' <= when \/ deadline' <= now)
<1>1. CASE when > now
  <2> DEFINE w == ((when - now) \div kSecond) * kSecond
  <2>1. when - now \in Nat
    BY <1>1
  <2>2. w \in Nat /\ w <= when - now
    BY <2>1, WholeSeconds
  <2>3. waiting' = "yes" /\ deadline' = now + w
    BY <1>1 DEF resetTimer
  <2> HIDE DEF w
  <2> QED
    BY <2>2, <2>3
<1>2. CASE ~(when > now)
  BY <1>2 DEF resetTimer
<1> QED
  BY <1>1, <1>2

-----------------------------------------------------------------------------
(* The queue.                                                               *)

\* Post appends one handler.
LEMMA AppendFacts ==
  ASSUME NEW q \in Seq(Tasks), NEW t \in Tasks
  PROVE  /\ Append(q, t) \in Seq(Tasks)
         /\ Added(Append(q, t)) = Added(q) \cup (IF t.run = "add" THEN {t.id} ELSE {})
         /\ AddOnce(q) /\ (t.run = "add" => t.id \notin Added(q)) => AddOnce(Append(q, t))
         /\ Wakes(Append(q, t)) <=> Wakes(q) \/ t.run = "expired"
<1> DEFINE p == Append(q, t)
<1>1. /\ p \in Seq(Tasks) /\ Len(p) = Len(q) + 1 /\ Len(q) \in Nat
      /\ \A i \in 1..Len(q) : p[i] = q[i]
      /\ p[Len(q) + 1] = t
  OBVIOUS
<1>2. \A i \in 1..(Len(q) + 1) : i \in 1..Len(q) \/ i = Len(q) + 1
  BY <1>1
<1> HIDE DEF p
<1>3. Added(p) = Added(q) \cup (IF t.run = "add" THEN {t.id} ELSE {})
  BY <1>1, <1>2 DEF Added
<1>4. AddOnce(q) /\ (t.run = "add" => t.id \notin Added(q)) => AddOnce(p)
  BY <1>1, <1>2 DEF AddOnce, Added
<1>5. Wakes(p) <=> Wakes(q) \/ t.run = "expired"
  BY <1>1, <1>2 DEF Wakes
<1> QED
  BY <1>1, <1>3, <1>4, <1>5 DEF p

\* The loop takes the head.
LEMMA TailFacts ==
  ASSUME NEW q \in Seq(Tasks), q # <<>>, AddOnce(q)
  PROVE  /\ Tail(q) \in Seq(Tasks) /\ Head(q) \in Tasks
         /\ AddOnce(Tail(q))
         /\ Head(q).run = "add" => Head(q).id \in Added(q) /\ Added(Tail(q)) = Added(q) \ {Head(q).id}
         /\ Head(q).run # "add" => Added(Tail(q)) = Added(q)
         /\ Head(q).run # "expired" /\ Wakes(q) => Wakes(Tail(q))
<1> DEFINE p == Tail(q)
           h == Head(q)
<1>1. /\ p \in Seq(Tasks) /\ Len(p) = Len(q) - 1 /\ Len(q) \in Nat \ {0}
      /\ \A i \in 1..(Len(q) - 1) : p[i] = q[i + 1]
      /\ h = q[1] /\ h \in Tasks
  OBVIOUS
<1> HIDE DEF p, h
<1>2. \A i \in 1..Len(q) : i = 1 \/ (i - 1 \in 1..(Len(q) - 1) /\ p[i - 1] = q[i])
  BY <1>1
<1>3. \A i \in 1..(Len(q) - 1) : i + 1 \in 1..Len(q) /\ i + 1 # 1
  BY <1>1
<1>4. AddOnce(p)
  <2> SUFFICES ASSUME NEW j \in 1..(Len(q) - 1), NEW k \in 1..(Len(q) - 1),
                      p[j].run = "add", p[k].run = "add", p[j].id = p[k].id
               PROVE  j = k
    BY <1>1 DEF AddOnce
  <2>1. j + 1 = k + 1
    BY <1>1, <1>3 DEF AddOnce
  <2> QED
    BY <2>1
<1>5. ASSUME NEW x
      PROVE  x \in Added(p) <=> \E k \in 2..Len(q) : q[k].run = "add" /\ q[k].id = x
  BY <1>1, <1>2, <1>3, SMTT(30) DEF Added
<1>6. ASSUME NEW x
       PROVE  x \in Added(q) <=> \E k \in 1..Len(q) : q[k].run = "add" /\ q[k].id = x
  BY DEF Added
<1>7. \A k \in 2..Len(q) : k \in 1..Len(q) /\ k # 1
  BY <1>1
<1>8. \A k \in 1..Len(q) : k = 1 \/ k \in 2..Len(q)
  BY <1>1
<1>9. h.run = "add" => h.id \in Added(q) /\ Added(p) = Added(q) \ {h.id}
  <2> SUFFICES ASSUME h.run = "add" PROVE h.id \in Added(q) /\ Added(p) = Added(q) \ {h.id}
    OBVIOUS
  <2>1. h.id \in Added(q) /\ h.id \notin Added(p)
    BY <1>1, <1>5, <1>6, <1>7 DEF AddOnce
  <2>2. \A x \in Added(p) : x \in Added(q)
    BY <1>5, <1>6, <1>7
  <2>3. \A x \in Added(q) : x # h.id => x \in Added(p)
    BY <1>1, <1>5, <1>6, <1>8
  <2> QED
    BY <2>1, <2>2, <2>3
<1>10. h.run # "add" => Added(p) = Added(q)
  <2> SUFFICES ASSUME h.run # "add" PROVE Added(p) = Added(q)
    OBVIOUS
  <2>1. \A x \in Added(p) : x \in Added(q)
    BY <1>5, <1>6, <1>7
  <2>2. \A x \in Added(q) : x \in Added(p)
    BY <1>1, <1>5, <1>6, <1>8
  <2> QED
    BY <2>1, <2>2
<1>11. h.run # "expired" /\ Wakes(q) => Wakes(p)
  BY <1>1, <1>2 DEF Wakes
<1> QED
  BY <1>1, <1>4, <1>9, <1>10, <1>11 DEF p, h

-----------------------------------------------------------------------------
(* What the operations do to the two sets and to steadyTimer_.              *)

\* The state as the steps below need it.
LEMMA Shape ==
  ASSUME Inv
  PROVE  /\ now \in Nat /\ created \in Nat /\ 1..created \subseteq Ids
         /\ queue \in Seq(Tasks) /\ Adding = Added(queue)
         /\ Adding \subseteq 1..created /\ active \subseteq 1..created
         /\ batch \subseteq 1..created /\ freed \subseteq 1..created
         /\ timers \subseteq [when : Nat, id : Ids]
         /\ \A e \in timers : e.id \in active /\ e.when = expiration[e.id]
         /\ active = {} <=> timers = {}
<1>1. now \in Nat /\ created \in Nat /\ 1..created \subseteq Ids
  BY BoundsAssumption DEF Inv, TypeOK, Ids
<1>2. queue \in Seq(Tasks) /\ Adding = Added(queue)
  BY DEF Inv, TypeOK, Tasks, Adding, Added
<1>3. \A e \in timers : e.id \in active /\ e.when = expiration[e.id]
  BY DEF Inv, SameTimers, Entry
<1>4. active = {} <=> timers = {}
  BY DEF Inv, SameTimers
<1> QED
  BY <1>1, <1>2, <1>3, <1>4 DEF Inv, TypeOK, Owners

\* insert: both sets get the timer, and steadyTimer_ stays armed in time.
LEMMA InsertFacts ==
  ASSUME Inv, NEW id \in Ids, NEW when \in Nat, id \notin active,
         addTimerInThisThread(id, when)
  PROVE  /\ SameTimers' /\ active' = active \cup {id} /\ timers' # {}
         /\ timers' \subseteq [when : Nat, id : Ids] /\ expiration' \in [Ids -> Nat]
         /\ waiting' \in {"yes", "no"} /\ deadline' \in Nat
         /\ current = 0 => Armed(timers', waiting', deadline') \/ Wakes(queue)
<1>1. /\ timers' = timers \cup {Entry(when, id)} /\ active' = active \cup {id}
      /\ expiration' = [expiration EXCEPT ![id] = when]
      /\ IF timers = {} \/ when < Earliest(timers) THEN resetTimer(when) ELSE UNCHANGED armVars
  BY DEF addTimerInThisThread
<1>2. /\ now \in Nat /\ timers \subseteq [when : Nat, id : Ids] /\ expiration \in [Ids -> Nat]
      /\ waiting \in {"yes", "no"} /\ deadline \in Nat /\ active \subseteq Ids
      /\ active = {} <=> timers = {}
  BY Shape DEF Inv, TypeOK
<1>3. /\ expiration' \in [Ids -> Nat] /\ expiration'[id] = when
      /\ \A i \in active : expiration'[i] = expiration[i]
  BY <1>1, <1>2
<1>4. SameTimers'
  <2>1. \A i \in active : Entry(expiration'[i], i) = Entry(expiration[i], i)
    BY <1>3
  <2>2. Entry(expiration'[id], id) = Entry(when, id)
    BY <1>3
  <2> QED
    BY <1>1, <2>1, <2>2 DEF Inv, SameTimers
<1>5. /\ Entry(when, id) \in [when : Nat, id : Ids] /\ Entry(when, id).when = when
      /\ timers' \subseteq [when : Nat, id : Ids] /\ timers' # {}
  <2>1. Entry(when, id) \in [when : Nat, id : Ids] /\ Entry(when, id).when = when
    BY DEF Entry
  <2> QED
    BY <1>1, <1>2, <2>1
<1>6. CASE timers = {} \/ when < Earliest(timers)
  <2>1. waiting' = "yes" /\ deadline' \in Nat /\ (deadline' <= when \/ deadline' <= now)
    BY <1>1, <1>2, <1>6, ResetFacts
  <2>2. Earliest(timers') = when
    <3>1. Earliest(timers') \in Nat /\ (\A e \in timers' : Earliest(timers') <= e.when)
          /\ \E e \in timers' : e.when = Earliest(timers')
      BY <1>5, EarliestFacts
    <3>2. timers # {} => Earliest(timers) \in Nat /\ \A e \in timers : Earliest(timers) <= e.when
      BY <1>2, EarliestFacts
    <3>3. \A e \in timers : when <= e.when
      BY <1>2, <1>6, <3>2
    <3> QED
      BY <1>1, <1>5, <3>1, <3>3
  <2> QED
    BY <1>1, <1>3, <1>4, <1>5, <2>1, <2>2 DEF Armed
<1>7. CASE timers # {} /\ ~(when < Earliest(timers))
  <2>1. waiting' = waiting /\ deadline' = deadline
    BY <1>1, <1>7 DEF armVars
  <2>2. Earliest(timers') = Earliest(timers)
    <3>1. Earliest(timers') \in Nat /\ (\A e \in timers' : Earliest(timers') <= e.when)
          /\ \E e \in timers' : e.when = Earliest(timers')
      BY <1>5, EarliestFacts
    <3>2. Earliest(timers) \in Nat /\ (\A e \in timers : Earliest(timers) <= e.when)
          /\ \E e \in timers : e.when = Earliest(timers)
      BY <1>2, <1>7, EarliestFacts
    <3>3. \A e \in timers' : Earliest(timers) <= e.when
      BY <1>1, <1>5, <1>7, <3>2
    <3> QED
      BY <1>1, <3>1, <3>2, <3>3
  <2>3. current = 0 => Armed(timers, waiting, deadline) \/ Wakes(queue)
    BY <1>2, <1>7 DEF Inv, ArmedInTime, Armed, Wakes
  <2> QED
    BY <1>1, <1>2, <1>3, <1>4, <1>5, <2>1, <2>2, <2>3 DEF Armed
<1> QED
  BY <1>6, <1>7

\* cancelInThisThread: a timer of the two sets is deleted, one of the batch is left to
\* reset().
LEMMA CancelFacts ==
  ASSUME Inv, NEW id, Cancel(id), UNCHANGED expiration
  PROVE  /\ SameTimers' /\ timers' \subseteq timers /\ active' = active \ {id}
         /\ freed' = freed \cup (active \cap {id})
         /\ canceling' \subseteq canceling \cup {id} /\ cancelled' \subseteq cancelled \cup {id}
         /\ current = 0 => canceling' = canceling
         /\ cancelled' \subseteq freed' \cup (batch \cap canceling')
         /\ cancelled' \subseteq cancelled \cup active \cup batch
         /\ active' # {} /\ current = 0 => Armed(timers', waiting, deadline) \/ Wakes(queue)
<1>1. /\ active' = active \ {id}
      /\ timers' = IF id \in active THEN timers \ {Entry(expiration[id], id)} ELSE timers
      /\ freed' = IF id \in active THEN freed \cup {id} ELSE freed
      /\ canceling' = IF id \notin active /\ current # 0 THEN canceling \cup {id} ELSE canceling
      /\ cancelled' = cancelled \cup ({id} \cap (active \cup batch))
  BY DEF Cancel, cancelInThisThread
<1>2. SameTimers'
  <2>1. \A i, j : Entry(expiration[i], i) = Entry(expiration[j], j) => i = j
    BY DEF Entry
  <2> DEFINE E(i) == Entry(expiration[i], i)
  <2>2. timers = {E(i) : i \in active}
    BY DEF Inv, SameTimers
  <2>3. \A i, j : E(i) = E(j) => i = j
    BY <2>1
  <2>4. timers' = IF id \in active THEN timers \ {E(id)} ELSE timers
    BY <1>1
  <2> HIDE DEF E
  <2>5. timers' = {E(i) : i \in active \ {id}}
    <3>1. CASE id \in active
      <4>1. \A i \in active : E(i) # E(id) <=> i # id
        BY <2>3, <3>1
      <4>2. {E(i) : i \in active} \ {E(id)} = {E(i) : i \in active \ {id}}
        BY <4>1
      <4> QED
        BY <2>2, <2>4, <3>1, <4>2
    <3>2. CASE id \notin active
      <4>1. active \ {id} = active
        BY <3>2
      <4> QED
        BY <2>2, <2>4, <3>2, <4>1
    <3> QED
      BY <3>1, <3>2
  <2> QED
    BY <1>1, <2>5 DEF SameTimers, E
<1>3. cancelled' \subseteq freed' \cup (batch \cap canceling')
  <2>1. id \in batch /\ id \notin active => current # 0
    BY DEF Inv, BatchInv
  <2> QED
    BY <1>1, <2>1 DEF Inv, CancelInv
<1>4. ASSUME active' # {}, current = 0 PROVE Armed(timers', waiting, deadline) \/ Wakes(queue)
  <2>1. active # {} /\ timers' # {} /\ timers' \subseteq timers
    BY <1>1, <1>2, <1>4 DEF SameTimers
  <2>2. Earliest(timers) <= Earliest(timers') /\ Earliest(timers) \in Nat /\ Earliest(timers') \in Nat
    BY <2>1, Shape, EarliestOfSubset
  <2>3. Armed(timers, waiting, deadline) \/ Wakes(queue)
    BY <1>4, <2>1 DEF Inv, ArmedInTime, Armed, Wakes
  <2>4. deadline \in Nat
    BY DEF Inv, TypeOK
  <2> QED
    BY <2>2, <2>3, <2>4 DEF Armed
<1> QED
  BY <1>1, <1>2, <1>3, <1>4

-----------------------------------------------------------------------------
(* Calls.                                                                   *)

\* Adding is read from the queue.
LEMMA AddingIsAdded == Adding = Added(queue) /\ Adding' = Added(queue')
BY DEF Adding, Added

\* addTimer of a handler or a callback: the new timer goes into both sets.
LEMMA AddTimerPreserves == Inv /\ addTimer => Inv'
<1> SUFFICES ASSUME Inv, addTimer PROVE Inv'
  OBVIOUS
<1> DEFINE id == created + 1
<1>1. PICK when \in 0..MaxTime, i \in Intervals :
        /\ created < MaxTimers /\ created' = id /\ interval' = [interval EXCEPT ![id] = i]
        /\ addTimerInThisThread(id, when) /\ known' = known \cup {id}
        /\ UNCHANGED <<now, batchVars, returning, asked, queue, canceling, freed, cancelled>>
  BY DEF addTimer, Create
<1>2. /\ when \in Nat /\ i \in Nat /\ id \in Ids /\ id \notin 1..created
      /\ 1..created' = 1..created \cup {id} /\ created' \in 0..MaxTimers
  <2>1. created \in 0..MaxTimers /\ MaxTimers \in Nat
    BY BoundsAssumption DEF Inv, TypeOK
  <2>2. when \in Nat /\ i \in Nat
    BY BoundsAssumption, IntervalsAssumption
  <2> QED
    BY <1>1, <2>1, <2>2 DEF Ids
<1> HIDE DEF id
<1>3. id \notin Added(queue) /\ id \notin active /\ id \notin batch /\ id \notin freed
  BY <1>2, Shape
<1>4. /\ SameTimers' /\ active' = active \cup {id} /\ timers' # {}
      /\ timers' \subseteq [when : Nat, id : Ids] /\ expiration' \in [Ids -> Nat]
      /\ waiting' \in {"yes", "no"} /\ deadline' \in Nat
      /\ current = 0 => Armed(timers', waiting', deadline') \/ Wakes(queue)
  BY <1>1, <1>2, <1>3, InsertFacts
<1>5. UNCHANGED <<now, batch, todo, current, since, returning, asked, queue, canceling, freed, cancelled>>
  BY <1>1 DEF batchVars
<1>6. TypeOK'
  BY <1>1, <1>2, <1>4, <1>5 DEF Inv, TypeOK
<1>7. Owners'
  BY <1>1, <1>2, <1>3, <1>4, <1>5, Shape, AddingIsAdded, SMTT(30) DEF Inv, Owners
<1>8. AddOnce(queue)' /\ BatchInv' /\ CancelInv'
  BY <1>5 DEF Inv, AddOnce, BatchInv, CancelInv
<1>9. ArmedInTime'
  BY <1>4, <1>5 DEF ArmedInTime, Armed, Wakes
<1> QED
  BY <1>4, <1>6, <1>7, <1>8, <1>9 DEF Inv

\* addTimer of another thread: the new timer waits in the queue.
LEMMA AddFromThreadPreserves == Inv /\ addTimerFromThread => Inv'
<1> SUFFICES ASSUME Inv, addTimerFromThread PROVE Inv'
  OBVIOUS
<1> DEFINE id == created + 1
<1>1. PICK when \in 0..MaxTime, i \in Intervals :
        /\ created < MaxTimers /\ created' = id /\ interval' = [interval EXCEPT ![id] = i]
        /\ returning' = id /\ expiration' = [expiration EXCEPT ![id] = when]
        /\ queue' = Append(queue, Task("add", id))
        /\ UNCHANGED <<now, timers, active, armVars, batchVars, known, asked, canceling, freed, cancelled>>
  BY DEF addTimerFromThread, Create
<1>2. /\ when \in Nat /\ i \in Nat /\ id \in Ids /\ id \in 0..MaxTimers /\ id \notin 1..created
      /\ 1..created' = 1..created \cup {id} /\ created' \in 0..MaxTimers
  <2>1. created \in 0..MaxTimers /\ MaxTimers \in Nat
    BY BoundsAssumption DEF Inv, TypeOK
  <2>2. when \in Nat /\ i \in Nat
    BY BoundsAssumption, IntervalsAssumption
  <2> QED
    BY <1>1, <2>1, <2>2 DEF Ids
<1> HIDE DEF id
<1>3. id \notin Added(queue) /\ id \notin active /\ id \notin batch /\ id \notin freed
  BY <1>2, Shape
<1>4. Task("add", id) \in Tasks /\ Task("add", id).run = "add" /\ Task("add", id).id = id
  BY <1>2 DEF Task, Tasks
<1>5. /\ queue' \in Seq(Tasks) /\ Added(queue') = Added(queue) \cup {id} /\ AddOnce(queue')
      /\ Wakes(queue') <=> Wakes(queue)
  BY <1>1, <1>3, <1>4, Shape, AppendFacts DEF Inv
<1>6. UNCHANGED <<now, timers, active, waiting, deadline, batch, todo, current, since, known, asked,
                  canceling, freed, cancelled>>
  BY <1>1 DEF armVars, batchVars
<1>7. TypeOK'
  BY <1>1, <1>2, <1>5, <1>6 DEF Inv, TypeOK, Tasks
<1>8. SameTimers'
  <2>1. \A j \in active : expiration'[j] = expiration[j]
    BY <1>1, <1>2, <1>3, Shape DEF Inv, TypeOK
  <2> QED
    BY <1>6, <2>1 DEF Inv, SameTimers, Entry
<1>9. Owners'
  BY <1>1, <1>2, <1>3, <1>5, <1>6, Shape, AddingIsAdded DEF Inv, Owners
<1>10. BatchInv' /\ CancelInv'
  BY <1>6 DEF Inv, BatchInv, CancelInv
<1>11. ArmedInTime'
  BY <1>5, <1>6 DEF Inv, ArmedInTime, Wakes
<1> QED
  BY <1>5, <1>7, <1>8, <1>9, <1>10, <1>11 DEF Inv

\* addTimer returns to the other thread.
LEMMA ReturnPreserves == Inv /\ returnTimerId => Inv'
<1> SUFFICES ASSUME Inv, returnTimerId PROVE Inv'
  OBVIOUS
<1>1. /\ returning' = 0 /\ returning # 0
      /\ known' = IF returning \in freed THEN known ELSE known \cup {returning}
      /\ UNCHANGED <<now, timers, active, expiration, waiting, deadline, batch, todo, current, since,
                     created, interval, asked, queue, canceling, freed, cancelled>>
  BY DEF returnTimerId, setVars, armVars, batchVars
<1>2. returning \in Ids
  BY <1>1, BoundsAssumption DEF Inv, TypeOK, Ids
<1>3. TypeOK'
  BY <1>1, <1>2, BoundsAssumption, SMTT(30) DEF Inv, TypeOK
<1>4. SameTimers' /\ Owners' /\ AddOnce(queue)'
  BY <1>1, AddingIsAdded DEF Inv, SameTimers, Entry, Owners, AddOnce
<1>5. BatchInv' /\ CancelInv' /\ ArmedInTime'
  BY <1>1 DEF Inv, BatchInv, CancelInv, ArmedInTime
<1> QED
  BY <1>3, <1>4, <1>5 DEF Inv

\* cancel of a handler or a callback.
LEMMA CancelPreserves == Inv /\ cancel => Inv'
<1> SUFFICES ASSUME Inv, cancel PROVE Inv'
  OBVIOUS
<1>1. PICK id \in known :
        /\ Cancel(id)
        /\ UNCHANGED <<now, expiration, waiting, deadline, batch, todo, current, since,
                       created, interval, known, returning, asked, queue>>
  BY DEF cancel, armVars, batchVars, userVars
<1>2. /\ SameTimers' /\ timers' \subseteq timers /\ active' = active \ {id}
      /\ freed' = freed \cup (active \cap {id})
      /\ canceling' \subseteq canceling \cup {id} /\ cancelled' \subseteq cancelled \cup {id}
      /\ cancelled' \subseteq freed' \cup (batch \cap canceling')
      /\ active' # {} /\ current = 0 => Armed(timers', waiting, deadline) \/ Wakes(queue)
  BY <1>1, CancelFacts
<1>3. TypeOK'
  BY <1>1, <1>2 DEF Inv, TypeOK
<1>4. Owners'
  BY <1>1, <1>2, AddingIsAdded DEF Inv, Owners
<1>5. AddOnce(queue)' /\ BatchInv' /\ CancelInv'
  BY <1>1, <1>2 DEF Inv, AddOnce, BatchInv, CancelInv
<1>6. ArmedInTime'
  BY <1>1, <1>2 DEF ArmedInTime, Armed, Wakes
<1> QED
  BY <1>2, <1>3, <1>4, <1>5, <1>6 DEF Inv

\* A handler is queued that adds no timer.
LEMMA PostPreserves ==
  ASSUME Inv, NEW task \in Tasks, task.run # "add", queue' = Append(queue, task), TypeOK',
         UNCHANGED <<now, setVars, batchVars, created, canceling, freed, cancelled>>,
         UNCHANGED armVars \/ task.run = "expired"
  PROVE  Inv'
<1>1. /\ Added(queue') = Added(queue) /\ AddOnce(queue')
      /\ Wakes(queue) \/ task.run = "expired" => Wakes(queue')
  BY Shape, AppendFacts DEF Inv
<1>2. UNCHANGED <<now, timers, active, expiration, batch, current, created, canceling, freed, cancelled>>
  BY DEF setVars, batchVars
<1>3. SameTimers' /\ Owners' /\ BatchInv' /\ CancelInv'
  BY <1>1, <1>2, AddingIsAdded DEF Inv, SameTimers, Entry, Owners, BatchInv, CancelInv
<1>4. ArmedInTime'
  <2>1. CASE UNCHANGED armVars
    BY <1>1, <1>2, <2>1 DEF Inv, ArmedInTime, armVars, Wakes
  <2>2. CASE task.run = "expired"
    BY <1>1, <2>2 DEF ArmedInTime, Wakes
  <2> QED
    BY <2>1, <2>2
<1> QED
  BY <1>1, <1>3, <1>4 DEF Inv

\* cancel of another thread waits in the queue.
LEMMA CancelFromThreadPreserves == Inv /\ cancelFromThread => Inv'
<1> SUFFICES ASSUME Inv, cancelFromThread PROVE Inv'
  OBVIOUS
<1>1. PICK id \in known \ asked :
        /\ asked' = asked \cup {id} /\ queue' = Append(queue, Task("cancel", id))
        /\ UNCHANGED <<now, setVars, armVars, batchVars, created, interval, known, returning,
                       canceling, freed, cancelled>>
  BY DEF cancelFromThread
<1>2. Task("cancel", id) \in Tasks /\ Task("cancel", id).run = "cancel"
  BY BoundsAssumption DEF Inv, TypeOK, Ids, Task, Tasks
<1>3. queue' \in Seq(Tasks)
  BY <1>1, <1>2, Shape, AppendFacts
<1>4. TypeOK'
  BY <1>1, <1>3 DEF Inv, TypeOK, Tasks, setVars, armVars, batchVars
<1> QED
  BY <1>1, <1>2, <1>4, PostPreserves

\* The steady_timer's handler is queued.
LEMMA WaitEndsPreserves == Inv /\ WaitEnds => Inv'
<1> SUFFICES ASSUME Inv, WaitEnds PROVE Inv'
  OBVIOUS
<1>1. /\ waiting' = "no" /\ deadline' = 0 /\ queue' = Append(queue, Task("expired", 0))
      /\ UNCHANGED <<now, setVars, batchVars, userVars, canceling, freed, cancelled>>
  BY DEF WaitEnds
<1>2. Task("expired", 0) \in Tasks /\ Task("expired", 0).run = "expired"
  BY BoundsAssumption DEF Task, Tasks
<1>3. queue' \in Seq(Tasks)
  BY <1>1, <1>2, Shape, AppendFacts
<1>4. TypeOK'
  BY <1>1, <1>3 DEF Inv, TypeOK, Tasks, setVars, batchVars, userVars
<1>5. UNCHANGED <<now, setVars, batchVars, created, canceling, freed, cancelled>>
  BY <1>1 DEF userVars
<1> QED
  BY <1>1, <1>2, <1>4, <1>5, PostPreserves

-----------------------------------------------------------------------------
(* The handler of the steady_timer.                                         *)

\* The next callback of the batch.
LEMMA NextCallbackPreserves == Inv /\ nextCallback => Inv'
<1> SUFFICES ASSUME Inv, nextCallback PROVE Inv'
  OBVIOUS
<1>1. PICK id \in todo :
        /\ current # 0 /\ current' = id /\ todo' = todo \ {id}
        /\ UNCHANGED <<now, timers, active, expiration, waiting, deadline, batch, since, userVars, queue,
                       canceling, freed, cancelled>>
  BY DEF nextCallback, First, setVars, armVars
<1>2. id \in batch /\ id # 0
  BY DEF Inv, TypeOK, Ids
<1>3. TypeOK'
  BY <1>1, <1>2 DEF Inv, TypeOK, userVars
<1>4. SameTimers' /\ Owners' /\ AddOnce(queue)' /\ CancelInv'
  BY <1>1, AddingIsAdded DEF Inv, SameTimers, Entry, Owners, AddOnce, CancelInv, userVars
<1>5. BatchInv' /\ ArmedInTime'
  BY <1>1, <1>2 DEF BatchInv, ArmedInTime
<1> QED
  BY <1>3, <1>4, <1>5 DEF Inv

\* reset() inserts the timers that go on, deletes the others and arms steadyTimer_.
LEMMA LastCallbackPreserves == Inv /\ lastCallback => Inv'
<1> SUFFICES ASSUME Inv, lastCallback PROVE Inv'
  OBVIOUS
<1> DEFINE again == {i \in batch : restarts(i)}
           new == {Entry(since + interval[i], i) : i \in again}
           all == timers \cup new
<1>1. /\ expiration' = [i \in Ids |-> IF i \in again THEN since + interval[i] ELSE expiration[i]]
      /\ timers' = all /\ active' = active \cup again
      /\ freed' = freed \cup (batch \ again)
      /\ IF all = {} THEN UNCHANGED armVars ELSE resetTimer(Earliest(all))
      /\ todo = {} /\ batch' = {} /\ current' = 0 /\ since' = 0
      /\ UNCHANGED <<now, todo, created, interval, known, returning, asked, queue, canceling, cancelled>>
  BY DEF lastCallback, reset, userVars
<1>2. /\ again \subseteq batch /\ batch \cap canceling \cap again = {}
      /\ \A i \in again : i \in Ids /\ since + interval[i] \in Nat
  BY DEF restarts, Inv, TypeOK
<1>3. /\ expiration \in [Ids -> Nat] /\ timers \subseteq [when : Nat, id : Ids] /\ now \in Nat
      /\ active \subseteq Ids /\ active \cap again = {}
      /\ waiting \in {"yes", "no"} /\ deadline \in Nat
  BY <1>2, Shape DEF Inv, TypeOK, Owners
<1>4. new \subseteq [when : Nat, id : Ids]
  BY <1>2 DEF Entry
<1>5. SameTimers'
  <2>1. new = {Entry(expiration'[i], i) : i \in again}
    BY <1>1, <1>2
  <2>2. timers = {Entry(expiration'[i], i) : i \in active}
    <3>1. \A i \in active : expiration'[i] = expiration[i]
      BY <1>1, <1>3
    <3> QED
      BY <3>1 DEF Inv, SameTimers
  <2> HIDE DEF new, again
  <2> QED
    BY <1>1, <2>1, <2>2 DEF SameTimers
<1> HIDE DEF again, new
<1>6. /\ waiting' \in {"yes", "no"} /\ deadline' \in Nat
      /\ timers' # {} => Armed(timers', waiting', deadline')
  <2>1. CASE all = {}
    BY <1>1, <1>3, <2>1 DEF armVars
  <2>2. CASE all # {}
    <3>1. Earliest(all) \in Nat /\ resetTimer(Earliest(all))
      BY <1>1, <1>3, <1>4, <2>2, EarliestFacts
    <3>2. waiting' = "yes" /\ deadline' \in Nat /\ (deadline' <= Earliest(all) \/ deadline' <= now)
      BY <1>3, <3>1, ResetFacts
    <3> QED
      BY <1>1, <3>2 DEF Armed
  <2> QED
    BY <2>1, <2>2
<1>7. TypeOK'
  <2>1. expiration' \in [Ids -> Nat]
    BY <1>1, <1>2, <1>3
  <2>2. /\ timers' \subseteq [when : Nat, id : Ids] /\ active' \subseteq Ids /\ freed' \subseteq Ids
        /\ batch' \subseteq Ids /\ todo' \subseteq batch' /\ current' \in batch' \cup {0}
        /\ since' \in Nat
    BY <1>1, <1>2, <1>3, <1>4 DEF Inv, TypeOK
  <2> QED
    BY <1>1, <1>6, <2>1, <2>2 DEF Inv, TypeOK
<1>8. Owners'
  BY <1>1, <1>2, AddingIsAdded DEF Inv, Owners
<1>9. AddOnce(queue)' /\ BatchInv' /\ CancelInv'
  BY <1>1, <1>2 DEF Inv, AddOnce, BatchInv, CancelInv
<1>10. ArmedInTime'
  <2>1. active' # {} => timers' # {}
    BY <1>5 DEF SameTimers
  <2> QED
    BY <1>1, <1>6, <2>1 DEF ArmedInTime, Armed
<1> QED
  BY <1>1, <1>5, <1>7, <1>8, <1>9, <1>10 DEF Inv

\* handleExpired: without an expired timer steadyTimer_ is armed again, else the expired
\* ones leave the sets for the batch.
LEMMA ExpiredFacts ==
  ASSUME Inv, current = 0, handleExpired
  PROVE  /\ SameTimers' /\ timers' \subseteq timers /\ active' \subseteq active
         /\ expiration' = expiration /\ canceling' = {} /\ since' \in Nat
         /\ batch' = active \ active' /\ todo' \subseteq batch' /\ current' \in batch' \cup {0}
         /\ current' = 0 => batch' = {}
         /\ waiting' \in {"yes", "no"} /\ deadline' \in Nat
         /\ active' # {} /\ current' = 0 => Armed(timers', waiting', deadline')
<1> USE Shape
<1>1. batch = {} /\ todo = {} /\ since \in Nat /\ waiting \in {"yes", "no"} /\ deadline \in Nat
  BY DEF Inv, TypeOK, BatchInv
<1>2. CASE /\ Expired = {} /\ canceling' = {}
           /\ IF timers = {} THEN UNCHANGED armVars ELSE resetTimer(Earliest(timers))
           /\ UNCHANGED <<setVars, batchVars>>
  <2>1. UNCHANGED <<timers, active, expiration, batch, todo, current, since>>
    BY <1>2 DEF setVars, batchVars
  <2>2. CASE timers = {}
    <3>1. waiting' = waiting /\ deadline' = deadline /\ active = {}
      BY <1>2, <2>2 DEF armVars
    <3> QED
      BY <1>1, <1>2, <2>1, <3>1 DEF Inv, SameTimers, Entry
  <2>3. CASE timers # {}
    <3>1. Earliest(timers) \in Nat /\ resetTimer(Earliest(timers))
      BY <1>2, <2>3, EarliestFacts
    <3>2. waiting' = "yes" /\ deadline' \in Nat /\ (deadline' <= Earliest(timers) \/ deadline' <= now)
      BY <3>1, ResetFacts
    <3>3. SameTimers'
      BY <2>1 DEF Inv, SameTimers, Entry
    <3> QED
      BY <1>1, <1>2, <2>1, <3>2, <3>3 DEF Armed
  <2> QED
    BY <2>2, <2>3
<1>3. CASE Expired # {}
  <2>1. /\ timers' = timers \ Expired /\ active' = active \ {e.id : e \in Expired}
        /\ batch' = {e.id : e \in Expired} /\ since' = now /\ canceling' = {}
        /\ current' \in batch' /\ todo' = batch' \ {current'}
        /\ UNCHANGED <<expiration, waiting, deadline>>
    BY <1>3 DEF handleExpired, First, armVars
  <2>2. {e.id : e \in Expired} \subseteq active
    BY DEF Expired
  <2>3. timers' = {Entry(expiration[i], i) : i \in active'}
    <3>1. \A i \in active : Entry(expiration[i], i) \in timers /\ Entry(expiration[i], i).id = i
      BY DEF Inv, SameTimers, Entry
    <3>2. \A e \in timers : e = Entry(expiration[e.id], e.id)
      BY DEF Inv, SameTimers, Entry
    <3>3. \A e \in timers' : e.id \in active' /\ e = Entry(expiration[e.id], e.id)
      <4>1. \A e, x \in timers : e.id = x.id => e = x
        BY <3>2
      <4>2. \A e \in timers' : e \in timers /\ e \notin Expired /\ e.id \in active
        BY <2>1
      <4>3. \A e \in timers' : e.id \notin {x.id : x \in Expired}
        BY <4>1, <4>2 DEF Expired
      <4> QED
        BY <2>1, <3>2, <4>2, <4>3
    <3>4. \A i \in active' : Entry(expiration[i], i) \in timers'
      BY <2>1, <3>1
    <3> QED
      BY <3>3, <3>4
  <2>4. SameTimers'
    BY <2>1, <2>3 DEF SameTimers
  <2>5. current' # 0
    BY <2>1, <2>2 DEF Ids
  <2> QED
    BY <1>1, <2>1, <2>2, <2>4, <2>5
<1> QED
  BY <1>2, <1>3 DEF handleExpired

\* The loop runs the handler at the head of its queue: one of the three.
LEMMA RunPostedPreserves == Inv /\ RunPosted => Inv'
<1> SUFFICES ASSUME Inv, RunPosted PROVE Inv'
  OBVIOUS
<1> DEFINE h == Head(queue)
           id == h.id
<1>1. /\ current = 0 /\ queue # <<>> /\ queue' = Tail(queue)
      /\ UNCHANGED <<now, created, interval, known, returning, asked>>
      /\ \/ /\ h.run = "add" /\ addTimerInThisThread(id, expiration[id])
            /\ UNCHANGED <<batch, todo, current, since, canceling, freed, cancelled>>
         \/ /\ h.run = "cancel" /\ Cancel(id)
            /\ UNCHANGED <<expiration, waiting, deadline, batch, todo, current, since>>
         \/ h.run = "expired" /\ handleExpired /\ UNCHANGED <<freed, cancelled>>
  BY DEF RunPosted, userVars, batchVars, armVars
<1>2. /\ queue' \in Seq(Tasks) /\ h \in Tasks /\ AddOnce(queue')
      /\ h.run = "add" => id \in Added(queue) /\ Added(queue') = Added(queue) \ {id}
      /\ h.run # "add" => Added(queue') = Added(queue)
      /\ h.run # "expired" /\ Wakes(queue) => Wakes(queue')
  BY <1>1, Shape, TailFacts DEF Inv
<1> HIDE DEF h, id
<1>3. batch = {} /\ todo = {}
  BY <1>1 DEF Inv, TypeOK, BatchInv
<1>4. CASE /\ h.run = "add" /\ addTimerInThisThread(id, expiration[id])
           /\ UNCHANGED <<batch, todo, current, since, canceling, freed, cancelled>>
  <2>1. id \in Added(queue) /\ id \in Ids /\ id \notin active /\ id \notin freed
    BY <1>2, <1>4, Shape DEF Inv, Owners
  <2>2. expiration[id] \in Nat
    BY <2>1 DEF Inv, TypeOK
  <2>3. /\ SameTimers' /\ active' = active \cup {id} /\ timers' # {}
        /\ timers' \subseteq [when : Nat, id : Ids] /\ expiration' \in [Ids -> Nat]
        /\ waiting' \in {"yes", "no"} /\ deadline' \in Nat
        /\ current = 0 => Armed(timers', waiting', deadline') \/ Wakes(queue)
    BY <1>4, <2>1, <2>2, InsertFacts
  <2>4. TypeOK'
    BY <1>1, <1>2, <1>4, <2>1, <2>3 DEF Inv, TypeOK, Tasks
  <2>5. Owners'
    BY <1>1, <1>2, <1>3, <1>4, <2>1, <2>3, AddingIsAdded DEF Inv, Owners
  <2>6. BatchInv' /\ CancelInv'
    BY <1>4 DEF Inv, BatchInv, CancelInv
  <2>7. ArmedInTime'
    BY <1>1, <1>2, <1>4, <2>3 DEF ArmedInTime, Armed, Wakes
  <2> QED
    BY <1>2, <2>3, <2>4, <2>5, <2>6, <2>7 DEF Inv
<1>5. CASE /\ h.run = "cancel" /\ Cancel(id)
           /\ UNCHANGED <<expiration, waiting, deadline, batch, todo, current, since>>
  <2>1. /\ SameTimers' /\ timers' \subseteq timers /\ active' = active \ {id}
        /\ freed' = freed \cup (active \cap {id})
        /\ canceling' = canceling
        /\ cancelled' \subseteq freed' \cup (batch \cap canceling')
        /\ cancelled' \subseteq cancelled \cup active \cup batch
        /\ active' # {} /\ current = 0 => Armed(timers', waiting, deadline) \/ Wakes(queue)
    BY <1>1, <1>5, CancelFacts
  <2>2. TypeOK'
    BY <1>1, <1>2, <1>5, <2>1 DEF Inv, TypeOK, Tasks
  <2>3. Owners'
    BY <1>1, <1>2, <1>3, <1>5, <2>1, AddingIsAdded DEF Inv, Owners
  <2>4. BatchInv' /\ CancelInv'
    BY <1>5, <2>1 DEF Inv, BatchInv, CancelInv
  <2>5. ArmedInTime'
    BY <1>1, <1>2, <1>5, <2>1 DEF ArmedInTime, Armed, Wakes
  <2> QED
    BY <1>2, <2>1, <2>2, <2>3, <2>4, <2>5 DEF Inv
<1>6. CASE h.run = "expired" /\ handleExpired /\ UNCHANGED <<freed, cancelled>>
  <2>1. /\ SameTimers' /\ timers' \subseteq timers /\ active' \subseteq active
        /\ expiration' = expiration /\ canceling' = {} /\ since' \in Nat
        /\ batch' = active \ active' /\ todo' \subseteq batch' /\ current' \in batch' \cup {0}
        /\ current' = 0 => batch' = {}
        /\ waiting' \in {"yes", "no"} /\ deadline' \in Nat
        /\ active' # {} /\ current' = 0 => Armed(timers', waiting', deadline')
    BY <1>1, <1>6, ExpiredFacts
  <2>2. TypeOK'
    BY <1>1, <1>2, <1>6, <2>1 DEF Inv, TypeOK, Tasks
  <2>3. Owners'
    BY <1>1, <1>2, <1>3, <1>6, <2>1, AddingIsAdded DEF Inv, Owners
  <2>4. BatchInv' /\ CancelInv'
    BY <1>3, <1>6, <2>1 DEF Inv, BatchInv, CancelInv
  <2>5. ArmedInTime'
    BY <1>1, <2>1 DEF ArmedInTime, Armed
  <2> QED
    BY <1>2, <2>1, <2>2, <2>3, <2>4, <2>5 DEF Inv
<1> QED
  BY <1>1, <1>4, <1>5, <1>6

\* The clock goes on: a wait that was over stays over.
LEMMA TickPreserves == Inv /\ Tick => Inv'
<1> SUFFICES ASSUME Inv, Tick PROVE Inv'
  OBVIOUS
<1>1. /\ now < MaxTime /\ now' = now + 1
      /\ UNCHANGED <<timers, active, expiration, waiting, deadline, batch, todo, current, since,
                     created, interval, known, returning, asked, queue, canceling, freed, cancelled>>
  BY DEF Tick, setVars, armVars, batchVars, userVars
<1>2. TypeOK'
  BY <1>1, BoundsAssumption DEF Inv, TypeOK
<1>3. SameTimers' /\ Owners' /\ AddOnce(queue)' /\ BatchInv' /\ CancelInv'
  BY <1>1, AddingIsAdded DEF Inv, SameTimers, Entry, Owners, AddOnce, BatchInv, CancelInv
<1>4. ArmedInTime'
  <2>1. deadline <= now => deadline' <= now'
    BY <1>1, Shape DEF Inv, TypeOK
  <2>2. Earliest(timers') = Earliest(timers)
    BY <1>1
  <2> QED
    BY <1>1, <2>1, <2>2 DEF Inv, ArmedInTime
<1> QED
  BY <1>2, <1>3, <1>4 DEF Inv

-----------------------------------------------------------------------------
(* The theorems.                                                            *)

\* No timer has been created at first.
LEMMA InitInv == Init => Inv
<1> SUFFICES ASSUME Init PROVE Inv
  OBVIOUS
<1>1. TypeOK
  BY BoundsAssumption DEF Init, TypeOK
<1>2. Adding = {} /\ AddOnce(queue)
  BY DEF Init, Adding, AddOnce
<1>3. SameTimers /\ Owners
  BY <1>2 DEF Init, SameTimers, Owners
<1> QED
  BY <1>1, <1>2, <1>3 DEF Init, Inv, BatchInv, CancelInv, ArmedInTime

\* Every step keeps the invariants: one case for each action of Next.
LEMMA NextInv == Inv /\ [Next]_vars => Inv'
<1> SUFFICES ASSUME Inv, [Next]_vars PROVE Inv'
  OBVIOUS
<1>1. CASE addTimer
  BY <1>1, AddTimerPreserves
<1>2. CASE addTimerFromThread
  BY <1>2, AddFromThreadPreserves
<1>3. CASE returnTimerId
  BY <1>3, ReturnPreserves
<1>4. CASE cancel
  BY <1>4, CancelPreserves
<1>5. CASE cancelFromThread
  BY <1>5, CancelFromThreadPreserves
<1>6. CASE WaitEnds
  BY <1>6, WaitEndsPreserves
<1>7. CASE RunPosted
  BY <1>7, RunPostedPreserves
<1>8. CASE nextCallback
  BY <1>8, NextCallbackPreserves
<1>9. CASE lastCallback
  BY <1>9, LastCallbackPreserves
<1>10. CASE Tick
  BY <1>10, TickPreserves
<1>11. CASE UNCHANGED vars
  <2>1. UNCHANGED <<now, timers, active, expiration, waiting, deadline, batch, todo, current, since,
                    created, interval, known, returning, asked, queue, canceling, freed, cancelled>>
    BY <1>11 DEF vars, setVars, armVars, batchVars, userVars
  <2>2. TypeOK' /\ SameTimers' /\ Owners' /\ AddOnce(queue)'
    BY <2>1, AddingIsAdded DEF Inv, TypeOK, SameTimers, Entry, Owners, AddOnce
  <2>3. BatchInv' /\ CancelInv' /\ ArmedInTime'
    BY <2>1 DEF Inv, BatchInv, CancelInv, ArmedInTime
  <2> QED
    BY <2>2, <2>3 DEF Inv
<1> QED
  BY <1>1, <1>2, <1>3, <1>4, <1>5, <1>6, <1>7, <1>8, <1>9, <1>10, <1>11 DEF Next

\* The invariants hold in every reachable state.
THEOREM InvHolds == Spec => []Inv
BY InitInv, NextInv, PTL DEF Spec

\* Every variable keeps to its type.
THEOREM TypeCorrect == Spec => []TypeOK
<1>1. Inv => TypeOK
  BY DEF Inv
<1> QED
  BY <1>1, InvHolds, PTL

\* The sizes of disjoint sets add up.
LEMMA DisjointUnion ==
  ASSUME NEW S, IsFiniteSet(S), NEW T, IsFiniteSet(T), S \cap T = {}
  PROVE  Cardinality(S \cup T) = Cardinality(S) + Cardinality(T)
<1>1. Cardinality(S \cup T) = Cardinality(S) + Cardinality(T) - Cardinality(S \cap T)
  BY FS_Union
<1>2. Cardinality(S \cap T) = 0
  BY FS_EmptySet
<1>3. Cardinality(S) \in Nat /\ Cardinality(T) \in Nat
  BY FS_CardinalityType
<1> QED
  BY <1>1, <1>2, <1>3

\* The two sets hold the same timers, and the numbers of Timers in the four places add up
\* to those created, so none is leaked or deleted twice (insert, cancelInThisThread, reset).
THEOREM OneOwner == Spec => []OneOwnerInBothSets
<1>1. Inv => OneOwnerInBothSets
  <2> SUFFICES ASSUME Inv PROVE OwnedOnce
    BY DEF Inv, OneOwnerInBothSets
  <2> DEFINE A == Adding \cup active
             B == batch \cup freed
  <2>1. /\ IsFiniteSet(1..created) /\ Cardinality(1..created) = created
        /\ 1..created = A \cup B /\ A \cap B = {}
        /\ Adding \cap active = {} /\ batch \cap freed = {}
    <3>1. created \in Nat
      BY Shape
    <3>2. IsFiniteSet(1..created) /\ Cardinality(1..created) = created
      BY <3>1, FS_Interval
    <3>3. /\ 1..created = A \cup B /\ A \cap B = {}
          /\ Adding \cap active = {} /\ batch \cap freed = {}
      BY DEF Inv, Owners
    <3> QED
      BY <3>2, <3>3
  <2>2. \A S \in SUBSET (1..created) : IsFiniteSet(S) /\ Cardinality(S) \in Nat
    BY <2>1, FS_Subset, FS_CardinalityType
  <2>3. /\ IsFiniteSet(A) /\ IsFiniteSet(B) /\ IsFiniteSet(Adding) /\ IsFiniteSet(active)
        /\ IsFiniteSet(batch) /\ IsFiniteSet(freed)
        /\ Cardinality(Adding) \in Nat /\ Cardinality(active) \in Nat
        /\ Cardinality(batch) \in Nat /\ Cardinality(freed) \in Nat
    BY <2>1, <2>2
  <2>4. Cardinality(A) = Cardinality(Adding) + Cardinality(active)
    BY <2>1, <2>3, DisjointUnion
  <2>5. Cardinality(B) = Cardinality(batch) + Cardinality(freed)
    BY <2>1, <2>3, DisjointUnion
  <2> HIDE DEF A, B
  <2>6. Cardinality(1..created) = Cardinality(A) + Cardinality(B)
    BY <2>1, <2>3, DisjointUnion
  <2>7. 1..created = UNION {Adding, active, batch, freed}
    BY DEF Inv, Owners
  <2> QED
    BY <2>1, <2>3, <2>4, <2>5, <2>6, <2>7 DEF OwnedOnce
<1> QED
  BY <1>1, InvHolds, PTL

\* Between two handlers steadyTimer_ is armed for the earliest timer, or its handler is
\* queued (resetTimer, insert, reset).
THEOREM NoTimerForgotten == Spec => []ArmedInTime
<1>1. Inv => ArmedInTime
  BY DEF Inv
<1> QED
  BY <1>1, InvHolds, PTL

\* A cancelled timer is deleted once the callbacks that were due with it have run
\* (cancelInThisThread, reset).
THEOREM CancelIsFinal == Spec => []CancelledIsGone
<1>1. Inv => CancelledIsGone
  BY DEF Inv, CancelledIsGone, CancelInv, BatchInv
<1> QED
  BY <1>1, InvHolds, PTL
=============================================================================
