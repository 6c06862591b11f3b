----------------------------- MODULE TimerWheel -----------------------------
(***************************************************************************)
(* TimerWheel: slots of doubly linked TimerEvents and a position that      *)
(* tick() moves by one slot.                                               *)
(*                                                                         *)
(* With a mutex (isThreadSave) a call is a critical section, so the wheel  *)
(* is used between two ticks; a callback that calls the wheel locks the    *)
(* mutex its own tick() holds.  Without one the wheel belongs to a single  *)
(* thread, and callbacks may call it.  tick() is one step per event, and   *)
(* a callback is the time between two steps.                               *)
(***************************************************************************)
EXTENDS Integers, FiniteSets

CONSTANTS
  slotsNum,
  MaxTimers,  \* bound: events that exist at a time
  Timeouts    \* the timeouts given to addTimer

ASSUME WheelAssumption ==
  /\ slotsNum \in Nat \ {0} /\ MaxTimers \in Nat /\ Timeouts \subseteq Nat

VARIABLES
  isThreadSave,   \* "yes" with a mutex
  currentSlotPos,
  slots,          \* the head of each slot's list
  pNext, pPrev,   \* the links of each event
  rotation, timerSlot,
  tie,            \* "none", "object" for a tied object that lives, "gone"
  live,           \* events allocated
  named,          \* events the program has a CancelId of, deleted ones too
  phase,          \* "idle", "tick", "callback", "dying" in ~TimerWheel, "gone"
  timerEvent,     \* the local of tickUnlock
  passed,         \* events of this tick's slot it will not meet any more
  failed          \* the undefined behaviour that ended the run, or "none"

links == <<slots, pNext, pPrev>>
event == <<rotation, timerSlot, tie>>
vars == <<isThreadSave, currentSlotPos, links, event, live, named, phase, timerEvent, passed, failed>>

nullptr == 0
Timers == 1..MaxTimers
Slots == 0..(slotsNum - 1)
Fails(how) == failed' = how /\ UNCHANGED <<links, event, live, named, phase, timerEvent, passed>>

-----------------------------------------------------------------------------
\* The constructor does not set currentSlotPos_; slotsNum stands for every value that is
\* no slot.
Init ==
  /\ isThreadSave \in {"yes", "no"} /\ currentSlotPos \in 0..slotsNum
  /\ slots = [i \in Slots |-> nullptr]
  /\ pNext = [t \in Timers |-> nullptr] /\ pPrev = pNext
  /\ rotation = [t \in Timers |-> 0] /\ timerSlot = [t \in Timers |-> 0]
  /\ tie = [t \in Timers |-> "none"]
  /\ live = {} /\ named = {} /\ passed = {}
  /\ phase = "idle" /\ timerEvent = nullptr /\ failed = "none"

\* A call to the wheel can be made: between ticks, or by a callback.
Callable == failed = "none" /\ phase \in {"idle", "callback"}
Relocks == isThreadSave = "yes" /\ phase = "callback"

-----------------------------------------------------------------------------
Ticks(timeout) == IF timeout < 1 THEN 1 ELSE timeout

\* Faulty: starts to count in the next slot.
posNext(tick) == (currentSlotPos + 1 + tick) % slotsNum

pos(tick) == (currentSlotPos + (tick % slotsNum)) % slotsNum

addTimerUnlock(t, timeout) ==
  LET tick == Ticks(timeout)
      p == pos(tick) IN
  /\ rotation' = [rotation EXCEPT ![t] = tick \div slotsNum]
  /\ timerSlot' = [timerSlot EXCEPT ![t] = p]
  /\ pNext' = [pNext EXCEPT ![t] = slots[p]]
  /\ pPrev' = [u \in Timers |->
       IF u = t THEN nullptr ELSE IF u = slots[p] THEN t ELSE pPrev[u]]
  /\ slots' = [slots EXCEPT ![p] = t]
  /\ live' = live \cup {t} /\ named' = named \cup {t}
  /\ passed' = IF phase = "callback" /\ p = currentSlotPos THEN passed \cup {t} ELSE passed

addTimer == \E t \in Timers \ live, timeout \in Timeouts :
  /\ Callable
  /\ \/ Relocks /\ Fails("relock")
     \/ /\ ~Relocks /\ addTimerUnlock(t, timeout)
        /\ \E tied \in {"none", "object"} : tie' = [tie EXCEPT ![t] = tied]
        /\ UNCHANGED <<phase, timerEvent, failed>>
  /\ UNCHANGED <<isThreadSave, currentSlotPos>>

\* Faulty: does not set the pPrev_ of the event behind.
unlinkForward(t, p) ==
  LET first == t = slots[p] IN
  /\ slots' = IF first THEN [slots EXCEPT ![p] = pNext[t]] ELSE slots
  /\ pNext' = [u \in Timers |->
       IF u = t THEN nullptr ELSE IF ~first /\ u = pPrev[t] THEN pNext[t] ELSE pNext[u]]
  /\ pPrev' = [pPrev EXCEPT ![t] = nullptr]

\* Takes t out of the list of slot p; an event that is deleted has no links.
unlink(t, p) ==
  LET first == t = slots[p] IN
  /\ slots' = IF first THEN [slots EXCEPT ![p] = pNext[t]] ELSE slots
  /\ pNext' = [u \in Timers |->
       IF u = t THEN nullptr ELSE IF ~first /\ u = pPrev[t] THEN pNext[t] ELSE pNext[u]]
  /\ pPrev' = [u \in Timers |->
       CASE u = t -> nullptr
         [] u = pNext[t] -> IF first THEN nullptr ELSE pPrev[t]
         [] OTHER -> pPrev[u]]

\* delete.
Delete(t) ==
  /\ live' = live \ {t} /\ passed' = passed \ {t}
  /\ rotation' = [rotation EXCEPT ![t] = 0] /\ timerSlot' = [timerSlot EXCEPT ![t] = 0]
  /\ tie' = [tie EXCEPT ![t] = "none"]

\* The unlinking of an event that is not the head goes through its pPrev_, which could be
\* null or dangling.
ReadsPrev(t, p) ==
  failed' = IF t # slots[p] /\ pPrev[t] \notin live THEN "badPrev" ELSE failed

\* sequence_ is not compared: what counts is whether an event exists at the address, and
\* whether tick() still needs it.
cencelUnlock(t) ==
  LET unusable == t \notin live \/ (phase = "callback" /\ t = timerEvent) IN
  \/ unusable /\ Fails("deletedEvent")
  \/ /\ ~unusable
     /\ unlink(t, timerSlot[t]) /\ Delete(t) /\ ReadsPrev(t, timerSlot[t])
     /\ UNCHANGED <<named, phase, timerEvent>>

cencel == \E t \in named :
  /\ Callable
  /\ (Relocks /\ Fails("relock")) \/ (~Relocks /\ cencelUnlock(t))
  /\ UNCHANGED <<isThreadSave, currentSlotPos>>

-----------------------------------------------------------------------------
(* tickUnlock.                                                              *)

tick ==
  /\ failed = "none" /\ phase = "idle"
  /\ \/ currentSlotPos \notin Slots /\ Fails("badSlot")
     \/ /\ currentSlotPos \in Slots
        /\ phase' = "tick" /\ timerEvent' = slots[currentSlotPos]
        /\ UNCHANGED <<links, event, live, named, passed, failed>>
  /\ UNCHANGED <<isThreadSave, currentSlotPos>>

InTick == failed = "none" /\ phase = "tick"
Due == timerEvent # nullptr /\ rotation[timerEvent] = 0

\* Faulty: does not test the rotation.
TurnsLeftAlways ==
  /\ InTick /\ timerEvent # nullptr
  /\ rotation' = [rotation EXCEPT ![timerEvent] = @ - 1]
  /\ passed' = passed \cup {timerEvent}
  /\ timerEvent' = pNext[timerEvent]
  /\ UNCHANGED <<isThreadSave, currentSlotPos, links, timerSlot, tie, live, named, phase, failed>>

\* An event with turns to go stays where it is.
TurnsLeft ==
  /\ InTick /\ timerEvent # nullptr /\ rotation[timerEvent] > 0
  /\ rotation' = [rotation EXCEPT ![timerEvent] = @ - 1]
  /\ passed' = passed \cup {timerEvent}
  /\ timerEvent' = pNext[timerEvent]
  /\ UNCHANGED <<isThreadSave, currentSlotPos, links, timerSlot, tie, live, named, phase, failed>>

\* Unlinks and deletes timerEvent after its run().
deleteEvent ==
  /\ unlink(timerEvent, currentSlotPos) /\ Delete(timerEvent)
  /\ ReadsPrev(timerEvent, currentSlotPos)
  /\ timerEvent' = pNext[timerEvent] /\ phase' = "tick"
  /\ UNCHANGED named

\* run(): a tied object that is gone means no callback.
RunNothing ==
  /\ InTick /\ Due /\ tie[timerEvent] = "gone"
  /\ deleteEvent
  /\ UNCHANGED <<isThreadSave, currentSlotPos>>

run ==
  /\ InTick /\ Due /\ tie[timerEvent] # "gone"
  /\ phase' = "callback"
  /\ UNCHANGED <<isThreadSave, currentSlotPos, links, event, live, named, timerEvent, passed, failed>>

CallbackReturns ==
  /\ failed = "none" /\ phase = "callback"
  /\ deleteEvent
  /\ UNCHANGED <<isThreadSave, currentSlotPos>>

tickEnds ==
  /\ InTick /\ timerEvent = nullptr
  /\ currentSlotPos' = (currentSlotPos + 1) % slotsNum
  /\ phase' = "idle" /\ passed' = {}
  /\ UNCHANGED <<isThreadSave, links, event, live, named, timerEvent, failed>>

-----------------------------------------------------------------------------
(* The program around the wheel.                                            *)

\* The last shared_ptr to the object a timer is tied to goes.
ObjectDies == \E t \in live :
  /\ failed = "none" /\ tie[t] = "object"
  /\ tie' = [tie EXCEPT ![t] = "gone"]
  /\ UNCHANGED <<isThreadSave, currentSlotPos, links, rotation, timerSlot, live, named, phase,
                 timerEvent, passed, failed>>

\* ~TimerWheel empties slot after slot from the head.
destroyWheel ==
  LET Full == {i \in Slots : slots[i] # nullptr}
      i == CHOOSE k \in Full : \A j \in Full : k <= j IN
  /\ failed = "none" /\ phase \in {"idle", "dying"}
  /\ \/ Full = {} /\ phase' = "gone" /\ UNCHANGED <<slots, live>>
     \/ /\ Full # {} /\ phase' = "dying"
        /\ slots' = [slots EXCEPT ![i] = pNext[slots[i]]]
        /\ live' = live \ {slots[i]}
  /\ UNCHANGED <<isThreadSave, currentSlotPos, pNext, pPrev, event, named, timerEvent, passed, failed>>

TickSteps == tick \/ TurnsLeft \/ RunNothing \/ run \/ CallbackReturns \/ tickEnds

Next == addTimer \/ cencel \/ TickSteps \/ ObjectDies \/ destroyWheel

Spec == Init /\ [][Next]_vars

(* Somebody calls tick() again and again, callbacks return, and so does the *)
(* destructor once it was called.                                           *)
FairSpec == Spec /\ WF_vars(TickSteps) /\ WF_vars(phase = "dying" /\ destroyWheel)

-----------------------------------------------------------------------------
(* Properties.                                                              *)

\* Every variable holds a value of the member it stands for: a rotation is never negative,
\* and a tick works on a slot (tickUnlock).
TypeOK ==
  /\ isThreadSave \in {"yes", "no"}
  /\ currentSlotPos \in 0..slotsNum /\ (phase \in {"tick", "callback"} => currentSlotPos \in Slots)
  /\ slots \in [Slots -> Timers \cup {nullptr}]
  /\ pNext \in [Timers -> Timers \cup {nullptr}] /\ pPrev \in [Timers -> Timers \cup {nullptr}]
  /\ rotation \in [Timers -> Nat] /\ timerSlot \in [Timers -> Slots]
  /\ tie \in [Timers -> {"none", "object", "gone"}]
  /\ named \subseteq Timers /\ live \subseteq named /\ passed \subseteq live
  /\ phase \in {"idle", "tick", "callback", "dying", "gone"}
  /\ timerEvent \in Timers \cup {nullptr}
  /\ failed \in {"none", "relock", "deletedEvent", "badPrev", "badSlot"}

\* The lists survive every mix of adding, cancelling and running, also from inside a
\* callback: each event is either the head of its slot or behind the event its pPrev_
\* names, in the same slot, and tick() stands on an event of its slot; ~TimerWheel
\* therefore leaks none (addTimerUnlock, cencelUnlock, tickUnlock).
ListsWellFormed ==
  /\ failed # "badPrev"
  /\ phase = "gone" => live = {}
  /\ phase # "dying" => \A t \in live :
       /\ IF pPrev[t] = nullptr THEN slots[timerSlot[t]] = t
          ELSE /\ pPrev[t] \in live /\ pNext[pPrev[t]] = t
               /\ timerSlot[pPrev[t]] = timerSlot[t] /\ slots[timerSlot[t]] # t
       /\ pNext[t] # nullptr => pNext[t] \in live /\ pPrev[pNext[t]] = t
  /\ phase \in {"tick", "callback"} /\ timerEvent # nullptr =>
       timerEvent \in live \ passed /\ timerSlot[timerEvent] = currentSlotPos

Ahead(t) == (timerSlot[t] - currentSlotPos) % slotsNum

Left(t) == IF Ahead(t) = 0 /\ t \in passed THEN slotsNum * (rotation[t] + 1)
           ELSE Ahead(t) + slotsNum * rotation[t]

Service == INSTANCE Delays WITH
  Turn <- slotsNum,
  left <- [t \in Timers |-> IF t \in live THEN Left(t) ELSE -1],
  busy <- IF phase = "callback" THEN timerEvent ELSE 0

\* The wheel keeps its timers' times: every timer runs in exactly the tick its timeout
\* names, whatever its rotation and slot and whatever callbacks add or cancel, but for
\* whole turns set by a callback, which take one turn more; and every timer does run or is
\* cancelled as long as tick() is called, so no tick meets its callbacks' new timers for
\* ever (addTimerUnlock, tickUnlock).
ImplementsDelays ==
  /\ Service!Spec
  /\ \A t \in Timers : t \in live ~> (t \notin live \/ failed # "none")
=============================================================================
