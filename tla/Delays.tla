------------------------------- MODULE Delays -------------------------------
(***************************************************************************)
(* What a TimerWheel promises its users: a timer set for d ticks runs its  *)
(* callback in the tick after the next d, and at no other time.  Slots,    *)
(* rotations and the order of the callbacks of one tick do not show, but   *)
(* for one thing: a callback that sets a timer for a whole number of turns *)
(* gets it a turn late.                                                    *)
(***************************************************************************)
EXTENDS Integers

CONSTANTS
  Timers,
  Timeouts,
  Turn       \* ticks of one turn of the wheel

VARIABLES
  left,      \* ticks to go before the one that runs the timer, or Off
  busy       \* the timer whose callback is running, or Nobody

Off == -1
Nobody == 0

Ticks(timeout) == IF timeout = 0 THEN 1 ELSE timeout

Init == left = [t \in Timers |-> Off] /\ busy = Nobody

Set(t, timeout) ==
  /\ left[t] = Off
  /\ left' = [left EXCEPT ![t] =
       IF busy # Nobody /\ Ticks(timeout) % Turn = 0
       THEN Ticks(timeout) + Turn ELSE Ticks(timeout)]
  /\ UNCHANGED busy

\* Cancelled, run without a callback, or gone with the wheel.
Drop(t) == left' = [left EXCEPT ![t] = Off] /\ UNCHANGED busy

Skip(t) == left[t] = 0 /\ busy = Nobody /\ Drop(t)

Fire(t) == left[t] = 0 /\ busy = Nobody /\ busy' = t /\ UNCHANGED left

Return == left' = [left EXCEPT ![busy] = Off] /\ busy' = Nobody

\* The end of a tick: everything that was due in it has run.
Tick ==
  /\ busy = Nobody /\ \A t \in Timers : left[t] # 0
  /\ left' = [t \in Timers |-> IF left[t] = Off THEN Off ELSE left[t] - 1]
  /\ UNCHANGED busy

Next ==
  \/ \E t \in Timers :
       \/ \E timeout \in Timeouts : Set(t, timeout)
       \/ Drop(t) \/ Skip(t) \/ Fire(t)
  \/ (busy # Nobody /\ Return) \/ Tick

Spec == Init /\ [][Next]_<<left, busy>>
=============================================================================
