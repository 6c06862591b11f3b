-------------------------- MODULE TimerWheelProofs --------------------------
(***************************************************************************)
(* Proofs about TimerWheel, for any number of slots and timers and any     *)
(* timeouts.                                                               *)
(***************************************************************************)
EXTENDS TimerWheel, WellFoundedInduction, TLAPS

\* No list runs in a circle: its events can be numbered upwards.
Numbered(r) == \A t \in live : pNext[t] # nullptr => r[t] < r[pNext[t]]
Acyclic == \E r \in [Timers -> Nat] : Numbered(r)

\* An event is the head of its slot or behind a living one.
HasPlace == \A t \in live :
  slots[timerSlot[t]] = t \/ (pPrev[t] \in live /\ pNext[pPrev[t]] = t)

\* pNext_ names a living event of the same slot, which names this one.
NextInv == \A t \in live : pNext[t] # nullptr =>
  /\ pNext[t] \in live /\ pPrev[pNext[t]] = t /\ timerSlot[pNext[t]] = timerSlot[t]
  /\ slots[timerSlot[t]] # pNext[t]

\* The head of a slot is an event of that slot.
HeadInv == \A p \in Slots : slots[p] # nullptr => slots[p] \in live /\ timerSlot[slots[p]] = p

\* Before ~TimerWheel the heads are the events without a pPrev_.
Whole == phase \notin {"dying", "gone"}
PrevInv == Whole => \A t \in live : pPrev[t] = nullptr <=> slots[timerSlot[t]] = t

Lists == Acyclic /\ HasPlace /\ NextInv /\ HeadInv

\* A tick has met the first events of its slot, and stands on the next one.
Ticking == phase \in {"tick", "callback"}
Standing == timerEvent # nullptr =>
  /\ timerEvent \in live \ passed /\ timerSlot[timerEvent] = currentSlotPos
  /\ pPrev[timerEvent] = nullptr \/ pPrev[timerEvent] \in passed
PassedHere == \A t \in passed : timerSlot[t] = currentSlotPos
PassedFirst == \A t \in live : pNext[t] \in passed => t \in passed
OthersBehind == \A t \in live \ passed :
  timerSlot[t] = currentSlotPos /\ t # timerEvent => pPrev[t] \in live \ passed
Walk == Standing /\ PassedHere /\ PassedFirst /\ OthersBehind
TickInv ==
  /\ phase = "callback" => timerEvent # nullptr
  /\ IF Ticking THEN Walk ELSE passed = {}

Inv ==
  /\ TypeOK /\ Lists /\ PrevInv /\ TickInv
  /\ failed # "badPrev" /\ (phase = "gone" => live = {})

-----------------------------------------------------------------------------
(* Numbers.                                                                 *)

\* Every number names a slot.
LEMMA ModSlot ==
  ASSUME NEW k \in Int
  PROVE  k % slotsNum \in Slots
BY WheelAssumption DEF Slots

\* The number of slots from one to another.
LEMMA ModSub ==
  ASSUME NEW a \in Slots, NEW c \in Slots
  PROVE  (a - c) % slotsNum = IF a >= c THEN a - c ELSE a - c + slotsNum
BY WheelAssumption, Z3 DEF Slots

\* A number is its turns and the rest.
LEMMA DivMod ==
  ASSUME NEW k \in Nat
  PROVE  /\ k \div slotsNum \in Nat
         /\ k = slotsNum * (k \div slotsNum) + (k % slotsNum)
BY WheelAssumption, Z3

\* Among events that are numbered one has the lowest number.
Less == {n \in Nat \X Nat : n[1] < n[2]}

LEMMA Lowest ==
  ASSUME NEW S, S # {}, S \subseteq Timers, NEW r \in [Timers -> Nat]
  PROVE  \E t \in S : \A u \in S : ~(r[u] < r[t])
<1> DEFINE N == {r[t] : t \in S}
<1>1. N \subseteq Nat /\ N # {}
  OBVIOUS
<1>2. IsWellFoundedOn(Less, Nat)
  BY NatLessThanWellFounded DEF OpToRel, Less
<1>3. PICK m \in N : \A n \in N : <<n, m>> \notin Less
  BY <1>1, <1>2, WFMin
<1>4. PICK t \in S : m = r[t]
  OBVIOUS
<1>5. ASSUME NEW u \in S, r[u] < r[t] PROVE FALSE
  <2>1. r[u] \in N /\ <<r[u], m>> \in Nat \X Nat /\ <<r[u], m>>[1] = r[u] /\ <<r[u], m>>[2] = m
    BY <1>1, <1>4
  <2> QED
    BY <1>3, <1>4, <1>5, <2>1 DEF Less
<1> QED
  BY <1>5

-----------------------------------------------------------------------------
(* The lists.                                                               *)

\* t is taken out: what pointed to it points past it.
Bypassed(t) ==
  /\ live' = live \ {t}
  /\ \A u \in live \ {t} :
       /\ timerSlot'[u] = timerSlot[u] /\ rotation'[u] = rotation[u]
       /\ pNext'[u] = IF pNext[u] = t THEN pNext[t] ELSE pNext[u]
       /\ pPrev'[u] = IF pPrev[u] = t THEN pPrev[t] ELSE pPrev[u]
  /\ \A q \in Slots : slots'[q] = IF slots[q] = t THEN pNext[t] ELSE slots[q]

\* unlink does that to whole lists, and reads no pPrev_ that is not there.
LEMMA UnlinkBypasses ==
  ASSUME TypeOK, Lists, Whole, PrevInv, NEW t \in live,
         unlink(t, timerSlot[t]), Delete(t)
  PROVE  /\ Bypassed(t)
         /\ slots[timerSlot[t]] = t \/ pPrev[t] \in live
<1> DEFINE first == t = slots[timerSlot[t]]
<1>1. /\ live \subseteq Timers /\ 0 \notin Timers /\ nullptr = 0
      /\ slots \in [Slots -> Timers \cup {nullptr}]
      /\ pNext \in [Timers -> Timers \cup {nullptr}] /\ pPrev \in [Timers -> Timers \cup {nullptr}]
      /\ rotation \in [Timers -> Nat] /\ timerSlot \in [Timers -> Slots]
  BY DEF TypeOK, Timers, nullptr
<1>2. \A u \in live : pPrev[u] = nullptr <=> slots[timerSlot[u]] = u
  BY DEF PrevInv
<1>3. ~first => pPrev[t] \in live /\ pNext[pPrev[t]] = t
  BY DEF Lists, HasPlace
<1>4. live' = live \ {t} /\ \A u \in live \ {t} :
        timerSlot'[u] = timerSlot[u] /\ rotation'[u] = rotation[u]
  BY <1>1 DEF Delete
<1>5. ASSUME NEW u \in live \ {t}
      PROVE  pNext'[u] = IF pNext[u] = t THEN pNext[t] ELSE pNext[u]
  <2>1. pNext'[u] = IF ~first /\ u = pPrev[t] THEN pNext[t] ELSE pNext[u]
    BY <1>1 DEF unlink
  <2>2. pNext[u] = t => ~first /\ u = pPrev[t]
    BY <1>1 DEF Lists, NextInv
  <2> QED
    BY <2>1, <2>2, <1>3
<1>6. ASSUME NEW u \in live \ {t}
      PROVE  pPrev'[u] = IF pPrev[u] = t THEN pPrev[t] ELSE pPrev[u]
  <2>1. pPrev'[u] = IF u = pNext[t] THEN IF first THEN nullptr ELSE pPrev[t] ELSE pPrev[u]
    BY <1>1 DEF unlink
  <2>2. u = pNext[t] => pPrev[u] = t
    BY <1>1 DEF Lists, NextInv
  <2>3. pPrev[u] = t => u = pNext[t]
    BY <1>1, <1>2 DEF Lists, HasPlace
  <2>4. first => pPrev[t] = nullptr
    BY <1>2
  <2> QED
    BY <2>1, <2>2, <2>3, <2>4
<1>7. ASSUME NEW q \in Slots
      PROVE  slots'[q] = IF slots[q] = t THEN pNext[t] ELSE slots[q]
  <2>1. slots[q] = t => q = timerSlot[t]
    BY <1>1 DEF Lists, HeadInv
  <2>2. slots' = IF first THEN [slots EXCEPT ![timerSlot[t]] = pNext[t]] ELSE slots
    BY DEF unlink
  <2> QED
    BY <1>1, <2>1, <2>2
<1> QED
  BY <1>3, <1>4, <1>5, <1>6, <1>7 DEF Bypassed

\* Lists without t are lists.
LEMMA BypassedLists ==
  ASSUME TypeOK, Lists, Whole, PrevInv, NEW t \in live, Bypassed(t)
  PROVE  /\ Lists'
         /\ \A u \in live' : pPrev'[u] = nullptr <=> slots'[timerSlot'[u]] = u
<1>1. /\ live \subseteq Timers /\ nullptr \notin Timers
      /\ slots \in [Slots -> Timers \cup {nullptr}]
      /\ pNext \in [Timers -> Timers \cup {nullptr}] /\ pPrev \in [Timers -> Timers \cup {nullptr}]
      /\ timerSlot \in [Timers -> Slots]
  BY DEF TypeOK, Timers, nullptr
<1>2. \A u \in live : pPrev[u] = nullptr <=> slots[timerSlot[u]] = u
  BY DEF PrevInv
<1>3. \A u \in live : pNext[u] # nullptr =>
        /\ pNext[u] \in live /\ pPrev[pNext[u]] = u /\ timerSlot[pNext[u]] = timerSlot[u]
        /\ slots[timerSlot[u]] # pNext[u]
  BY DEF Lists, NextInv
<1>4. \A u \in live : slots[timerSlot[u]] = u \/ (pPrev[u] \in live /\ pNext[pPrev[u]] = u)
  BY DEF Lists, HasPlace
<1>5. PICK r \in [Timers -> Nat] : Numbered(r)
  BY DEF Lists, Acyclic
<1>6. \A u \in live : pNext[u] # u
  BY <1>1, <1>5 DEF Numbered
<1>7. \A q \in Slots : slots[q] # nullptr => slots[q] \in live /\ timerSlot[slots[q]] = q
  BY DEF Lists, HeadInv
<1>8. /\ live' = live \ {t}
      /\ \A u \in live' :
           /\ timerSlot'[u] = timerSlot[u] /\ timerSlot[u] \in Slots
           /\ pNext'[u] = IF pNext[u] = t THEN pNext[t] ELSE pNext[u]
           /\ pPrev'[u] = IF pPrev[u] = t THEN pPrev[t] ELSE pPrev[u]
      /\ \A q \in Slots : slots'[q] = IF slots[q] = t THEN pNext[t] ELSE slots[q]
  BY <1>1 DEF Bypassed
<1>9. Acyclic'
  <2>1. ASSUME NEW u \in live', pNext'[u] # nullptr PROVE r[u] < r[pNext'[u]]
    <3>1. pNext[u] # nullptr /\ r[u] < r[pNext[u]]
      BY <2>1, <1>1, <1>5, <1>8 DEF Numbered
    <3>2. CASE pNext[u] = t
      <4>1. pNext'[u] = pNext[t] /\ pNext[t] # nullptr /\ pNext[t] \in Timers
        BY <2>1, <3>2, <1>1, <1>8
      <4>2. r[t] < r[pNext[t]]
        BY <4>1, <1>5 DEF Numbered
      <4>3. r[u] \in Nat /\ r[t] \in Nat /\ r[pNext[t]] \in Nat
        BY <4>1, <1>1, <1>8
      <4> QED
        BY <3>1, <3>2, <4>1, <4>2, <4>3
    <3> QED
      BY <3>1, <3>2, <1>8
  <2> QED
    BY <2>1, Zenon DEF Acyclic, Numbered, Timers, nullptr
<1>10. NextInv'
  <2> SUFFICES ASSUME NEW u \in live', pNext'[u] # nullptr
               PROVE  /\ pNext'[u] \in live' /\ pPrev'[pNext'[u]] = u
                      /\ timerSlot'[pNext'[u]] = timerSlot'[u]
                      /\ slots'[timerSlot'[u]] # pNext'[u]
    BY DEF NextInv, nullptr
  <2>1. CASE pNext[u] = t
    <3>1. pNext'[u] = pNext[t] /\ pNext[t] \in live' /\ pPrev[t] = u /\ timerSlot[t] = timerSlot[u]
      BY <2>1, <1>1, <1>3, <1>6, <1>8
    <3>2. pPrev[pNext[t]] = t /\ timerSlot[pNext[t]] = timerSlot[t]
      BY <3>1, <1>1, <1>3, <1>8
    <3>3. slots[timerSlot[t]] # t
      BY <3>1, <1>1, <1>2, <1>8
    <3>4. slots[timerSlot[t]] # pNext[t]
      BY <3>1, <1>1, <1>3, <1>8
    <3> QED
      BY <3>1, <3>2, <3>3, <3>4, <1>8
  <2>2. CASE pNext[u] # t
    <3>1. pNext'[u] = pNext[u] /\ pNext[u] \in live' /\ pPrev[pNext[u]] = u
          /\ timerSlot[pNext[u]] = timerSlot[u] /\ slots[timerSlot[u]] # pNext[u]
      BY <2>2, <1>3, <1>8
    <3>2. slots[timerSlot[u]] = t => pNext[t] # pNext[u]
      BY <3>1, <1>3, <1>8
    <3> QED
      BY <3>1, <3>2, <1>8
  <2> QED
    BY <2>1, <2>2
<1>11. HeadInv'
  <2> SUFFICES ASSUME NEW q \in Slots, slots'[q] # nullptr
               PROVE  slots'[q] \in live' /\ timerSlot'[slots'[q]] = q
    BY DEF HeadInv, nullptr, Slots
  <2>1. CASE slots[q] = t
    BY <2>1, <1>1, <1>3, <1>6, <1>7, <1>8
  <2>2. CASE slots[q] # t
    BY <2>2, <1>7, <1>8
  <2> QED
    BY <2>1, <2>2
<1>12. ASSUME NEW u \in live'
       PROVE  /\ slots'[timerSlot'[u]] = u \/ (pPrev'[u] \in live' /\ pNext'[pPrev'[u]] = u)
              /\ pPrev'[u] = nullptr <=> slots'[timerSlot'[u]] = u
  <2>1. CASE pPrev[u] = t
    <3>1. pPrev'[u] = pPrev[t] /\ pNext[t] = u /\ timerSlot[t] = timerSlot[u] /\ slots[timerSlot[u]] # u
      BY <2>1, <1>1, <1>2, <1>3, <1>4, <1>8
    <3>2. CASE slots[timerSlot[t]] = t
      BY <3>1, <3>2, <1>1, <1>2, <1>8
    <3>3. CASE slots[timerSlot[t]] # t
      <4>1. pPrev[t] \in live /\ pNext[pPrev[t]] = t /\ pPrev[t] # t
        BY <3>3, <1>4, <1>6
      <4> QED
        BY <3>1, <3>3, <4>1, <1>1, <1>8
    <3> QED
      BY <3>2, <3>3
  <2>2. CASE pPrev[u] # t
    <3>1. slots[timerSlot[u]] = t => pNext[t] # u
      BY <2>2, <1>1, <1>3, <1>8
    <3>2. pPrev'[u] = pPrev[u] /\ (slots'[timerSlot'[u]] = u <=> slots[timerSlot[u]] = u)
      BY <2>2, <3>1, <1>8
    <3>3. CASE slots[timerSlot[u]] = u
      BY <3>2, <3>3, <1>2, <1>8
    <3>4. CASE slots[timerSlot[u]] # u
      <4>1. pPrev[u] \in live /\ pNext[pPrev[u]] = u /\ u # t
        BY <3>4, <1>4, <1>8
      <4> QED
        BY <2>2, <3>2, <3>4, <4>1, <1>1, <1>8
    <3> QED
      BY <3>3, <3>4
  <2> QED
    BY <2>1, <2>2
<1> QED
  BY <1>9, <1>10, <1>11, <1>12 DEF Lists, HasPlace, nullptr

\* t is put in front of the list of slot p.
Pushed(t, p) ==
  /\ live' = live \cup {t}
  /\ timerSlot' = [timerSlot EXCEPT ![t] = p]
  /\ \A u \in live : rotation'[u] = rotation[u]
  /\ slots' = [slots EXCEPT ![p] = t]
  /\ pNext' = [pNext EXCEPT ![t] = slots[p]]
  /\ pPrev'[t] = nullptr /\ \A u \in live : pPrev'[u] = IF u = slots[p] THEN t ELSE pPrev[u]

\* addTimerUnlock does that.
LEMMA AddPushes ==
  ASSUME TypeOK, NEW t \in Timers \ live, NEW timeout \in Timeouts,
         addTimerUnlock(t, timeout)
  PROVE  pos(Ticks(timeout)) \in Slots /\ Pushed(t, pos(Ticks(timeout)))
<1>1. Ticks(timeout) \in Nat
  BY WheelAssumption DEF Ticks
<1>2. Ticks(timeout) % slotsNum \in Int /\ currentSlotPos \in Int
  BY <1>1, WheelAssumption, ModSlot DEF TypeOK, Slots
<1>3. pos(Ticks(timeout)) \in Slots
  BY <1>2, ModSlot DEF pos
<1>4. live \subseteq Timers /\ rotation \in [Timers -> Nat]
  BY DEF TypeOK
<1> QED
  BY <1>3, <1>4 DEF addTimerUnlock, Pushed

\* Lists with an event more are lists.
LEMMA PushedLists ==
  ASSUME TypeOK, Lists, Whole, PrevInv, NEW t \in Timers \ live, NEW p \in Slots, Pushed(t, p)
  PROVE  /\ Lists'
         /\ \A u \in live' : pPrev'[u] = nullptr <=> slots'[timerSlot'[u]] = u
<1>1. /\ live \subseteq Timers /\ nullptr \notin Timers
      /\ slots \in [Slots -> Timers \cup {nullptr}]
      /\ pNext \in [Timers -> Timers \cup {nullptr}] /\ pPrev \in [Timers -> Timers \cup {nullptr}]
      /\ timerSlot \in [Timers -> Slots]
  BY DEF TypeOK, Timers, nullptr
<1>2. \A u \in live : pPrev[u] = nullptr <=> slots[timerSlot[u]] = u
  BY DEF PrevInv
<1>3. \A u \in live : pNext[u] # nullptr =>
        /\ pNext[u] \in live /\ pPrev[pNext[u]] = u /\ timerSlot[pNext[u]] = timerSlot[u]
        /\ slots[timerSlot[u]] # pNext[u]
  BY DEF Lists, NextInv
<1>4. \A u \in live : slots[timerSlot[u]] = u \/ (pPrev[u] \in live /\ pNext[pPrev[u]] = u)
  BY DEF Lists, HasPlace
<1>5. \A q \in Slots : slots[q] # nullptr => slots[q] \in live /\ timerSlot[slots[q]] = q
  BY DEF Lists, HeadInv
<1>6. /\ live' = live \cup {t} /\ t \notin live /\ t # nullptr
      /\ timerSlot'[t] = p /\ pNext'[t] = slots[p] /\ pPrev'[t] = nullptr
      /\ \A u \in live :
           /\ timerSlot'[u] = timerSlot[u] /\ timerSlot[u] \in Slots
           /\ pNext'[u] = pNext[u] /\ pPrev'[u] = IF u = slots[p] THEN t ELSE pPrev[u]
      /\ \A q \in Slots : slots'[q] = IF q = p THEN t ELSE slots[q]
  BY <1>1 DEF Pushed
<1>7. Acyclic'
  <2>1. PICK r \in [Timers -> Nat] : Numbered(r)
    BY DEF Lists, Acyclic
  <2> DEFINE s == [u \in Timers |-> IF u = t THEN 0 ELSE r[u] + 1]
  <2>2. s \in [Timers -> Nat] /\ s[t] = 0 /\ \A u \in live : s[u] = r[u] + 1 /\ r[u] \in Nat
    BY <1>1, <1>6
  <2> HIDE DEF s
  <2>3. ASSUME NEW u \in live', pNext'[u] # nullptr PROVE s[u] < s[pNext'[u]]
    <3>1. CASE u = t
      <4>1. pNext'[u] = slots[p] /\ slots[p] \in live
        BY <2>3, <3>1, <1>5, <1>6
      <4> QED
        BY <4>1, <2>2, <3>1
    <3>2. CASE u # t
      <4>1. u \in live /\ pNext'[u] = pNext[u] /\ pNext[u] \in live /\ r[u] < r[pNext[u]]
        BY <2>1, <2>3, <3>2, <1>3, <1>6 DEF Numbered
      <4> QED
        BY <4>1, <2>2
    <3> QED
      BY <3>1, <3>2
  <2> QED
    BY <2>2, <2>3, Zenon DEF Acyclic, Numbered, Timers, nullptr
<1>8. NextInv'
  <2> SUFFICES ASSUME NEW u \in live', pNext'[u] # nullptr
               PROVE  /\ pNext'[u] \in live' /\ pPrev'[pNext'[u]] = u
                      /\ timerSlot'[pNext'[u]] = timerSlot'[u]
                      /\ slots'[timerSlot'[u]] # pNext'[u]
    BY DEF NextInv, nullptr
  <2>1. CASE u = t
    BY <2>1, <1>5, <1>6
  <2>2. CASE u # t
    BY <2>2, <1>3, <1>5, <1>6
  <2> QED
    BY <2>1, <2>2
<1>9. HeadInv'
  <2> SUFFICES ASSUME NEW q \in Slots, slots'[q] # nullptr
               PROVE  slots'[q] \in live' /\ timerSlot'[slots'[q]] = q
    BY DEF HeadInv, nullptr, Slots
  <2> QED
    BY <1>5, <1>6
<1>10. ASSUME NEW u \in live'
       PROVE  /\ slots'[timerSlot'[u]] = u \/ (pPrev'[u] \in live' /\ pNext'[pPrev'[u]] = u)
              /\ pPrev'[u] = nullptr <=> slots'[timerSlot'[u]] = u
  <2>1. CASE u = t
    BY <2>1, <1>6
  <2>2. CASE u # t /\ u = slots[p]
    <3>1. u \in live /\ u # nullptr /\ timerSlot[u] = p
      BY <2>2, <1>1, <1>5, <1>6
    <3>2. slots'[p] = t /\ pPrev'[u] = t /\ pNext'[t] = u /\ timerSlot'[u] = p
      BY <2>2, <3>1, <1>6
    <3> QED
      BY <2>2, <3>2, <1>6
  <2>3. CASE u # t /\ u # slots[p]
    <3>1. u \in live /\ pPrev'[u] = pPrev[u] /\ timerSlot'[u] = timerSlot[u] /\ timerSlot[u] \in Slots
      BY <2>3, <1>6
    <3>2. slots'[timerSlot[u]] = u <=> slots[timerSlot[u]] = u
      BY <2>3, <3>1, <1>6
    <3> QED
      BY <3>1, <3>2, <1>2, <1>4, <1>6
  <2> QED
    BY <2>1, <2>2, <2>3
<1> QED
  BY <1>7, <1>8, <1>9, <1>10 DEF Lists, HasPlace, nullptr

\* ~TimerWheel takes the head of a list away, and leaves lists.
LEMMA BeheadedLists ==
  ASSUME TypeOK, Lists, NEW i \in Slots, slots[i] # nullptr,
         slots' = [slots EXCEPT ![i] = pNext[slots[i]]], live' = live \ {slots[i]},
         UNCHANGED <<pNext, pPrev, event>>
  PROVE  Lists'
<1> DEFINE h == slots[i]
<1>1. /\ live \subseteq Timers /\ nullptr \notin Timers
      /\ slots \in [Slots -> Timers \cup {nullptr}]
      /\ pNext \in [Timers -> Timers \cup {nullptr}] /\ pPrev \in [Timers -> Timers \cup {nullptr}]
      /\ timerSlot \in [Timers -> Slots]
  BY DEF TypeOK, Timers, nullptr
<1>2. h \in live /\ timerSlot[h] = i
  BY DEF Lists, HeadInv
<1>3. pNext[h] # h
  BY <1>1, <1>2 DEF Lists, Acyclic, Numbered
<1>4. \A u \in live : pNext[u] # nullptr =>
        /\ pNext[u] \in live /\ pPrev[pNext[u]] = u /\ timerSlot[pNext[u]] = timerSlot[u]
        /\ slots[timerSlot[u]] # pNext[u]
  BY DEF Lists, NextInv
<1>5. \A u \in live : slots[timerSlot[u]] = u \/ (pPrev[u] \in live /\ pNext[pPrev[u]] = u)
  BY DEF Lists, HasPlace
<1>6. \A q \in Slots : slots[q] # nullptr => slots[q] \in live /\ timerSlot[slots[q]] = q
  BY DEF Lists, HeadInv
<1>7. /\ pNext' = pNext /\ pPrev' = pPrev /\ timerSlot' = timerSlot /\ live' = live \ {h}
      /\ \A q \in Slots : slots'[q] = IF q = i THEN pNext[h] ELSE slots[q]
  BY <1>1 DEF event
<1> HIDE DEF h
<1>8. Acyclic'
  BY <1>7 DEF Lists, Acyclic, Numbered, Timers, nullptr
<1>9. HasPlace'
  <2> SUFFICES ASSUME NEW u \in live'
               PROVE  slots'[timerSlot[u]] = u \/ (pPrev[u] \in live' /\ pNext[pPrev[u]] = u)
    BY <1>7 DEF HasPlace
  <2>1. u \in live /\ u # h /\ timerSlot[u] \in Slots
    BY <1>1, <1>7
  <2>2. CASE slots[timerSlot[u]] = u
    BY <2>1, <2>2, <1>7 DEF h
  <2>3. CASE pPrev[u] \in live /\ pNext[pPrev[u]] = u
    <3>1. timerSlot[u] = timerSlot[pPrev[u]]
      BY <2>1, <2>3, <1>1, <1>4
    <3> QED
      BY <2>1, <2>3, <3>1, <1>2, <1>7
  <2> QED
    BY <2>1, <2>2, <2>3, <1>5
<1>10. NextInv'
  <2> SUFFICES ASSUME NEW u \in live, u # h, pNext[u] # nullptr
               PROVE  /\ pNext[u] \in live' /\ pPrev[pNext[u]] = u
                      /\ timerSlot[pNext[u]] = timerSlot[u]
                      /\ slots'[timerSlot[u]] # pNext[u]
    BY <1>7 DEF NextInv, nullptr
  <2>1. /\ pNext[u] \in live /\ pPrev[pNext[u]] = u /\ timerSlot[pNext[u]] = timerSlot[u]
        /\ slots[timerSlot[u]] # pNext[u] /\ timerSlot[u] \in Slots
    BY <1>1, <1>4
  <2>2. pNext[u] # h
    BY <2>1, <1>2 DEF h
  <2>3. pNext[h] # pNext[u]
    BY <2>1, <1>2, <1>4
  <2> QED
    BY <2>1, <2>2, <2>3, <1>7
<1>11. HeadInv'
  <2> SUFFICES ASSUME NEW q \in Slots, slots'[q] # nullptr
               PROVE  slots'[q] \in live' /\ timerSlot[slots'[q]] = q
    BY <1>7 DEF HeadInv, nullptr, Slots
  <2>1. CASE q = i
    BY <2>1, <1>2, <1>3, <1>4, <1>7
  <2>2. CASE q # i
    BY <2>2, <1>2, <1>6, <1>7
  <2> QED
    BY <2>1, <2>2
<1> QED
  BY <1>8, <1>9, <1>10, <1>11 DEF Lists

\* Lists without a head are empty: the first event of one that is not would have nobody to
\* stand behind.
LEMMA NoHeadsNoEvents ==
  ASSUME TypeOK, Lists, \A q \in Slots : slots[q] = nullptr
  PROVE  live = {}
<1> SUFFICES ASSUME live # {} PROVE FALSE
  OBVIOUS
<1>1. PICK r \in [Timers -> Nat] : Numbered(r)
  BY DEF Lists, Acyclic
<1>2. live \subseteq Timers /\ nullptr \notin Timers /\ timerSlot \in [Timers -> Slots]
  BY DEF TypeOK, Timers, nullptr
<1>3. PICK t \in live : \A u \in live : ~(r[u] < r[t])
  BY <1>1, <1>2, Lowest
<1>4. slots[timerSlot[t]] # t
  BY <1>2
<1>5. pPrev[t] \in live /\ pNext[pPrev[t]] = t
  BY <1>4 DEF Lists, HasPlace
<1>6. r[pPrev[t]] < r[t]
  BY <1>1, <1>2, <1>5 DEF Numbered
<1> QED
  BY <1>3, <1>5, <1>6

-----------------------------------------------------------------------------
(* The walk of a tick through its slot.                                     *)

\* A callback adds an event: if it is one of this slot, the tick will not meet it.
LEMMA WalkPushed ==
  ASSUME TypeOK, Lists, Whole, PrevInv, Ticking, Walk,
         NEW t \in Timers \ live, NEW p \in Slots, Pushed(t, p),
         passed' = IF p = currentSlotPos THEN passed \cup {t} ELSE passed,
         UNCHANGED <<timerEvent, currentSlotPos>>
  PROVE  Walk'
<1>1. /\ live \subseteq Timers /\ nullptr \notin Timers /\ passed \subseteq live
      /\ slots \in [Slots -> Timers \cup {nullptr}]
      /\ pNext \in [Timers -> Timers \cup {nullptr}] /\ pPrev \in [Timers -> Timers \cup {nullptr}]
      /\ timerSlot \in [Timers -> Slots] /\ currentSlotPos \in Slots
  BY DEF TypeOK, Ticking, Timers, nullptr
<1>2. \A u \in live : pPrev[u] = nullptr <=> slots[timerSlot[u]] = u
  BY DEF PrevInv
<1>3. \A u \in live : pNext[u] # nullptr =>
        /\ pNext[u] \in live /\ pPrev[pNext[u]] = u /\ timerSlot[pNext[u]] = timerSlot[u]
        /\ slots[timerSlot[u]] # pNext[u] /\ pNext[u] # u
  BY <1>1 DEF Lists, NextInv, Acyclic, Numbered
<1>4. \A u \in live : slots[timerSlot[u]] = u \/ (pPrev[u] \in live /\ pNext[pPrev[u]] = u)
  BY DEF Lists, HasPlace
<1>5. \A q \in Slots : slots[q] # nullptr => slots[q] \in live /\ timerSlot[slots[q]] = q
  BY DEF Lists, HeadInv
<1>6. /\ live' = live \cup {t} /\ t \notin live /\ t # nullptr
      /\ timerSlot'[t] = p /\ pNext'[t] = slots[p] /\ pPrev'[t] = nullptr
      /\ \A u \in live :
           /\ timerSlot'[u] = timerSlot[u] /\ timerSlot[u] \in Slots
           /\ pNext'[u] = pNext[u] /\ pPrev'[u] = IF u = slots[p] THEN t ELSE pPrev[u]
  BY <1>1 DEF Pushed
<1>7. passed \subseteq passed' /\ passed' \subseteq passed \cup {t} /\ (t \in passed' <=> p = currentSlotPos)
  BY <1>1, <1>6
<1>8. Standing'
  <2> SUFFICES ASSUME timerEvent # nullptr
               PROVE  /\ timerEvent \in live' \ passed' /\ timerSlot'[timerEvent] = currentSlotPos
                      /\ pPrev'[timerEvent] = nullptr \/ pPrev'[timerEvent] \in passed'
    BY DEF Standing, nullptr
  <2>1. timerEvent \in live \ passed /\ timerSlot[timerEvent] = currentSlotPos
        /\ (pPrev[timerEvent] = nullptr \/ pPrev[timerEvent] \in passed)
    BY DEF Walk, Standing
  <2>2. timerEvent = slots[p] => t \in passed'
    BY <2>1, <1>5, <1>7
  <2> QED
    BY <2>1, <2>2, <1>6, <1>7
<1>9. PassedHere'
  BY <1>1, <1>6, <1>7 DEF Walk, PassedHere
<1>10. PassedFirst'
  <2> SUFFICES ASSUME NEW u \in live', pNext'[u] \in passed' PROVE u \in passed'
    BY DEF PassedFirst
  <2>1. CASE u = t
    <3>1. slots[p] \in live /\ slots[p] \in passed
      BY <2>1, <1>1, <1>5, <1>6, <1>7
    <3>2. timerSlot[slots[p]] = p /\ timerSlot[slots[p]] = currentSlotPos
      BY <3>1, <1>1, <1>5 DEF Walk, PassedHere
    <3> QED
      BY <2>1, <3>2, <1>7
  <2>2. CASE u # t
    <3>1. u \in live /\ pNext[u] \in passed'
      BY <2>2, <1>6
    <3>2. pNext[u] \in passed
      BY <3>1, <1>1, <1>3, <1>6, <1>7
    <3> QED
      BY <3>1, <3>2, <1>7 DEF Walk, PassedFirst
  <2> QED
    BY <2>1, <2>2
<1>11. OthersBehind'
  <2> SUFFICES ASSUME NEW u \in live' \ passed', timerSlot'[u] = currentSlotPos, u # timerEvent
               PROVE  pPrev'[u] \in live' \ passed'
    BY DEF OthersBehind
  <2>1. u # t /\ u \in live \ passed /\ timerSlot[u] = currentSlotPos
    BY <1>6, <1>7
  <2>2. pPrev[u] \in live \ passed
    BY <2>1 DEF Walk, OthersBehind
  <2>3. u # slots[p]
    BY <2>1, <2>2, <1>1, <1>2, <1>5
  <2> QED
    BY <2>1, <2>2, <2>3, <1>6, <1>7
<1> QED
  BY <1>8, <1>9, <1>10, <1>11 DEF Walk

\* A callback cancels another event than its own.
LEMMA WalkBypassed ==
  ASSUME TypeOK, Lists, Whole, PrevInv, Ticking, Walk,
         NEW t \in live, Bypassed(t), t # timerEvent, passed' = passed \ {t},
         UNCHANGED <<timerEvent, currentSlotPos>>
  PROVE  Walk'
<1>1. /\ live \subseteq Timers /\ nullptr \notin Timers /\ passed \subseteq live
      /\ slots \in [Slots -> Timers \cup {nullptr}]
      /\ pNext \in [Timers -> Timers \cup {nullptr}] /\ pPrev \in [Timers -> Timers \cup {nullptr}]
      /\ timerSlot \in [Timers -> Slots] /\ currentSlotPos \in Slots
  BY DEF TypeOK, Ticking, Timers, nullptr
<1>2. \A u \in live : pPrev[u] = nullptr <=> slots[timerSlot[u]] = u
  BY DEF PrevInv
<1>3. \A u \in live : pNext[u] # nullptr =>
        /\ pNext[u] \in live /\ pPrev[pNext[u]] = u /\ timerSlot[pNext[u]] = timerSlot[u]
        /\ slots[timerSlot[u]] # pNext[u] /\ pNext[u] # u
  BY <1>1 DEF Lists, NextInv, Acyclic, Numbered
<1>4. \A u \in live : slots[timerSlot[u]] = u \/ (pPrev[u] \in live /\ pNext[pPrev[u]] = u)
  BY DEF Lists, HasPlace
<1>5. \A q \in Slots : slots[q] # nullptr => slots[q] \in live /\ timerSlot[slots[q]] = q
  BY DEF Lists, HeadInv
<1>6. /\ live' = live \ {t}
      /\ \A u \in live' :
           /\ timerSlot'[u] = timerSlot[u] /\ timerSlot[u] \in Slots
           /\ pNext'[u] = IF pNext[u] = t THEN pNext[t] ELSE pNext[u]
           /\ pPrev'[u] = IF pPrev[u] = t THEN pPrev[t] ELSE pPrev[u]
  BY <1>1 DEF Bypassed
<1>7. Standing'
  <2> SUFFICES ASSUME timerEvent # nullptr
               PROVE  /\ timerEvent \in live' \ passed' /\ timerSlot'[timerEvent] = currentSlotPos
                      /\ pPrev'[timerEvent] = nullptr \/ pPrev'[timerEvent] \in passed'
    BY DEF Standing, nullptr
  <2>1. timerEvent \in live \ passed /\ timerSlot[timerEvent] = currentSlotPos
        /\ (pPrev[timerEvent] = nullptr \/ pPrev[timerEvent] \in passed)
    BY DEF Walk, Standing
  <2>2. CASE pPrev[timerEvent] = t
    <3>1. t \in passed /\ pPrev'[timerEvent] = pPrev[t]
      BY <2>1, <2>2, <1>1, <1>6
    <3>2. pPrev[t] = nullptr \/ (pPrev[t] \in passed /\ pPrev[t] # t)
      BY <3>1, <1>1, <1>2, <1>3, <1>4 DEF Walk, PassedFirst
    <3> QED
      BY <2>1, <3>1, <3>2, <1>6
  <2>3. CASE pPrev[timerEvent] # t
    BY <2>1, <2>3, <1>6
  <2> QED
    BY <2>2, <2>3
<1>8. PassedHere'
  BY <1>1, <1>6 DEF Walk, PassedHere
<1>9. PassedFirst'
  <2> SUFFICES ASSUME NEW u \in live', pNext'[u] \in passed' PROVE u \in passed'
    BY DEF PassedFirst
  <2>1. u \in live /\ u # t /\ pNext'[u] \in passed
    BY <1>6
  <2>2. CASE pNext[u] = t
    <3>1. t \in passed
      BY <2>1, <2>2, <1>6 DEF Walk, PassedFirst
    <3> QED
      BY <2>1, <2>2, <3>1 DEF Walk, PassedFirst
  <2>3. CASE pNext[u] # t
    BY <2>1, <2>3, <1>6 DEF Walk, PassedFirst
  <2> QED
    BY <2>2, <2>3
<1>10. OthersBehind'
  <2> SUFFICES ASSUME NEW u \in live' \ passed', timerSlot'[u] = currentSlotPos, u # timerEvent
               PROVE  pPrev'[u] \in live' \ passed'
    BY DEF OthersBehind
  <2>1. u # t /\ u \in live \ passed /\ timerSlot[u] = currentSlotPos
    BY <1>6
  <2>2. pPrev[u] \in live \ passed
    BY <2>1 DEF Walk, OthersBehind
  <2>3. CASE pPrev[u] = t
    <3>1. timerSlot[t] = currentSlotPos
      BY <2>1, <2>2, <2>3, <1>1, <1>2, <1>3, <1>4
    <3>2. pPrev[t] \in live \ passed /\ pPrev[t] # t
      BY <2>2, <2>3, <3>1, <1>1, <1>2, <1>3, <1>4 DEF Walk, OthersBehind
    <3> QED
      BY <2>1, <2>3, <3>2, <1>6
  <2>4. CASE pPrev[u] # t
    BY <2>1, <2>2, <2>4, <1>6
  <2> QED
    BY <2>3, <2>4
<1> QED
  BY <1>7, <1>8, <1>9, <1>10 DEF Walk

\* The event that ran is deleted, and the tick goes on behind it.
LEMMA WalkOverDeleted ==
  ASSUME TypeOK, Lists, Whole, PrevInv, Ticking, Walk,
         timerEvent # nullptr, Bypassed(timerEvent), passed' = passed \ {timerEvent},
         timerEvent' = pNext[timerEvent], UNCHANGED currentSlotPos
  PROVE  Walk'
<1>1. /\ live \subseteq Timers /\ nullptr \notin Timers /\ passed \subseteq live
      /\ slots \in [Slots -> Timers \cup {nullptr}]
      /\ pNext \in [Timers -> Timers \cup {nullptr}] /\ pPrev \in [Timers -> Timers \cup {nullptr}]
      /\ timerSlot \in [Timers -> Slots] /\ currentSlotPos \in Slots
  BY DEF TypeOK, Ticking, Timers, nullptr
<1>2. \A u \in live : pPrev[u] = nullptr <=> slots[timerSlot[u]] = u
  BY DEF PrevInv
<1>3. \A u \in live : pNext[u] # nullptr =>
        /\ pNext[u] \in live /\ pPrev[pNext[u]] = u /\ timerSlot[pNext[u]] = timerSlot[u]
        /\ slots[timerSlot[u]] # pNext[u] /\ pNext[u] # u
  BY <1>1 DEF Lists, NextInv, Acyclic, Numbered
<1>4. \A u \in live : slots[timerSlot[u]] = u \/ (pPrev[u] \in live /\ pNext[pPrev[u]] = u)
  BY DEF Lists, HasPlace
<1>5. \A q \in Slots : slots[q] # nullptr => slots[q] \in live /\ timerSlot[slots[q]] = q
  BY DEF Lists, HeadInv
<1>6. /\ live' = live \ {timerEvent}
      /\ \A u \in live' :
           /\ timerSlot'[u] = timerSlot[u] /\ timerSlot[u] \in Slots
           /\ pNext'[u] = IF pNext[u] = timerEvent THEN pNext[timerEvent] ELSE pNext[u]
           /\ pPrev'[u] = IF pPrev[u] = timerEvent THEN pPrev[timerEvent] ELSE pPrev[u]
  BY <1>1 DEF Bypassed
<1>7. timerEvent \in live \ passed /\ timerSlot[timerEvent] = currentSlotPos
      /\ (pPrev[timerEvent] = nullptr \/ pPrev[timerEvent] \in passed)
  BY DEF Walk, Standing
<1>8. passed' = passed
  BY <1>7
<1>9. Standing'
  <2> SUFFICES ASSUME pNext[timerEvent] # nullptr
               PROVE  /\ pNext[timerEvent] \in live' \ passed'
                      /\ timerSlot'[pNext[timerEvent]] = currentSlotPos
                      /\ pPrev'[pNext[timerEvent]] = nullptr \/ pPrev'[pNext[timerEvent]] \in passed'
    BY DEF Standing, nullptr
  <2>1. pNext[timerEvent] \in live' /\ pPrev[pNext[timerEvent]] = timerEvent
        /\ timerSlot[pNext[timerEvent]] = currentSlotPos
    BY <1>3, <1>6, <1>7
  <2>2. pNext[timerEvent] \notin passed
    BY <1>7 DEF Walk, PassedFirst
  <2> QED
    BY <2>1, <2>2, <1>6, <1>7, <1>8
<1>10. PassedHere'
  BY <1>1, <1>6, <1>7, <1>8 DEF Walk, PassedHere
<1>11. PassedFirst'
  <2> SUFFICES ASSUME NEW u \in live', pNext'[u] \in passed PROVE u \in passed
    BY <1>8 DEF PassedFirst
  <2>1. pNext[timerEvent] \notin passed
    BY <1>7 DEF Walk, PassedFirst
  <2>2. pNext[u] \in passed
    BY <2>1, <1>6
  <2> QED
    BY <2>2, <1>6 DEF Walk, PassedFirst
<1>12. OthersBehind'
  <2> SUFFICES ASSUME NEW u \in live' \ passed, timerSlot'[u] = currentSlotPos, u # pNext[timerEvent]
               PROVE  pPrev'[u] \in live' \ passed
    BY <1>8 DEF OthersBehind
  <2>1. u # timerEvent /\ u \in live \ passed /\ timerSlot[u] = currentSlotPos
    BY <1>6
  <2>2. pPrev[u] \in live \ passed
    BY <2>1 DEF Walk, OthersBehind
  <2>3. pPrev[u] # timerEvent
    BY <2>1, <2>2, <1>1, <1>2, <1>4
  <2> QED
    BY <2>1, <2>2, <2>3, <1>6
<1> QED
  BY <1>9, <1>10, <1>11, <1>12 DEF Walk

\* The tick goes on behind an event with turns left.
LEMMA WalkOverPassed ==
  ASSUME TypeOK, Lists, Whole, PrevInv, Ticking, Walk,
         timerEvent # nullptr, passed' = passed \cup {timerEvent},
         timerEvent' = pNext[timerEvent],
         UNCHANGED <<currentSlotPos, pNext, pPrev, timerSlot, live>>
  PROVE  Walk'
<1>1. /\ live \subseteq Timers /\ nullptr \notin Timers /\ passed \subseteq live
      /\ slots \in [Slots -> Timers \cup {nullptr}]
      /\ pNext \in [Timers -> Timers \cup {nullptr}] /\ pPrev \in [Timers -> Timers \cup {nullptr}]
      /\ timerSlot \in [Timers -> Slots] /\ currentSlotPos \in Slots
  BY DEF TypeOK, Ticking, Timers, nullptr
<1>2. \A u \in live : pPrev[u] = nullptr <=> slots[timerSlot[u]] = u
  BY DEF PrevInv
<1>3. \A u \in live : pNext[u] # nullptr =>
        /\ pNext[u] \in live /\ pPrev[pNext[u]] = u /\ timerSlot[pNext[u]] = timerSlot[u]
        /\ slots[timerSlot[u]] # pNext[u] /\ pNext[u] # u
  BY <1>1 DEF Lists, NextInv, Acyclic, Numbered
<1>4. \A u \in live : slots[timerSlot[u]] = u \/ (pPrev[u] \in live /\ pNext[pPrev[u]] = u)
  BY DEF Lists, HasPlace
<1>5. \A q \in Slots : slots[q] # nullptr => slots[q] \in live /\ timerSlot[slots[q]] = q
  BY DEF Lists, HeadInv
<1>6. timerEvent \in live \ passed /\ timerSlot[timerEvent] = currentSlotPos
      /\ (pPrev[timerEvent] = nullptr \/ pPrev[timerEvent] \in passed)
  BY DEF Walk, Standing
<1>7. Standing'
  <2> SUFFICES ASSUME pNext[timerEvent] # nullptr
               PROVE  /\ pNext[timerEvent] \in live \ passed'
                      /\ timerSlot[pNext[timerEvent]] = currentSlotPos
                      /\ pPrev[pNext[timerEvent]] \in passed'
    BY DEF Standing, nullptr
  <2>1. pNext[timerEvent] \notin passed
    BY <1>6 DEF Walk, PassedFirst
  <2> QED
    BY <2>1, <1>3, <1>6
<1>8. PassedHere'
  BY <1>6 DEF Walk, PassedHere
<1>9. PassedFirst'
  <2> SUFFICES ASSUME NEW u \in live, pNext[u] \in passed \cup {timerEvent}
               PROVE  u \in passed \cup {timerEvent}
    BY DEF PassedFirst
  <2>1. CASE pNext[u] = timerEvent
    BY <2>1, <1>1, <1>3, <1>6
  <2>2. CASE pNext[u] \in passed
    BY <2>2 DEF Walk, PassedFirst
  <2> QED
    BY <2>1, <2>2
<1>10. OthersBehind'
  <2> SUFFICES ASSUME NEW u \in live \ (passed \cup {timerEvent}), timerSlot[u] = currentSlotPos,
                      u # pNext[timerEvent]
               PROVE  pPrev[u] \in live \ (passed \cup {timerEvent})
    BY DEF OthersBehind
  <2>1. pPrev[u] \in live \ passed
    BY DEF Walk, OthersBehind
  <2>2. pPrev[u] # timerEvent
    BY <2>1, <1>1, <1>2, <1>4
  <2> QED
    BY <2>1, <2>2
<1> QED
  BY <1>7, <1>8, <1>9, <1>10 DEF Walk

\* A tick begins at the head of its slot.
LEMMA WalkBegins ==
  ASSUME TypeOK, Lists, Whole, PrevInv, currentSlotPos \in Slots, passed = {},
         timerEvent' = slots[currentSlotPos],
         UNCHANGED <<currentSlotPos, slots, pNext, pPrev, timerSlot, live, passed>>
  PROVE  Walk'
<1>1. nullptr \notin Timers /\ live \subseteq Timers /\ timerSlot \in [Timers -> Slots]
  BY DEF TypeOK, Timers, nullptr
<1>2. Standing'
  BY <1>1 DEF Standing, Lists, HeadInv, PrevInv, nullptr
<1>3. PassedHere' /\ PassedFirst'
  BY DEF PassedHere, PassedFirst
<1>4. OthersBehind'
  BY DEF OthersBehind, Lists, HasPlace
<1> QED
  BY <1>2, <1>3, <1>4 DEF Walk

-----------------------------------------------------------------------------
(* The invariant, action by action.                                         *)

\* Steps that leave the links alone leave lists.
LEMMA SameLists ==
  ASSUME Lists, UNCHANGED <<slots, pNext, pPrev, timerSlot, live>>
  PROVE  Lists'
BY DEF Lists, Acyclic, Numbered, HasPlace, NextInv, HeadInv, Timers, Slots, nullptr

\* And so for the walk.
LEMMA SameWalk ==
  ASSUME Walk, UNCHANGED <<pNext, pPrev, timerSlot, live, passed, timerEvent, currentSlotPos>>
  PROVE  Walk'
BY DEF Walk, Standing, PassedHere, PassedFirst, OthersBehind, nullptr

\* Init.
LEMMA InitInv == Init => Inv
<1> SUFFICES ASSUME Init PROVE Inv
  OBVIOUS
<1>1. TypeOK
  BY WheelAssumption DEF Init, TypeOK, nullptr, Slots
<1>2. Lists
  <2>1. [t \in Timers |-> 0] \in [Timers -> Nat]
    OBVIOUS
  <2> QED
    BY <2>1, Zenon DEF Init, Lists, Acyclic, Numbered, HasPlace, NextInv, HeadInv
<1>3. PrevInv /\ TickInv
  BY DEF Init, PrevInv, TickInv, Ticking
<1> QED
  BY <1>1, <1>2, <1>3 DEF Init, Inv

\* Undefined behaviour ends the run.
LEMMA FailsInv ==
  ASSUME Inv, UNCHANGED <<isThreadSave, currentSlotPos>>,
         NEW how \in {"relock", "deletedEvent", "badSlot"}, Fails(how)
  PROVE  Inv'
<1>1. TypeOK'
  BY DEF Inv, TypeOK, Fails, links, event, Timers, Slots, nullptr
<1>2. Lists'
  BY SameLists DEF Inv, Fails, links, event
<1>3. PrevInv'
  BY DEF Inv, PrevInv, Whole, Fails, links, event, nullptr
<1>4. TickInv'
  <2>1. Walk => Walk'
    BY SameWalk DEF Fails, links, event
  <2> QED
    BY <2>1 DEF Inv, TickInv, Ticking, Fails, nullptr
<1> QED
  BY <1>1, <1>2, <1>3, <1>4 DEF Inv, Fails

\* addTimer.
LEMMA AddInv ==
  ASSUME Inv, addTimer
  PROVE  Inv'
<1>1. PICK t \in Timers \ live, timeout \in Timeouts :
        /\ Callable
        /\ \/ Relocks /\ Fails("relock")
           \/ /\ ~Relocks /\ addTimerUnlock(t, timeout)
              /\ \E tied \in {"none", "object"} : tie' = [tie EXCEPT ![t] = tied]
              /\ UNCHANGED <<phase, timerEvent, failed>>
        /\ UNCHANGED <<isThreadSave, currentSlotPos>>
  BY DEF addTimer
<1>2. CASE Fails("relock")
  BY <1>1, <1>2, FailsInv
<1>3. CASE /\ addTimerUnlock(t, timeout)
           /\ \E tied \in {"none", "object"} : tie' = [tie EXCEPT ![t] = tied]
           /\ UNCHANGED <<phase, timerEvent, failed>>
  <2> DEFINE p == pos(Ticks(timeout))
  <2>1. p \in Slots /\ Pushed(t, p)
    BY <1>3, AddPushes DEF Inv
  <2>2. /\ named' = named \cup {t}
        /\ passed' = IF phase = "callback" /\ p = currentSlotPos THEN passed \cup {t} ELSE passed
        /\ rotation' = [rotation EXCEPT ![t] = Ticks(timeout) \div slotsNum]
        /\ pPrev' = [u \in Timers |->
             IF u = t THEN nullptr ELSE IF u = slots[p] THEN t ELSE pPrev[u]]
    BY <1>3 DEF addTimerUnlock
  <2>3. phase \in {"idle", "callback"} /\ failed = "none" /\ Whole
    BY <1>1 DEF Callable, Whole
  <2>4. /\ phase' = phase /\ timerEvent' = timerEvent /\ failed' = failed
        /\ isThreadSave' = isThreadSave /\ currentSlotPos' = currentSlotPos
    BY <1>1, <1>3
  <2> HIDE DEF p
  <2>5. Lists' /\ \A u \in live' : pPrev'[u] = nullptr <=> slots'[timerSlot'[u]] = u
    BY <2>1, <2>3, PushedLists DEF Inv
  <2>6. TypeOK'
    <3>1. Ticks(timeout) \div slotsNum \in Nat
      BY WheelAssumption, DivMod DEF Ticks
    <3>2. /\ slots' \in [Slots -> Timers \cup {nullptr}]
          /\ pNext' \in [Timers -> Timers \cup {nullptr}]
          /\ timerSlot' \in [Timers -> Slots]
      BY <2>1 DEF Inv, TypeOK, Pushed
    <3>3. pPrev' \in [Timers -> Timers \cup {nullptr}]
      BY <2>2 DEF Inv, TypeOK
    <3>4. rotation' \in [Timers -> Nat]
      BY <2>2, <3>1 DEF Inv, TypeOK
    <3>5. tie' \in [Timers -> {"none", "object", "gone"}]
      BY <1>3 DEF Inv, TypeOK
    <3>6. named' \subseteq Timers /\ live' \subseteq named' /\ passed' \subseteq live'
      BY <2>1, <2>2 DEF Inv, TypeOK, Pushed
    <3> QED
      BY <2>4, <3>2, <3>3, <3>4, <3>5, <3>6 DEF Inv, TypeOK, Timers, Slots, nullptr
  <2>7. TickInv'
    <3>1. CASE phase = "idle"
      BY <3>1, <2>2, <2>4 DEF Inv, TickInv, Ticking
    <3>2. CASE phase = "callback"
      <4>1. Walk /\ Ticking
        BY <3>2 DEF Inv, TickInv, Ticking
      <4>2. passed' = IF p = currentSlotPos THEN passed \cup {t} ELSE passed
        BY <2>2, <3>2
      <4>3. Walk'
        BY <2>1, <2>3, <2>4, <4>1, <4>2, WalkPushed DEF Inv
      <4> QED
        BY <2>4, <3>2, <4>3 DEF Inv, TickInv, Ticking, nullptr
    <3> QED
      BY <2>3, <3>1, <3>2
  <2> QED
    BY <2>3, <2>4, <2>5, <2>6, <2>7 DEF Inv, PrevInv, nullptr
<1> QED
  BY <1>1, <1>2, <1>3

\* Taking an event out and deleting it keeps to the types.
LEMMA DeleteType ==
  ASSUME TypeOK, NEW t \in live, unlink(t, timerSlot[t]), Delete(t)
  PROVE  /\ slots' \in [Slots -> Timers \cup {nullptr}]
         /\ pNext' \in [Timers -> Timers \cup {nullptr}]
         /\ pPrev' \in [Timers -> Timers \cup {nullptr}]
         /\ rotation' \in [Timers -> Nat] /\ timerSlot' \in [Timers -> Slots]
         /\ tie' \in [Timers -> {"none", "object", "gone"}]
         /\ live' = live \ {t} /\ passed' = passed \ {t}
<1>1. /\ t \in Timers /\ 0 \in Slots
      /\ slots \in [Slots -> Timers \cup {nullptr}]
      /\ pNext \in [Timers -> Timers \cup {nullptr}] /\ pPrev \in [Timers -> Timers \cup {nullptr}]
      /\ rotation \in [Timers -> Nat] /\ timerSlot \in [Timers -> Slots]
      /\ tie \in [Timers -> {"none", "object", "gone"}]
  BY WheelAssumption DEF TypeOK, Slots
<1>2. slots' \in [Slots -> Timers \cup {nullptr}]
  BY <1>1 DEF unlink
<1>3. pNext' \in [Timers -> Timers \cup {nullptr}]
  BY <1>1 DEF unlink
<1>4. pPrev' \in [Timers -> Timers \cup {nullptr}]
  <2>1. \A u \in Timers : pPrev'[u] \in Timers \cup {nullptr}
    BY <1>1 DEF unlink
  <2>2. pPrev' = [u \in Timers |-> pPrev'[u]]
    BY DEF unlink
  <2> QED
    BY <2>1, <2>2
<1>5. rotation' \in [Timers -> Nat] /\ timerSlot' \in [Timers -> Slots]
      /\ tie' \in [Timers -> {"none", "object", "gone"}]
  BY <1>1 DEF Delete
<1> QED
  BY <1>2, <1>3, <1>4, <1>5 DEF Delete

\* cencel.
LEMMA CencelInv ==
  ASSUME Inv, cencel
  PROVE  Inv'
<1>1. PICK t \in named :
        /\ Callable
        /\ (Relocks /\ Fails("relock")) \/ (~Relocks /\ cencelUnlock(t))
        /\ UNCHANGED <<isThreadSave, currentSlotPos>>
  BY DEF cencel
<1>2. CASE Fails("relock") \/ Fails("deletedEvent")
  BY <1>1, <1>2, FailsInv
<1>3. CASE /\ t \in live /\ ~(phase = "callback" /\ t = timerEvent)
           /\ unlink(t, timerSlot[t]) /\ Delete(t) /\ ReadsPrev(t, timerSlot[t])
           /\ UNCHANGED <<named, phase, timerEvent>>
  <2>1. phase \in {"idle", "callback"} /\ failed = "none" /\ Whole
    BY <1>1 DEF Callable, Whole
  <2>2. Bypassed(t) /\ (slots[timerSlot[t]] = t \/ pPrev[t] \in live)
    BY <1>3, <2>1, UnlinkBypasses DEF Inv
  <2>3. /\ phase' = phase /\ timerEvent' = timerEvent /\ named' = named
        /\ isThreadSave' = isThreadSave /\ currentSlotPos' = currentSlotPos
    BY <1>1, <1>3
  <2>4. failed' = "none"
    BY <1>3, <2>1, <2>2 DEF ReadsPrev
  <2>5. Lists' /\ \A u \in live' : pPrev'[u] = nullptr <=> slots'[timerSlot'[u]] = u
    BY <1>3, <2>1, <2>2, BypassedLists DEF Inv
  <2>6. /\ slots' \in [Slots -> Timers \cup {nullptr}]
        /\ pNext' \in [Timers -> Timers \cup {nullptr}]
        /\ pPrev' \in [Timers -> Timers \cup {nullptr}]
        /\ rotation' \in [Timers -> Nat] /\ timerSlot' \in [Timers -> Slots]
        /\ tie' \in [Timers -> {"none", "object", "gone"}]
        /\ live' = live \ {t} /\ passed' = passed \ {t}
    BY <1>3, DeleteType DEF Inv
  <2>7. TypeOK'
    BY <2>3, <2>4, <2>6 DEF Inv, TypeOK, Timers, Slots, nullptr
  <2>8. TickInv'
    <3>1. CASE phase = "idle"
      BY <3>1, <2>3, <2>6 DEF Inv, TickInv, Ticking
    <3>2. CASE phase = "callback"
      <4>1. Walk /\ Ticking /\ t # timerEvent
        BY <1>3, <3>2 DEF Inv, TickInv, Ticking
      <4>2. Walk'
        BY <1>3, <2>1, <2>2, <2>3, <2>6, <4>1, WalkBypassed DEF Inv
      <4> QED
        BY <2>3, <3>2, <4>2 DEF Inv, TickInv, Ticking, nullptr
    <3> QED
      BY <2>1, <3>1, <3>2
  <2> QED
    BY <2>1, <2>3, <2>4, <2>5, <2>7, <2>8 DEF Inv, PrevInv, nullptr
<1> QED
  BY <1>1, <1>2, <1>3 DEF cencelUnlock

\* The end of an event that was due.
LEMMA DeleteEventInv ==
  ASSUME Inv, failed = "none", Ticking, timerEvent # nullptr, deleteEvent,
         UNCHANGED <<isThreadSave, currentSlotPos>>
  PROVE  Inv'
<1>1. Whole /\ Walk /\ timerEvent \in live /\ timerSlot[timerEvent] = currentSlotPos
  BY DEF Ticking, Whole, Inv, TickInv, Walk, Standing
<1>2. unlink(timerEvent, timerSlot[timerEvent]) /\ Delete(timerEvent)
  BY <1>1 DEF deleteEvent
<1>3. Bypassed(timerEvent) /\ (slots[timerSlot[timerEvent]] = timerEvent \/ pPrev[timerEvent] \in live)
  BY <1>1, <1>2, UnlinkBypasses DEF Inv
<1>4. failed' = "none"
  BY <1>1, <1>3 DEF deleteEvent, ReadsPrev
<1>5. Lists' /\ \A u \in live' : pPrev'[u] = nullptr <=> slots'[timerSlot'[u]] = u
  BY <1>1, <1>3, BypassedLists DEF Inv
<1>6. /\ slots' \in [Slots -> Timers \cup {nullptr}]
      /\ pNext' \in [Timers -> Timers \cup {nullptr}]
      /\ pPrev' \in [Timers -> Timers \cup {nullptr}]
      /\ rotation' \in [Timers -> Nat] /\ timerSlot' \in [Timers -> Slots]
      /\ tie' \in [Timers -> {"none", "object", "gone"}]
      /\ live' = live \ {timerEvent} /\ passed' = passed \ {timerEvent}
  BY <1>1, <1>2, DeleteType DEF Inv
<1>7. timerEvent' = pNext[timerEvent] /\ phase' = "tick" /\ named' = named
  BY DEF deleteEvent
<1>8. TypeOK'
  <2>1. timerEvent' \in Timers \cup {nullptr}
    BY <1>1, <1>7 DEF Inv, TypeOK
  <2> QED
    BY <1>4, <1>6, <1>7, <2>1 DEF Inv, TypeOK, Ticking, Timers, Slots, nullptr
<1>9. Walk'
  BY <1>1, <1>3, <1>6, <1>7, WalkOverDeleted DEF Inv
<1> QED
  BY <1>4, <1>5, <1>7, <1>8, <1>9 DEF Inv, PrevInv, TickInv, Ticking, nullptr

\* tick.
LEMMA TickBeginsInv ==
  ASSUME Inv, tick
  PROVE  Inv'
<1>1. CASE Fails("badSlot")
  BY <1>1, FailsInv DEF tick
<1>2. CASE /\ currentSlotPos \in Slots
           /\ phase' = "tick" /\ timerEvent' = slots[currentSlotPos]
           /\ UNCHANGED <<links, event, live, named, passed, failed>>
  <2>1. phase = "idle" /\ UNCHANGED <<isThreadSave, currentSlotPos>>
    BY DEF tick
  <2>2. TypeOK'
    <3>1. timerEvent' \in Timers \cup {nullptr}
      BY <1>2 DEF Inv, TypeOK
    <3> QED
      BY <1>2, <2>1, <3>1 DEF Inv, TypeOK, links, event, Timers, Slots, nullptr
  <2>3. Lists'
    BY <1>2, SameLists DEF Inv, links, event
  <2>4. PrevInv'
    BY <1>2, <2>1 DEF Inv, PrevInv, Whole, links, event, nullptr
  <2>5. Walk'
    <3>1. passed = {} /\ Whole
      BY <2>1 DEF Inv, TickInv, Ticking, Whole
    <3> QED
      BY <1>2, <2>1, <3>1, WalkBegins DEF Inv, links, event
  <2> QED
    BY <1>2, <2>2, <2>3, <2>4, <2>5 DEF Inv, TickInv, Ticking
<1> QED
  BY <1>1, <1>2 DEF tick

\* TurnsLeft.
LEMMA TurnsLeftInv ==
  ASSUME Inv, TurnsLeft
  PROVE  Inv'
<1>1. Ticking /\ Whole /\ Walk /\ phase = "tick"
  BY DEF TurnsLeft, InTick, Ticking, Whole, Inv, TickInv
<1>2. timerEvent \in live /\ timerEvent # nullptr
  BY <1>1 DEF TurnsLeft, Walk, Standing
<1>3. /\ UNCHANGED <<isThreadSave, currentSlotPos, links, timerSlot, tie, live, named, phase, failed>>
      /\ passed' = passed \cup {timerEvent} /\ timerEvent' = pNext[timerEvent]
  BY DEF TurnsLeft
<1>4. TypeOK'
  <2>1. rotation' \in [Timers -> Nat]
    BY <1>2 DEF TurnsLeft, Inv, TypeOK
  <2>2. timerEvent' \in Timers \cup {nullptr}
    BY <1>2, <1>3 DEF Inv, TypeOK
  <2> QED
    BY <1>2, <1>3, <2>1, <2>2 DEF Inv, TypeOK, links, Timers, Slots, nullptr
<1>5. Lists'
  BY <1>3, SameLists DEF Inv, links
<1>6. PrevInv'
  BY <1>3 DEF Inv, PrevInv, Whole, links, nullptr
<1>7. Walk'
  BY <1>1, <1>2, <1>3, WalkOverPassed DEF Inv, links
<1> QED
  BY <1>1, <1>3, <1>4, <1>5, <1>6, <1>7 DEF Inv, TickInv, Ticking

\* RunNothing and CallbackReturns.
LEMMA DeletesInv ==
  ASSUME Inv, RunNothing \/ CallbackReturns
  PROVE  Inv'
<1>1. failed = "none" /\ Ticking /\ timerEvent # nullptr
  BY DEF RunNothing, CallbackReturns, InTick, Due, Ticking, Inv, TickInv
<1>2. deleteEvent /\ UNCHANGED <<isThreadSave, currentSlotPos>>
  BY DEF RunNothing, CallbackReturns
<1> QED
  BY <1>1, <1>2, DeleteEventInv

\* run.
LEMMA RunInv ==
  ASSUME Inv, run
  PROVE  Inv'
<1>1. /\ UNCHANGED <<isThreadSave, currentSlotPos, links, event, live, named, timerEvent, passed, failed>>
      /\ phase = "tick" /\ phase' = "callback" /\ timerEvent # nullptr
  BY DEF run, InTick, Due
<1>2. TypeOK'
  BY <1>1 DEF Inv, TypeOK, links, event, Timers, Slots, nullptr
<1>3. Lists'
  BY <1>1, SameLists DEF Inv, links, event
<1>4. PrevInv'
  BY <1>1 DEF Inv, PrevInv, Whole, links, event, nullptr
<1>5. Walk'
  <2>1. Walk
    BY <1>1 DEF Inv, TickInv, Ticking
  <2> QED
    BY <1>1, <2>1, SameWalk DEF links, event
<1> QED
  BY <1>1, <1>2, <1>3, <1>4, <1>5 DEF Inv, TickInv, Ticking, nullptr

\* tickEnds.
LEMMA TickEndsInv ==
  ASSUME Inv, tickEnds
  PROVE  Inv'
<1>1. /\ UNCHANGED <<isThreadSave, links, event, live, named, timerEvent, failed>>
      /\ currentSlotPos' = (currentSlotPos + 1) % slotsNum
      /\ phase = "tick" /\ phase' = "idle" /\ passed' = {}
  BY DEF tickEnds, InTick
<1>2. TypeOK'
  <2>1. currentSlotPos' \in 0..slotsNum
    <3>1. currentSlotPos + 1 \in Int
      BY WheelAssumption DEF Inv, TypeOK
    <3>2. currentSlotPos' \in Slots
      BY <1>1, <3>1, ModSlot
    <3> QED
      BY <3>2, WheelAssumption DEF Slots
  <2> QED
    BY <1>1, <2>1 DEF Inv, TypeOK, links, event, Timers, Slots, nullptr
<1>3. Lists'
  BY <1>1, SameLists DEF Inv, links, event
<1>4. PrevInv'
  BY <1>1 DEF Inv, PrevInv, Whole, links, event, nullptr
<1> QED
  BY <1>1, <1>2, <1>3, <1>4 DEF Inv, TickInv, Ticking

\* ObjectDies.
LEMMA ObjectDiesInv ==
  ASSUME Inv, ObjectDies
  PROVE  Inv'
<1>1. PICK t \in live : tie' = [tie EXCEPT ![t] = "gone"]
  BY DEF ObjectDies
<1>2. UNCHANGED <<isThreadSave, currentSlotPos, links, rotation, timerSlot, live, named, phase,
                  timerEvent, passed, failed>>
  BY DEF ObjectDies
<1>3. TypeOK'
  <2>1. tie' \in [Timers -> {"none", "object", "gone"}]
    BY <1>1 DEF Inv, TypeOK
  <2> QED
    BY <1>2, <2>1 DEF Inv, TypeOK, links, Timers, Slots, nullptr
<1>4. Lists'
  BY <1>2, SameLists DEF Inv, links
<1>5. PrevInv'
  BY <1>2 DEF Inv, PrevInv, Whole, links, nullptr
<1>6. TickInv'
  <2>1. Walk => Walk'
    BY <1>2, SameWalk DEF links
  <2> QED
    BY <1>2, <2>1 DEF Inv, TickInv, Ticking, nullptr
<1> QED
  BY <1>2, <1>3, <1>4, <1>5, <1>6 DEF Inv

\* The slots that are not empty, and the one ~TimerWheel is at.
Full == {i \in Slots : slots[i] # nullptr}
FirstFull == CHOOSE k \in Full : \A j \in Full : k <= j

\* ~TimerWheel comes to every slot that is not empty.
LEMMA FirstFullIsFull ==
  ASSUME Full # {}
  PROVE  FirstFull \in Full
<1>1. Full \subseteq Nat
  BY WheelAssumption DEF Full, Slots
<1>2. IsWellFoundedOn(Less, Nat)
  BY NatLessThanWellFounded DEF OpToRel, Less
<1>3. PICK k \in Full : \A j \in Full : <<j, k>> \notin Less
  BY <1>1, <1>2, WFMin
<1>4. ASSUME NEW j \in Full PROVE k <= j
  <2>1. <<j, k>> \in Nat \X Nat /\ <<j, k>>[1] = j /\ <<j, k>>[2] = k
    BY <1>1
  <2>2. ~(j < k)
    BY <1>3, <2>1 DEF Less
  <2> QED
    BY <1>1, <2>2
<1> QED
  BY <1>4 DEF FirstFull

\* destroyWheel.
LEMMA DestroyInv ==
  ASSUME Inv, destroyWheel
  PROVE  Inv'
<1>1. /\ phase \in {"idle", "dying"}
      /\ UNCHANGED <<isThreadSave, currentSlotPos, pNext, pPrev, event, named, timerEvent, passed, failed>>
  BY DEF destroyWheel
<1>2. \/ Full = {} /\ phase' = "gone" /\ UNCHANGED <<slots, live>>
      \/ /\ Full # {} /\ phase' = "dying"
         /\ slots' = [slots EXCEPT ![FirstFull] = pNext[slots[FirstFull]]]
         /\ live' = live \ {slots[FirstFull]}
  BY DEF destroyWheel, Full, FirstFull
<1>3. passed = {}
  BY <1>1 DEF Inv, TickInv, Ticking
<1>4. CASE Full = {} /\ phase' = "gone" /\ UNCHANGED <<slots, live>>
  <2>1. live = {}
    BY <1>4, NoHeadsNoEvents DEF Inv, Full
  <2>2. TypeOK'
    BY <1>1, <1>4 DEF Inv, TypeOK, event, Timers, Slots, nullptr
  <2>3. Lists'
    BY <1>1, <1>4, SameLists DEF Inv, event
  <2> QED
    BY <1>1, <1>3, <1>4, <2>1, <2>2, <2>3 DEF Inv, PrevInv, Whole, TickInv, Ticking
<1>5. CASE /\ Full # {} /\ phase' = "dying"
           /\ slots' = [slots EXCEPT ![FirstFull] = pNext[slots[FirstFull]]]
           /\ live' = live \ {slots[FirstFull]}
  <2>1. FirstFull \in Slots /\ slots[FirstFull] # nullptr
    BY <1>5, FirstFullIsFull DEF Full
  <2>2. slots[FirstFull] \in live
    BY <2>1 DEF Inv, Lists, HeadInv
  <2>3. Lists'
    BY <1>1, <1>5, <2>1, BeheadedLists DEF Inv
  <2>4. TypeOK'
    <3>1. slots' \in [Slots -> Timers \cup {nullptr}]
      BY <1>5, <2>1, <2>2 DEF Inv, TypeOK
    <3> QED
      BY <1>1, <1>3, <1>5, <3>1 DEF Inv, TypeOK, event, Timers, Slots, nullptr
  <2> QED
    BY <1>1, <1>3, <1>5, <2>3, <2>4 DEF Inv, PrevInv, Whole, TickInv, Ticking
<1> QED
  BY <1>2, <1>4, <1>5

\* Every step keeps the invariant.
LEMMA NextKeepsInv == Inv /\ [Next]_vars => Inv'
<1> SUFFICES ASSUME Inv, [Next]_vars PROVE Inv'
  OBVIOUS
<1>1. CASE Next
  BY <1>1, AddInv, CencelInv, TickBeginsInv, TurnsLeftInv, DeletesInv, RunInv, TickEndsInv,
     ObjectDiesInv, DestroyInv
  DEF Next, TickSteps
<1>2. CASE UNCHANGED vars
  <2>1. TypeOK'
    BY <1>2 DEF vars, Inv, TypeOK, links, event, Timers, Slots, nullptr
  <2>2. Lists'
    BY <1>2, SameLists DEF vars, Inv, links, event
  <2>3. PrevInv'
    BY <1>2 DEF vars, Inv, PrevInv, Whole, links, event, nullptr
  <2>4. TickInv'
    <3>1. Walk => Walk'
      BY <1>2, SameWalk DEF vars, links, event
    <3> QED
      BY <1>2, <3>1 DEF vars, Inv, TickInv, Ticking, nullptr
  <2> QED
    BY <1>2, <2>1, <2>2, <2>3, <2>4 DEF vars, Inv
<1> QED
  BY <1>1, <1>2

-----------------------------------------------------------------------------
(* Theorems.                                                                *)

\* The invariant holds in every reachable state.
THEOREM InvHolds == Spec => []Inv
BY InitInv, NextKeepsInv, PTL DEF Spec

\* Every variable keeps to its type: no rotation is negative, and a tick works on a slot
\* (tickUnlock).
THEOREM TypeCorrect == Spec => []TypeOK
<1>1. Inv => TypeOK
  BY DEF Inv
<1> QED
  BY InvHolds, <1>1, PTL

\* The lists survive every mix of adding, cancelling and running, from inside callbacks too,
\* and ~TimerWheel deletes every event (addTimerUnlock, cencelUnlock, tickUnlock).
THEOREM ListsStayWhole == Spec => []ListsWellFormed
<1>1. Inv => ListsWellFormed
  <2> SUFFICES ASSUME Inv PROVE ListsWellFormed
    OBVIOUS
  <2>1. failed # "badPrev" /\ (phase = "gone" => live = {})
    BY DEF Inv
  <2>2. ASSUME phase # "dying", NEW t \in live
        PROVE  /\ IF pPrev[t] = nullptr THEN slots[timerSlot[t]] = t
                  ELSE /\ pPrev[t] \in live /\ pNext[pPrev[t]] = t
                       /\ timerSlot[pPrev[t]] = timerSlot[t] /\ slots[timerSlot[t]] # t
               /\ pNext[t] # nullptr => pNext[t] \in live /\ pPrev[pNext[t]] = t
    <3>1. pPrev[t] = nullptr <=> slots[timerSlot[t]] = t
      BY <2>1, <2>2 DEF Inv, PrevInv, Whole
    <3>2. t # nullptr
      BY DEF Inv, TypeOK, Timers, nullptr
    <3>3. slots[timerSlot[t]] = t \/ (pPrev[t] \in live /\ pNext[pPrev[t]] = t)
      BY DEF Inv, Lists, HasPlace
    <3>4. \A u \in live : pNext[u] # nullptr =>
            pNext[u] \in live /\ pPrev[pNext[u]] = u /\ timerSlot[pNext[u]] = timerSlot[u]
      BY DEF Inv, Lists, NextInv
    <3> QED
      BY <3>1, <3>2, <3>3, <3>4
  <2>3. phase \in {"tick", "callback"} /\ timerEvent # nullptr =>
          timerEvent \in live \ passed /\ timerSlot[timerEvent] = currentSlotPos
    BY DEF Inv, TickInv, Ticking, Walk, Standing
  <2> QED
    BY <2>1, <2>2, <2>3 DEF ListsWellFormed
<1> QED
  BY InvHolds, <1>1, PTL

-----------------------------------------------------------------------------
(* Delays.                                                                  *)

\* The ticks a timer has to go, and the timer whose callback is running: what Service puts
\* for the variables of Delays.
LeftOf == [t \in Timers |-> IF t \in live THEN Left(t) ELSE -1]
BusyOf == IF phase = "callback" THEN timerEvent ELSE 0

\* The slot for k ticks is k ticks away, whole turns left out.
LEMMA SlotAhead ==
  ASSUME currentSlotPos \in 0..slotsNum, NEW k \in Nat
  PROVE  /\ pos(k) \in Slots /\ (pos(k) - currentSlotPos) % slotsNum = k % slotsNum
         /\ currentSlotPos \in Slots => (pos(k) = currentSlotPos <=> k % slotsNum = 0)
<1> DEFINE m == k % slotsNum
<1>1. m \in Slots
  BY ModSlot
<1>2. pos(k) = (currentSlotPos + m) % slotsNum
  BY DEF pos
<1> HIDE DEF m
<1>3. CASE currentSlotPos + m < slotsNum
  <2>1. currentSlotPos \in Slots /\ currentSlotPos + m \in Slots /\ 0 \in Slots
    BY <1>1, <1>3, WheelAssumption DEF Slots
  <2>2. pos(k) = currentSlotPos + m
    BY <1>2, <2>1, ModSub DEF Slots
  <2>3. (currentSlotPos + m) - currentSlotPos = m - 0
    BY <1>1, <2>1 DEF Slots
  <2> QED
    BY <1>1, <2>1, <2>2, <2>3, ModSub DEF Slots, m
<1>4. CASE currentSlotPos + m >= slotsNum
  <2>1. currentSlotPos + m - slotsNum \in Slots /\ slotsNum - currentSlotPos \in 0..slotsNum
    BY <1>1, <1>4, WheelAssumption DEF Slots
  <2>2. pos(k) = currentSlotPos + m - slotsNum
    BY <1>1, <1>2, <1>4, <2>1, WheelAssumption, Z3 DEF Slots
  <2>3. (pos(k) - currentSlotPos) % slotsNum = m
    <3>1. pos(k) - currentSlotPos = m - slotsNum
      BY <1>1, <2>1, <2>2, WheelAssumption DEF Slots
    <3>2. (m - slotsNum) % slotsNum = m
      BY <1>1, WheelAssumption, Z3 DEF Slots
    <3> QED
      BY <3>1, <3>2
  <2>4. currentSlotPos \in Slots => m # 0 /\ pos(k) # currentSlotPos
    BY <1>1, <1>4, <2>2, WheelAssumption DEF Slots
  <2> QED
    BY <2>1, <2>2, <2>3, <2>4 DEF m
<1> QED
  BY <1>1, <1>3, <1>4, WheelAssumption DEF Slots

\* What Left is, for each timer.
LEMMA LeftValue ==
  ASSUME NEW t \in live
  PROVE  Left(t) = IF Ahead(t) = 0 /\ t \in passed THEN slotsNum * (rotation[t] + 1)
                   ELSE Ahead(t) + slotsNum * rotation[t]
BY DEF Left

\* A timer keeps its time as long as nothing of it changes.
LEMMA SameLeft ==
  ASSUME NEW t, currentSlotPos' = currentSlotPos, timerSlot'[t] = timerSlot[t],
         rotation'[t] = rotation[t], t \in passed' <=> t \in passed
  PROVE  Left(t)' = Left(t)
BY DEF Left, Ahead

\* The actions of Delays in terms of LeftOf and BusyOf.
LEMMA MapsTo ==
  /\ \A t \in Timers, timeout \in Timeouts :
       /\ LeftOf[t] = -1 /\ BusyOf' = BusyOf
       /\ LeftOf' = [LeftOf EXCEPT ![t] =
            IF BusyOf # 0 /\ Service!Ticks(timeout) % slotsNum = 0
            THEN Service!Ticks(timeout) + slotsNum ELSE Service!Ticks(timeout)]
       => Service!Next
  /\ \A t \in Timers :
       LeftOf' = [LeftOf EXCEPT ![t] = -1] /\ BusyOf' = BusyOf => Service!Next
  /\ \A t \in Timers :
       LeftOf[t] = 0 /\ BusyOf = 0 /\ BusyOf' = t /\ LeftOf' = LeftOf => Service!Next
  /\ BusyOf # 0 /\ LeftOf' = [LeftOf EXCEPT ![BusyOf] = -1] /\ BusyOf' = 0 => Service!Next
  /\ /\ BusyOf = 0 /\ (\A t \in Timers : LeftOf[t] # 0) /\ BusyOf' = BusyOf
     /\ LeftOf' = [t \in Timers |-> IF LeftOf[t] = -1 THEN -1 ELSE LeftOf[t] - 1]
     => Service!Next
BY DEF LeftOf, BusyOf, Service!Next, Service!Set, Service!Drop, Service!Fire, Service!Return,
       Service!Tick, Service!Off, Service!Nobody

\* A timer that is deleted is dropped.
LEMMA DropsLeft ==
  ASSUME TypeOK, NEW t \in live, live' = live \ {t}, passed' = passed \ {t},
         currentSlotPos' = currentSlotPos,
         \A u \in live \ {t} : timerSlot'[u] = timerSlot[u] /\ rotation'[u] = rotation[u]
  PROVE  LeftOf' = [LeftOf EXCEPT ![t] = -1]
<1>1. t \in Timers
  BY DEF TypeOK
<1>2. ASSUME NEW u \in Timers
      PROVE  LeftOf'[u] = IF u = t THEN -1 ELSE LeftOf[u]
  <2>1. CASE u = t
    BY <2>1 DEF LeftOf, Timers
  <2>2. CASE u # t /\ u \in live
    <3>1. Left(u)' = Left(u)
      BY <2>2, SameLeft
    <3> QED
      BY <2>2, <3>1 DEF LeftOf, Timers
  <2>3. CASE u # t /\ u \notin live
    BY <2>3 DEF LeftOf, Timers
  <2> QED
    BY <2>1, <2>2, <2>3
<1>3. LeftOf' = [u \in Timers |-> LeftOf'[u]] /\ LeftOf = [u \in Timers |-> LeftOf[u]]
  BY DEF LeftOf, Timers
<1> HIDE DEF LeftOf
<1> QED
  BY <1>1, <1>2, <1>3

\* Steps that change nothing of any timer do not show.
LEMMA ShowsNothing ==
  ASSUME UNCHANGED <<currentSlotPos, timerSlot, rotation, live, passed>>
  PROVE  LeftOf' = LeftOf
BY DEF LeftOf, Left, Ahead, Timers

\* addTimer sets a timer.
LEMMA AddMaps ==
  ASSUME Inv, addTimer
  PROVE  Service!Next \/ (LeftOf' = LeftOf /\ BusyOf' = BusyOf)
<1>1. PICK t \in Timers \ live, timeout \in Timeouts :
        /\ Callable
        /\ \/ Relocks /\ Fails("relock")
           \/ /\ ~Relocks /\ addTimerUnlock(t, timeout)
              /\ UNCHANGED <<phase, timerEvent, failed>>
        /\ UNCHANGED <<isThreadSave, currentSlotPos>>
  BY DEF addTimer
<1>2. CASE Fails("relock")
  BY <1>1, <1>2, ShowsNothing DEF Fails, event, BusyOf
<1>3. CASE addTimerUnlock(t, timeout) /\ UNCHANGED <<phase, timerEvent, failed>>
  <2> DEFINE k == Ticks(timeout)
             turns == k \div slotsNum
             p == pos(k)
             late == BusyOf # 0 /\ k % slotsNum = 0
  <2>1. timeout \in Nat /\ k \in Nat /\ k = Service!Ticks(timeout)
    BY WheelAssumption DEF Ticks, Service!Ticks
  <2>2. turns \in Nat /\ k = slotsNum * turns + (k % slotsNum) /\ k % slotsNum \in Nat
    <3> HIDE DEF k
    <3>1. slotsNum \in Nat \ {0}
      BY WheelAssumption
    <3> QED
      BY <2>1, <3>1, DivMod
  <2>3. currentSlotPos \in 0..slotsNum /\ live \subseteq Timers /\ passed \subseteq live
        /\ rotation \in [Timers -> Nat] /\ timerSlot \in [Timers -> Slots]
    BY DEF Inv, TypeOK
  <2>4. p \in Slots /\ (p - currentSlotPos) % slotsNum = k % slotsNum
        /\ (currentSlotPos \in Slots => (p = currentSlotPos <=> k % slotsNum = 0))
    BY <2>1, <2>3, SlotAhead
  <2>5. /\ rotation' = [rotation EXCEPT ![t] = turns] /\ timerSlot' = [timerSlot EXCEPT ![t] = p]
        /\ live' = live \cup {t}
        /\ passed' = IF phase = "callback" /\ p = currentSlotPos THEN passed \cup {t} ELSE passed
    BY <1>3 DEF addTimerUnlock
  <2>6. (BusyOf # 0 <=> phase = "callback") /\ (phase = "callback" => currentSlotPos \in Slots)
    BY DEF BusyOf, Inv, TypeOK, TickInv, nullptr
  <2>7. currentSlotPos' = currentSlotPos /\ BusyOf' = BusyOf
    BY <1>1, <1>3 DEF BusyOf
  <2> HIDE DEF k, turns, p
  <2>8. t \in passed' <=> late
    BY <2>3, <2>4, <2>5, <2>6
  <2> HIDE DEF late
  <2>9. rotation'[t] = turns /\ Ahead(t)' = k % slotsNum
    BY <2>3, <2>4, <2>5, <2>7 DEF Ahead
  <2>10. Left(t)' = IF late THEN k + slotsNum ELSE k
    <3>1. Left(t)' = IF Ahead(t)' = 0 /\ t \in passed' THEN slotsNum * (rotation'[t] + 1)
                     ELSE Ahead(t)' + slotsNum * rotation'[t]
      BY DEF Left
    <3>2. late => k % slotsNum = 0
      BY DEF late
    <3>3. slotsNum * (turns + 1) = slotsNum * turns + slotsNum /\ slotsNum * turns \in Nat
      BY <2>2, WheelAssumption
    <3> QED
      BY <2>2, <2>8, <2>9, <3>1, <3>2, <3>3, WheelAssumption
  <2>11. ASSUME NEW u \in Timers
         PROVE  LeftOf'[u] = IF u = t THEN IF late THEN k + slotsNum ELSE k ELSE LeftOf[u]
    <3>1. CASE u = t
      BY <2>5, <2>10, <3>1 DEF LeftOf, Timers
    <3>2. CASE u # t /\ u \in live
      <4>1. Left(u)' = Left(u)
        BY <2>3, <2>5, <2>7, <3>2, SameLeft
      <4> QED
        BY <2>5, <3>2, <4>1 DEF LeftOf, Timers
    <3>3. CASE u # t /\ u \notin live
      BY <2>5, <3>3 DEF LeftOf, Timers
    <3> QED
      BY <3>1, <3>2, <3>3
  <2>12. LeftOf' = [LeftOf EXCEPT ![t] = IF late THEN k + slotsNum ELSE k]
    <3>1. LeftOf' = [u \in Timers |-> LeftOf'[u]] /\ LeftOf = [u \in Timers |-> LeftOf[u]]
      BY DEF LeftOf, Timers
    <3> HIDE DEF LeftOf
    <3> QED
      BY <2>11, <3>1
  <2>13. LeftOf[t] = -1
    BY DEF LeftOf
  <2> QED
    BY <2>1, <2>7, <2>12, <2>13, MapsTo DEF late
<1> QED
  BY <1>1, <1>2, <1>3

\* Cancelling drops a timer.
LEMMA CencelMaps ==
  ASSUME Inv, cencel
  PROVE  Service!Next \/ (LeftOf' = LeftOf /\ BusyOf' = BusyOf)
<1>1. PICK t \in named :
        /\ Callable
        /\ (Relocks /\ Fails("relock")) \/ (~Relocks /\ cencelUnlock(t))
        /\ UNCHANGED <<isThreadSave, currentSlotPos>>
  BY DEF cencel
<1>2. CASE Fails("relock") \/ Fails("deletedEvent")
  BY <1>1, <1>2, ShowsNothing DEF Fails, event, BusyOf
<1>3. CASE /\ t \in live /\ unlink(t, timerSlot[t]) /\ Delete(t)
           /\ UNCHANGED <<named, phase, timerEvent>>
  <2>1. Whole
    BY <1>1 DEF Callable, Whole
  <2>2. Bypassed(t)
    BY <1>3, <2>1, UnlinkBypasses DEF Inv
  <2>3. LeftOf' = [LeftOf EXCEPT ![t] = -1]
    BY <1>1, <1>3, <2>2, DropsLeft DEF Inv, Bypassed, Delete
  <2> QED
    BY <1>3, <2>3, MapsTo DEF BusyOf, Inv, TypeOK
<1> QED
  BY <1>1, <1>2, <1>3 DEF cencelUnlock

\* The event a tick stands on is due now, and its deletion drops it.
LEMMA DueNow ==
  ASSUME Inv, Ticking, timerEvent # nullptr
  PROVE  /\ timerEvent \in Timers
         /\ rotation[timerEvent] = 0 => LeftOf[timerEvent] = 0
         /\ deleteEvent /\ currentSlotPos' = currentSlotPos =>
              LeftOf' = [LeftOf EXCEPT ![timerEvent] = -1] /\ BusyOf' = 0
<1>1. /\ timerEvent \in live \ passed /\ timerSlot[timerEvent] = currentSlotPos
      /\ timerEvent \in Timers /\ currentSlotPos \in Slots /\ Whole
  BY DEF Inv, TypeOK, TickInv, Walk, Standing, Ticking, Whole
<1>2. Ahead(timerEvent) = 0
  BY <1>1, ModSub, WheelAssumption DEF Ahead, Slots
<1>3. rotation[timerEvent] = 0 => LeftOf[timerEvent] = 0
  BY <1>1, <1>2, LeftValue, WheelAssumption DEF LeftOf
<1>4. ASSUME deleteEvent, currentSlotPos' = currentSlotPos
      PROVE  LeftOf' = [LeftOf EXCEPT ![timerEvent] = -1] /\ BusyOf' = 0
  <2>1. unlink(timerEvent, timerSlot[timerEvent]) /\ Delete(timerEvent) /\ phase' = "tick"
    BY <1>1, <1>4 DEF deleteEvent
  <2>2. Bypassed(timerEvent)
    BY <1>1, <2>1, UnlinkBypasses DEF Inv
  <2>3. LeftOf' = [LeftOf EXCEPT ![timerEvent] = -1]
    BY <1>1, <1>4, <2>1, <2>2, DropsLeft DEF Inv, Bypassed, Delete
  <2> QED
    BY <2>1, <2>3 DEF BusyOf
<1> QED
  BY <1>1, <1>3, <1>4

\* A turn less to go at the event the tick stands on, a turn more as it is passed.
LEMMA TurnsLeftMaps ==
  ASSUME Inv, TurnsLeft
  PROVE  LeftOf' = LeftOf /\ BusyOf' = BusyOf
<1>0. PICK t \in live \ passed : t = timerEvent
  BY DEF TurnsLeft, InTick, Inv, TickInv, Walk, Standing, Ticking
<1>1. /\ UNCHANGED <<currentSlotPos, timerSlot, live, phase>>
      /\ passed' = passed \cup {t} /\ phase = "tick"
      /\ rotation' = [rotation EXCEPT ![t] = @ - 1] /\ rotation[t] > 0
      /\ t # nullptr
  BY <1>0 DEF TurnsLeft, InTick
<1>2. /\ timerSlot[t] = currentSlotPos
      /\ t \in Timers /\ currentSlotPos \in Slots /\ live \subseteq Timers
      /\ rotation \in [Timers -> Nat]
  BY <1>0, <1>1 DEF Inv, TypeOK, TickInv, Walk, Standing, Ticking
<1>3. Ahead(t) = 0 /\ Ahead(t)' = 0
  BY <1>1, <1>2, ModSub, WheelAssumption DEF Ahead, Slots
<1>4. Left(t)' = Left(t)
  <2>1. rotation'[t] + 1 = rotation[t] /\ rotation[t] \in Nat
    BY <1>1, <1>2
  <2>2. Left(t) = 0 + slotsNum * rotation[t]
    BY <1>2, <1>3, LeftValue
  <2>3. Left(t)' = slotsNum * (rotation'[t] + 1)
    BY <1>1, <1>3 DEF Left
  <2>4. slotsNum * rotation[t] \in Nat
    BY <2>1, WheelAssumption
  <2> QED
    BY <2>1, <2>2, <2>3, <2>4
<1>5. ASSUME NEW u \in Timers
      PROVE  LeftOf'[u] = LeftOf[u]
  <2>1. CASE u = t
    BY <1>1, <1>2, <1>4, <2>1 DEF LeftOf, Timers
  <2>2. CASE u # t
    <3>1. rotation'[u] = rotation[u] /\ (u \in passed' <=> u \in passed)
      BY <1>1, <1>2, <2>2
    <3>2. Left(u)' = Left(u)
      BY <1>1, <3>1, SameLeft
    <3> QED
      BY <1>1, <3>2 DEF LeftOf, Timers
  <2> QED
    BY <2>1, <2>2
<1>6. LeftOf' = [u \in Timers |-> LeftOf'[u]] /\ LeftOf = [u \in Timers |-> LeftOf[u]]
  BY DEF LeftOf, Timers
<1>7. BusyOf' = BusyOf
  BY <1>1 DEF BusyOf
<1> HIDE DEF LeftOf
<1> QED
  BY <1>5, <1>6, <1>7

\* A tick that stands nowhere has met every event of its slot: the first it had not met
\* would have nobody to stand behind.
LEMMA NoneMissed ==
  ASSUME Inv, Ticking, timerEvent = nullptr
  PROVE  \A u \in live : timerSlot[u] = currentSlotPos => u \in passed
<1> DEFINE S == {u \in live \ passed : timerSlot[u] = currentSlotPos}
<1> SUFFICES ASSUME S # {} PROVE FALSE
  OBVIOUS
<1>1. PICK r \in [Timers -> Nat] : Numbered(r)
  BY DEF Inv, Lists, Acyclic
<1>2. live \subseteq Timers /\ nullptr \notin Timers
  BY DEF Inv, TypeOK, Timers, nullptr
<1>3. S \subseteq Timers
  BY <1>2
<1>4. PICK t \in S : \A u \in S : ~(r[u] < r[t])
  BY <1>1, <1>3, Lowest
<1>5. t \in live \ passed /\ timerSlot[t] = currentSlotPos /\ t # timerEvent
  BY <1>2
<1>6. pPrev[t] \in live \ passed
  BY <1>5 DEF Inv, TickInv, Walk, OthersBehind
<1>7. slots[timerSlot[t]] # t
  BY <1>2, <1>5, <1>6 DEF Inv, PrevInv, Whole, Ticking
<1>8. pNext[pPrev[t]] = t
  BY <1>5, <1>7 DEF Inv, Lists, HasPlace
<1>9. timerSlot[pPrev[t]] = currentSlotPos /\ r[pPrev[t]] < r[t]
  BY <1>1, <1>2, <1>5, <1>6, <1>8 DEF Inv, Lists, NextInv, Numbered
<1> QED
  BY <1>4, <1>6, <1>9

\* The end of a tick is a tick of every timer.
LEMMA TickEndsMaps ==
  ASSUME Inv, tickEnds
  PROVE  Service!Next
<1>1. /\ UNCHANGED <<timerSlot, rotation, live>> /\ currentSlotPos' = (currentSlotPos + 1) % slotsNum
      /\ phase = "tick" /\ phase' = "idle" /\ passed' = {} /\ timerEvent = nullptr
  BY DEF tickEnds, InTick, event
<1>2. /\ currentSlotPos \in Slots /\ live \subseteq Timers
      /\ rotation \in [Timers -> Nat] /\ timerSlot \in [Timers -> Slots]
  BY <1>1 DEF Inv, TypeOK
<1>3. \A u \in live : timerSlot[u] = currentSlotPos => u \in passed
  BY <1>1, NoneMissed DEF Ticking
<1>4. currentSlotPos' = IF currentSlotPos + 1 = slotsNum THEN 0 ELSE currentSlotPos + 1
  <2>1. CASE currentSlotPos + 1 = slotsNum
    BY <2>1, <1>1, WheelAssumption, Z3
  <2>2. CASE currentSlotPos + 1 # slotsNum
    <3>1. currentSlotPos + 1 \in Slots /\ 0 \in Slots
      BY <1>2, <2>2, WheelAssumption DEF Slots
    <3>2. ((currentSlotPos + 1) - 0) % slotsNum = (currentSlotPos + 1) - 0
      BY <3>1, ModSub DEF Slots
    <3> QED
      BY <1>1, <1>2, <2>2, <3>1, <3>2 DEF Slots
  <2> QED
    BY <2>1, <2>2
<1>5. currentSlotPos' \in Slots
  BY <1>2, <1>4, WheelAssumption DEF Slots
<1>6. ASSUME NEW u \in live
      PROVE  Left(u) \in Nat \ {0} /\ Left(u)' = Left(u) - 1
  <2> DEFINE a == timerSlot[u]
             n == rotation[u]
  <2>1. a \in Slots /\ n \in Nat
    BY <1>2
  <2>2. Ahead(u) = IF a >= currentSlotPos THEN a - currentSlotPos ELSE a - currentSlotPos + slotsNum
    BY <1>2, <2>1, ModSub DEF Ahead
  <2>3. Ahead(u)' = IF a >= currentSlotPos' THEN a - currentSlotPos' ELSE a - currentSlotPos' + slotsNum
    BY <1>1, <1>5, <2>1, ModSub DEF Ahead
  <2>4. Left(u)' = Ahead(u)' + slotsNum * n
    BY <1>1 DEF Left
  <2>5. Left(u) = IF a = currentSlotPos THEN slotsNum * (n + 1) ELSE Ahead(u) + slotsNum * n
    BY <1>2, <1>3, <2>1, <2>2, LeftValue, WheelAssumption DEF Slots
  <2>6. slotsNum * (n + 1) = slotsNum * n + slotsNum /\ slotsNum * n \in Nat
    BY <2>1, WheelAssumption
  <2> DEFINE m == slotsNum * n
             l == Left(u)
             l2 == Left(u)'
  <2>7. /\ l = IF a = currentSlotPos THEN m + slotsNum ELSE Ahead(u) + m
        /\ l2 = Ahead(u)' + m /\ m \in Nat
    BY <2>4, <2>5, <2>6
  <2> HIDE DEF m, l, l2, a
  <2>8. l \in Nat \ {0} /\ l2 = l - 1
    BY <1>2, <1>4, <2>1, <2>2, <2>3, <2>7, WheelAssumption DEF Slots
  <2> QED
    BY <2>8 DEF l, l2
<1>7. ASSUME NEW u \in Timers
      PROVE  LeftOf[u] # 0 /\ LeftOf'[u] = IF LeftOf[u] = -1 THEN -1 ELSE LeftOf[u] - 1
  <2>1. CASE u \in live
    <3>1. LeftOf[u] = Left(u) /\ LeftOf'[u] = Left(u)'
      BY <1>1, <2>1 DEF LeftOf, Timers
    <3> QED
      BY <1>6, <2>1, <3>1
  <2>2. CASE u \notin live
    BY <1>1, <2>2 DEF LeftOf, Timers
  <2> QED
    BY <2>1, <2>2
<1>8. LeftOf' = [u \in Timers |-> LeftOf'[u]]
  BY DEF LeftOf, Timers
<1>9. BusyOf = 0 /\ BusyOf' = BusyOf
  BY <1>1 DEF BusyOf
<1> HIDE DEF LeftOf
<1>10. LeftOf' = [u \in Timers |-> IF LeftOf[u] = -1 THEN -1 ELSE LeftOf[u] - 1]
  BY <1>7, <1>8
<1> QED
  BY <1>7, <1>9, <1>10, MapsTo

\* ~TimerWheel drops its timers.
LEMMA DestroyMaps ==
  ASSUME Inv, destroyWheel
  PROVE  Service!Next \/ (LeftOf' = LeftOf /\ BusyOf' = BusyOf)
<1>1. /\ phase \in {"idle", "dying"}
      /\ UNCHANGED <<currentSlotPos, event, passed>>
  BY DEF destroyWheel
<1>2. \/ Full = {} /\ phase' = "gone" /\ UNCHANGED live
      \/ Full # {} /\ phase' = "dying" /\ live' = live \ {slots[FirstFull]}
  BY DEF destroyWheel, Full, FirstFull
<1>3. BusyOf' = BusyOf /\ passed = {}
  BY <1>1, <1>2 DEF BusyOf, Inv, TickInv, Ticking
<1>4. CASE UNCHANGED live
  BY <1>1, <1>3, <1>4, ShowsNothing DEF event
<1>5. CASE Full # {} /\ live' = live \ {slots[FirstFull]}
  <2>1. slots[FirstFull] \in live
    BY <1>5, FirstFullIsFull DEF Full, Inv, Lists, HeadInv
  <2>2. LeftOf' = [LeftOf EXCEPT ![slots[FirstFull]] = -1]
    BY <1>1, <1>3, <1>5, <2>1, DropsLeft DEF Inv, event
  <2> QED
    BY <1>3, <2>1, <2>2, MapsTo DEF Inv, TypeOK
<1> QED
  BY <1>2, <1>4, <1>5

\* Every step of the wheel is a step of the service, or does not show.
LEMMA NextMaps ==
  ASSUME Inv, [Next]_vars
  PROVE  Service!Next \/ (LeftOf' = LeftOf /\ BusyOf' = BusyOf)
<1>1. CASE addTimer
  BY <1>1, AddMaps
<1>2. CASE cencel
  BY <1>2, CencelMaps
<1>3. CASE tick
  BY <1>3, ShowsNothing DEF tick, Fails, event, BusyOf
<1>4. CASE TurnsLeft
  BY <1>4, TurnsLeftMaps
<1>5. CASE RunNothing
  <2>1. Ticking /\ timerEvent # nullptr /\ phase = "tick" /\ deleteEvent /\ currentSlotPos' = currentSlotPos
    BY <1>5 DEF RunNothing, InTick, Due, Ticking
  <2>2. LeftOf' = [LeftOf EXCEPT ![timerEvent] = -1] /\ BusyOf' = 0 /\ timerEvent \in Timers
    BY <2>1, DueNow
  <2> QED
    BY <2>1, <2>2, MapsTo DEF BusyOf
<1>6. CASE run
  <2>1. /\ Ticking /\ timerEvent # nullptr /\ rotation[timerEvent] = 0
        /\ phase = "tick" /\ phase' = "callback" /\ timerEvent' = timerEvent
        /\ UNCHANGED <<currentSlotPos, timerSlot, rotation, live, passed>>
    BY <1>6 DEF run, InTick, Due, Ticking, event
  <2>2. LeftOf[timerEvent] = 0 /\ timerEvent \in Timers
    BY <2>1, DueNow
  <2>3. LeftOf' = LeftOf
    BY <2>1, ShowsNothing
  <2> QED
    BY <2>1, <2>2, <2>3, MapsTo DEF BusyOf
<1>7. CASE CallbackReturns
  <2>1. phase = "callback" /\ deleteEvent /\ currentSlotPos' = currentSlotPos
    BY <1>7 DEF CallbackReturns
  <2>2. Ticking /\ timerEvent # nullptr /\ BusyOf = timerEvent /\ BusyOf # 0
    BY <2>1 DEF Inv, TickInv, Ticking, BusyOf, nullptr
  <2>3. LeftOf' = [LeftOf EXCEPT ![BusyOf] = -1] /\ BusyOf' = 0
    BY <2>1, <2>2, DueNow
  <2> QED
    BY <2>2, <2>3, MapsTo
<1>8. CASE tickEnds
  BY <1>8, TickEndsMaps
<1>9. CASE ObjectDies
  BY <1>9, ShowsNothing DEF ObjectDies, BusyOf
<1>10. CASE destroyWheel
  BY <1>10, DestroyMaps
<1>11. CASE UNCHANGED vars
  BY <1>11, ShowsNothing DEF vars, event, BusyOf
<1> QED
  BY <1>1, <1>2, <1>3, <1>4, <1>5, <1>6, <1>7, <1>8, <1>9, <1>10, <1>11 DEF Next, TickSteps

\* The wheel keeps its timers' times, its safety half: every timer runs in the tick its
\* timeout names, at no other time, and not after it was cancelled; only a callback's whole
\* turns take one turn more (addTimerUnlock, tickUnlock).
THEOREM WheelKeepsTime == Spec => Service!Spec
<1>1. Init => Service!Init
  BY DEF Init, Service!Init, Service!Off, Service!Nobody
<1>2. Inv /\ [Next]_vars =>
        [Service!Next]_<<[t \in Timers |-> IF t \in live THEN Left(t) ELSE -1],
                         IF phase = "callback" THEN timerEvent ELSE 0>>
  BY NextMaps DEF LeftOf, BusyOf
<1> QED
  BY <1>1, <1>2, InvHolds, PTL DEF Spec, Service!Spec

=============================================================================
