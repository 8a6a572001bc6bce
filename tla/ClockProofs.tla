----------------------------- MODULE ClockProofs -----------------------------
(***************************************************************************)
(* What the clocks promise, for any clocks, periods, priorities, handlers  *)
(* and length of the run: that they stay in step with simulated time       *)
(* whatever the handlers do, and the rest as long as no handler changes    *)
(* the clock that is calling it.                                           *)
(***************************************************************************)
EXTENDS Clock, SequenceTheorems, TLAPS

(* The types of what decides when a clock ticks. *)
TimeType ==
    /\ time \in 0 .. MaxTime
    /\ exists \in [Clocks -> BOOLEAN] /\ scheduled \in [Clocks -> BOOLEAN]
    /\ cycle \in [Clocks -> Nat] /\ next \in [Clocks -> Nat]
    /\ queued \in [Clocks -> Nat]
    /\ running \in Clocks \cup {Event, Nothing}

(* QueuedOnce, of the clock that is calling and of a clock to come too. *)
QueueInv ==
    \A c \in Clocks :
        /\ queued[c] = IF scheduled[c] /\ running # c THEN 1 ELSE 0
        /\ running = c => scheduled[c]
        /\ ~exists[c] => ~scheduled[c]

TimeInd == TimeType /\ QueueInv /\ CycleIsTime

(* The elements of a clock's vector that hold: while the vector is being   *)
(* compacted, those that were moved up and those still to be called.       *)
Live(c, i) ==
    /\ i \in DOMAIN map[c]
    /\ running # c \/ copy = 0 \/ i < copy \/ i >= pos

(* PlacesKnown, in the middle of a tick too. *)
PlaceInv ==
    \A c \in Clocks :
        /\ \A i \in Nat : Live(c, i) =>
            active[map[c][i]] /\ clockOf[map[c][i]] = c /\ index[map[c][i]] = i - 1
        /\ \A h \in Handlers : active[h] /\ clockOf[h] = c =>
            Live(c, index[h] + 1) /\ map[c][index[h] + 1] = h

(* The loop of Clock::execute. *)
LoopInv ==
    /\ running \in Clocks =>
        /\ pos \in 1 .. Len(map[running]) + 1 /\ copy < pos
        /\ handler # Nothing => pos <= Len(map[running]) /\ handler = map[running][pos]
    /\ running \notin Clocks => pos = 0 /\ copy = 0 /\ handler = Nothing

(* A clock with handlers goes on. *)
MapInv == \A c \in Clocks : map[c] # <<>> => scheduled[c]

(* The elements before pos have been called in this tick, no others. *)
CallInv ==
    /\ \A h \in Handlers : calls[h] <= 1
    /\ running \notin Clocks => \A h \in Handlers : calls[h] = 0
    /\ running \in Clocks => \A i \in Nat : Live(running, i) =>
        calls[map[running][i]] =
            IF i < pos \/ (i = pos /\ handler # Nothing) THEN 1 ELSE 0

(* A promise is about the next call of an active handler. *)
PromiseInv ==
    \A h \in Handlers : promise[h] # 0 =>
        /\ active[h] /\ clockOf[h] \in Clocks
        /\ running # clockOf[h] => promise[h] = cycle[clockOf[h]] + 1
        /\ running = clockOf[h] => index[h] + 1 >= pos /\ promise[h] = cycle[clockOf[h]]

HandlerInd == MapInv /\ LoopInv /\ PlaceInv /\ CallInv /\ PromiseInv

ClockInd == TypeOK /\ TimeInd /\ HandlerInd

-----------------------------------------------------------------------------
(* Clocks in step with time. *)

LEMMA Division ==
    ASSUME NEW t \in Nat, NEW P \in Nat \ {0}
    PROVE  /\ t \div P \in Nat
           /\ t < (t \div P) * P + P
           /\ t % P = 0 => t = (t \div P) * P
OBVIOUS

LEMMA NextMultiple ==
    ASSUME NEW k \in Nat, NEW P \in Nat
    PROVE  (k + 1) * P = k * P + P /\ k * P \in Nat
OBVIOUS

(* What Clock::schedule sets. *)
LEMMA ScheduleTimes ==
    ASSUME TimeType, NEW c \in Clocks, Schedule(c)
    PROVE  /\ cycle' \in [Clocks -> Nat] /\ next' \in [Clocks -> Nat]
           /\ next'[c] >= time /\ next'[c] = (cycle'[c] + 1) * Period[c]
           /\ \A d \in Clocks : d # c =>
                next'[d] = next[d] /\ cycle'[d] = cycle[d] /\ queued'[d] = queued[d]
           /\ scheduled' = [scheduled EXCEPT ![c] = TRUE]
           /\ queued' = [queued EXCEPT ![c] = @ + 1]
<1> DEFINE P == Period[c]
           now == time \div P
<1>1. time \in Nat /\ P \in Nat \ {0}
  BY ClockAssumption DEF TimeType
<1>2. now \in Nat /\ time < now * P + P /\ (time % P = 0 => time = now * P)
  BY <1>1, Division
<1>3. /\ cycle' = [cycle EXCEPT ![c] = IF FiresNow(c) THEN now - 1 ELSE now]
      /\ next' = [next EXCEPT ![c] = IF FiresNow(c) THEN time ELSE now * P + P]
      /\ scheduled' = [scheduled EXCEPT ![c] = TRUE]
      /\ queued' = [queued EXCEPT ![c] = @ + 1]
  BY DEF Schedule
<1>4. FiresNow(c) => time # 0 /\ time % P = 0
  BY DEF FiresNow
<1> HIDE DEF now, P
<1>5. CASE FiresNow(c)
  <2>1. time = now * P /\ now # 0
    BY <1>1, <1>2, <1>4, <1>5
  <2>2. now - 1 \in Nat /\ (now - 1) + 1 = now
    BY <1>2, <2>1
  <2>3. cycle'[c] = now - 1 /\ next'[c] = time
    BY <1>3, <1>5 DEF TimeType
  <2>4. cycle'[c] \in Nat /\ next'[c] \in Nat /\ next'[c] = (cycle'[c] + 1) * P
    BY <1>1, <2>1, <2>2, <2>3
  <2> QED
    BY <1>1, <1>3, <1>5, <2>2, <2>3, <2>4 DEF TimeType, P
<1>6. CASE ~FiresNow(c)
  <2>1. cycle'[c] = now /\ next'[c] = now * P + P
    BY <1>3, <1>6 DEF TimeType
  <2>2. now * P + P \in Nat /\ now * P + P = (now + 1) * P
    BY <1>1, <1>2, NextMultiple
  <2> QED
    BY <1>1, <1>2, <1>3, <1>6, <2>1, <2>2 DEF TimeType, P
<1> QED
  BY <1>5, <1>6

(* A clock that stands still is started. *)
LEMMA ScheduleInd ==
    ASSUME TimeInd, NEW c \in Clocks, Schedule(c), ~scheduled[c],
           UNCHANGED <<time, running>>,
           exists' = [exists EXCEPT ![c] = TRUE]
    PROVE  TimeInd'
<1> USE ClockAssumption
<1>1. running # c /\ queued[c] = 0
  BY DEF TimeInd, QueueInv
<1>2. TimeType
  BY DEF TimeInd
<1>3. /\ cycle' \in [Clocks -> Nat] /\ next' \in [Clocks -> Nat]
      /\ next'[c] >= time /\ next'[c] = (cycle'[c] + 1) * Period[c]
      /\ \A d \in Clocks : d # c =>
            next'[d] = next[d] /\ cycle'[d] = cycle[d] /\ queued'[d] = queued[d]
      /\ scheduled' = [scheduled EXCEPT ![c] = TRUE]
      /\ queued' = [queued EXCEPT ![c] = @ + 1]
  BY <1>2, ScheduleTimes
<1>4. TimeType'
  BY <1>2, <1>3 DEF TimeType
<1>5. QueueInv'
  BY <1>1, <1>2, <1>3 DEF TimeInd, QueueInv, TimeType
<1>6. CycleIsTime'
  BY <1>1, <1>3 DEF TimeInd, CycleIsTime
<1> QED
  BY <1>4, <1>5, <1>6 DEF TimeInd

LEMMA StartTickTime ==
    ASSUME TimeInd, NEW c \in Clocks, StartTick(c)
    PROVE  TimeInd'
<1> USE ClockAssumption
<1>1. TimeType
  BY DEF TimeInd
<1>2. /\ time' = next[c] /\ next[c] \in Nat /\ next[c] <= MaxTime
      /\ queued[c] > 0 /\ running = Nothing
      /\ UNCHANGED <<exists, next>>
      /\ queued' = [queued EXCEPT ![c] = @ - 1]
  BY <1>1 DEF StartTick, TimeType
<1>3. queued[c] = 1 /\ scheduled[c] /\ queued'[c] = 0
  BY <1>1, <1>2 DEF TimeInd, QueueInv, TimeType
<1>4. next[c] = (cycle[c] + 1) * Period[c]
  BY <1>2 DEF TimeInd, CycleIsTime
<1>5. \A d \in Clocks : queued'[d] > 0 =>
            d # c /\ queued[d] > 0 /\ next[d] >= time'
  <2> SUFFICES ASSUME NEW d \in Clocks, queued'[d] > 0
               PROVE  d # c /\ queued[d] > 0 /\ next[d] >= time'
    OBVIOUS
  <2>1. d # c /\ queued[d] > 0
    BY <1>1, <1>2, <1>3 DEF TimeType
  <2>2. ~(next[d] < next[c])
    BY <2>1 DEF StartTick, IsFront, Before
  <2> QED
    BY <1>1, <1>2, <2>1, <2>2 DEF TimeType
<1>6. CASE map[c] = <<>>
  <2>1. /\ scheduled' = [scheduled EXCEPT ![c] = FALSE]
        /\ UNCHANGED <<cycle, running>>
    BY <1>6 DEF StartTick, loop
  <2>2. TimeType'
    BY <1>1, <1>2, <1>3, <2>1 DEF TimeType
  <2>3. QueueInv'
    BY <1>1, <1>2, <1>3, <2>1 DEF TimeInd, QueueInv, TimeType
  <2>4. CycleIsTime'
    BY <1>2, <1>5, <2>1 DEF TimeInd, CycleIsTime
  <2> QED
    BY <2>2, <2>3, <2>4 DEF TimeInd
<1>7. CASE map[c] # <<>>
  <2>1. /\ cycle' = [cycle EXCEPT ![c] = @ + 1]
        /\ running' = c /\ UNCHANGED scheduled
    BY <1>7 DEF StartTick
  <2>2. TimeType'
    BY <1>1, <1>2, <1>3, <2>1 DEF TimeType
  <2>3. QueueInv'
    BY <1>1, <1>2, <1>3, <2>1 DEF TimeInd, QueueInv, TimeType
  <2>4. cycle'[c] = cycle[c] + 1 /\ \A d \in Clocks : d # c => cycle'[d] = cycle[d]
    BY <1>1, <2>1 DEF TimeType
  <2>5. CycleIsTime'
    BY <1>2, <1>4, <1>5, <2>1, <2>4 DEF TimeInd, CycleIsTime
  <2> QED
    BY <2>2, <2>3, <2>5 DEF TimeInd
<1> QED
  BY <1>6, <1>7

LEMMA EndTickTime ==
    ASSUME TimeInd, NEW c \in Clocks, EndTick(c)
    PROVE  TimeInd'
<1> USE ClockAssumption
<1>1. TimeType
  BY DEF TimeInd
<1>2. /\ running = c /\ running' = Nothing
      /\ next' = [next EXCEPT ![c] = time + Period[c]]
      /\ queued' = [queued EXCEPT ![c] = @ + 1]
      /\ UNCHANGED <<time, exists, cycle, scheduled>>
  BY DEF EndTick
<1>3. cycle[c] \in Nat /\ Period[c] \in Nat \ {0} /\ time \in Nat
  BY <1>1 DEF TimeType
<1>4. queued[c] = 0 /\ scheduled[c] /\ time = cycle[c] * Period[c]
  BY <1>2 DEF TimeInd, QueueInv, CycleIsTime
<1>5. next'[c] = (cycle[c] + 1) * Period[c] /\ next'[c] >= time
  BY <1>1, <1>2, <1>3, <1>4, NextMultiple DEF TimeType
<1>6. TimeType'
  BY <1>1, <1>2, <1>3 DEF TimeType
<1>7. QueueInv'
  BY <1>1, <1>2, <1>4 DEF TimeInd, QueueInv, TimeType
<1>8. CycleIsTime'
  <2>1. \A d \in Clocks : d # c => next'[d] = next[d] /\ queued'[d] = queued[d]
    BY <1>1, <1>2 DEF TimeType
  <2> QED
    BY <1>2, <1>5, <2>1 DEF TimeInd, CycleIsTime
<1> QED
  BY <1>6, <1>7, <1>8 DEF TimeInd

LEMMA TimeStep ==
    ASSUME TimeInd, [Next]_vars
    PROVE  TimeInd'
<1> USE ClockAssumption
<1>1. TimeType
  BY DEF TimeInd
<1>2. CASE UNCHANGED <<time, exists, scheduled, cycle, next, queued, running>>
  BY <1>2 DEF TimeInd, TimeType, QueueInv, CycleIsTime
<1>3. ASSUME NEW t \in 0 .. MaxTime, StartEvent(t)
      PROVE  TimeInd'
  <2>1. /\ time' = t /\ running = Nothing /\ running' = Event
        /\ UNCHANGED <<exists, scheduled, cycle, next, queued>>
    BY <1>3 DEF StartEvent, clock
  <2>2. \A d \in Clocks : queued[d] > 0 => ~(next[d] < t)
    BY <1>3 DEF StartEvent, IsFront, Before
  <2>3. TimeType'
    BY <1>1, <2>1 DEF TimeType
  <2>4. QueueInv'
    BY <1>1, <2>1 DEF TimeInd, QueueInv
  <2>5. CycleIsTime'
    BY <1>1, <2>1, <2>2 DEF TimeInd, CycleIsTime, TimeType
  <2> QED
    BY <2>3, <2>4, <2>5 DEF TimeInd
<1>4. CASE EndEvent
  <2>1. /\ running = Event /\ running' = Nothing
        /\ UNCHANGED <<time, exists, scheduled, cycle, next, queued>>
    BY <1>4 DEF EndEvent, clock
  <2> QED
    BY <1>1, <2>1 DEF TimeInd, TimeType, QueueInv, CycleIsTime
<1>5. ASSUME NEW c \in Clocks, GetNextClockCycle(c)
      PROVE  TimeInd'
  <2>1. /\ ~scheduled[c] /\ cycle' = [cycle EXCEPT ![c] = time \div Period[c]]
        /\ UNCHANGED <<time, exists, scheduled, next, queued, running>>
    BY <1>5 DEF GetNextClockCycle, loop
  <2>2. running # c /\ queued[c] = 0
    BY <2>1 DEF TimeInd, QueueInv
  <2>3. time \in Nat /\ Period[c] \in Nat \ {0}
    BY <1>1 DEF TimeType
  <2>4. time \div Period[c] \in Nat
    BY <2>3, Division
  <2>5. TimeType'
    BY <1>1, <2>1, <2>4 DEF TimeType
  <2>6. \A d \in Clocks : d # c => cycle'[d] = cycle[d]
    BY <1>1, <2>1 DEF TimeType
  <2>7. QueueInv'
    BY <2>1 DEF TimeInd, QueueInv
  <2>8. CycleIsTime'
    BY <2>1, <2>2, <2>6 DEF TimeInd, CycleIsTime
  <2> QED
    BY <2>5, <2>7, <2>8 DEF TimeInd
<1>6. ASSUME NEW c \in Clocks, NEW h \in Handlers, RegisterClock(c, h)
      PROVE  TimeInd'
  <2>1. ~scheduled[c]
    BY <1>6 DEF RegisterClock, TimeInd, QueueInv
  <2> QED
    BY <1>6, <2>1, ScheduleInd DEF RegisterClock, loop
<1>7. ASSUME NEW c \in Clocks, NEW h \in Handlers, ReregisterClock(c, h)
      PROVE  TimeInd'
  <2>1. /\ UNCHANGED <<time, exists, running>> /\ exists[c]
        /\ \/ UNCHANGED <<scheduled, queued, cycle, next>>
           \/ ~scheduled[c] /\ Schedule(c)
    BY <1>7 DEF ReregisterClock, RegisterHandler, loop
  <2>2. exists' = [exists EXCEPT ![c] = TRUE]
    BY <1>1, <2>1 DEF TimeType
  <2> QED
    BY <1>2, <2>1, <2>2, ScheduleInd
<1>8. CASE \E c \in Clocks : StartTick(c) \/ EndTick(c)
  BY <1>8, StartTickTime, EndTickTime
<1>9. CASE \E c \in Clocks : Call(c) \/ \E remove \in BOOLEAN : Return(c, remove)
  BY <1>2, <1>9 DEF Call, Return, clock
<1>10. CASE \E h \in Handlers : UnregisterClock(h)
  BY <1>2, <1>10 DEF UnregisterClock, loop
<1>11. CASE Done \/ UNCHANGED vars
  BY <1>2, <1>11 DEF Done, vars, clock, loop
<1> QED
  BY <1>3, <1>4, <1>5, <1>6, <1>7, <1>8, <1>9, <1>10, <1>11 DEF Next

LEMMA TimeInit == Init => TimeInd
BY ClockAssumption DEF Init, TimeInd, TimeType, QueueInv, CycleIsTime

LEMMA TimeAlways == Spec => []TimeInd
BY TimeInit, TimeStep, PTL DEF Spec

(***************************************************************************)
(* Whatever the handlers register and unregister, Clock::execute runs at   *)
(* the time that belongs to its cycle, a clock that was stopped starts     *)
(* again in step (Clock::schedule), and none is inserted in the past.      *)
(***************************************************************************)
THEOREM ClocksStayInStep == Spec => []CycleIsTime
BY TimeAlways, PTL DEF TimeInd

-----------------------------------------------------------------------------
(* Vectors of handlers. *)

(* std::vector::erase. *)
Erased(s, at) == SubSeq(s, 1, at - 1) \o SubSeq(s, at + 1, Len(s))

LEMMA ErasedElements ==
    ASSUME NEW S, NEW s \in Seq(S), NEW at \in 1 .. Len(s)
    PROVE  /\ Erased(s, at) \in Seq(S)
           /\ Len(Erased(s, at)) = Len(s) - 1
           /\ \A i \in 1 .. Len(s) - 1 :
                Erased(s, at)[i] = IF i < at THEN s[i] ELSE s[i + 1]
<1> DEFINE a == SubSeq(s, 1, at - 1)
           b == SubSeq(s, at + 1, Len(s))
<1>1. Len(s) \in Nat /\ \A i \in 1 .. Len(s) : s[i] \in S
  OBVIOUS
<1>2. /\ a \in Seq(S) /\ Len(a) = at - 1
      /\ \A i \in 1 .. at - 1 : a[i] = s[i]
  <2>1. \A i \in 1 .. at - 1 : s[i] \in S
    BY <1>1
  <2>2. 1 \in Int /\ at - 1 \in Int
    BY <1>1
  <2>3. /\ a \in Seq(S) /\ Len(a) = IF 1 <= at - 1 THEN at - 1 - 1 + 1 ELSE 0
        /\ \A i \in 1 .. at - 1 - 1 + 1 : a[i] = s[1 + i - 1]
    BY <2>1, <2>2, SubSeqProperties
  <2> QED
    BY <1>1, <2>3
<1>3. /\ b \in Seq(S) /\ Len(b) = Len(s) - at
      /\ \A i \in 1 .. Len(s) - at : b[i] = s[at + i]
  <2>1. \A i \in at + 1 .. Len(s) : s[i] \in S
    BY <1>1
  <2>2. at + 1 \in Int /\ Len(s) \in Int
    BY <1>1
  <2>3. /\ b \in Seq(S)
        /\ Len(b) = IF at + 1 <= Len(s) THEN Len(s) - (at + 1) + 1 ELSE 0
        /\ \A i \in 1 .. Len(s) - (at + 1) + 1 : b[i] = s[at + 1 + i - 1]
    BY <2>1, <2>2, SubSeqProperties
  <2> QED
    BY <1>1, <2>3
<1> HIDE DEF a, b
<1>4. /\ a \o b \in Seq(S) /\ Len(a \o b) = Len(a) + Len(b)
      /\ \A i \in 1 .. Len(a) + Len(b) :
            (a \o b)[i] = IF i <= Len(a) THEN a[i] ELSE b[i - Len(a)]
  BY <1>2, <1>3, ConcatProperties
<1>5. Erased(s, at) = a \o b
  BY DEF Erased, a, b
<1>6. ASSUME NEW i \in 1 .. Len(s) - 1
      PROVE  (a \o b)[i] = IF i < at THEN s[i] ELSE s[i + 1]
  <2>1. CASE i < at
    BY <1>1, <1>2, <1>3, <1>4, <2>1
  <2>2. CASE ~(i < at)
    <3>1. (a \o b)[i] = b[i - (at - 1)]
      BY <1>1, <1>2, <1>3, <1>4, <2>2
    <3>2. i - (at - 1) \in 1 .. Len(s) - at /\ at + (i - (at - 1)) = i + 1
      BY <1>1, <2>2
    <3>3. b[i - (at - 1)] = s[at + (i - (at - 1))]
      BY <1>3, <3>2
    <3> QED
      BY <2>2, <3>1, <3>2, <3>3
  <2> QED
    BY <2>1, <2>2
<1> QED
  BY <1>1, <1>2, <1>3, <1>4, <1>5, <1>6

(* Two elements that hold are two handlers, and on one clock. *)
LEMMA PlacesDiffer ==
    ASSUME TypeOK, PlaceInv, NEW c \in Clocks, NEW d \in Clocks,
           NEW i \in Nat, NEW j \in Nat, Live(c, i), Live(d, j), map[c][i] = map[d][j]
    PROVE  c = d /\ i = j
<1>1. clockOf[map[c][i]] = c /\ index[map[c][i]] = i - 1
  BY DEF PlaceInv
<1>2. clockOf[map[d][j]] = d /\ index[map[d][j]] = j - 1
  BY DEF PlaceInv
<1> QED
  BY <1>1, <1>2

(* The element an active handler is at. *)
LEMMA PlaceOf ==
    ASSUME TypeOK, PlaceInv, NEW h \in Handlers, active[h], clockOf[h] \in Clocks
    PROVE  /\ Live(clockOf[h], index[h] + 1)
           /\ map[clockOf[h]][index[h] + 1] = h
           /\ index[h] + 1 \in 1 .. Len(map[clockOf[h]])
<1>1. PICK c \in Clocks : c = clockOf[h]
  OBVIOUS
<1>2. Live(c, index[h] + 1) /\ map[c][index[h] + 1] = h
  BY <1>1 DEF PlaceInv
<1>3. map[c] \in Seq(Handlers)
  BY DEF TypeOK
<1>4. index[h] + 1 \in 1 .. Len(map[c])
  BY <1>2, <1>3 DEF Live
<1> QED
  BY <1>1, <1>2, <1>4

(* A clock that stands still has no handlers. *)
LEMMA NobodyOn ==
    ASSUME TypeOK, PlaceInv, MapInv, NEW c \in Clocks, ~scheduled[c]
    PROVE  map[c] = <<>> /\ \A h \in Handlers : ~(active[h] /\ clockOf[h] = c)
<1>1. map[c] = <<>>
  BY DEF MapInv
<1>2. ASSUME NEW h \in Handlers, active[h], clockOf[h] = c
      PROVE  FALSE
  <2>1. index[h] + 1 \in 1 .. Len(map[c])
    BY <1>2, PlaceOf
  <2> QED
    BY <1>1, <2>1
<1> QED
  BY <1>1, <1>2

-----------------------------------------------------------------------------
(* The types of the vectors and the handlers. *)

LEMMA TypeInit == Init => TypeOK
BY ClockAssumption DEF Init, TypeOK

LEMMA PushBackType ==
    ASSUME TypeOK, NEW c \in Clocks, NEW h \in Handlers, PushBack(c, h)
    PROVE  map' \in [Clocks -> Seq(Handlers)] /\ capacity' \in [Clocks -> Nat]
<1>1. map[c] \in Seq(Handlers) /\ Append(map[c], h) \in Seq(Handlers)
  BY DEF TypeOK
<1>2. map' \in [Clocks -> Seq(Handlers)]
  BY <1>1 DEF TypeOK, PushBack
<1>3. PICK n \in Nat : capacity' = [capacity EXCEPT ![c] = n]
  <2>1. capacity[c] \in Nat /\ 2 * capacity[c] \in Nat
    BY DEF TypeOK
  <2> QED
    BY <2>1 DEF PushBack
<1> QED
  BY <1>2, <1>3 DEF TypeOK

(* The loop holds positions within the vector. *)
LEMMA LoopFacts ==
    ASSUME TypeOK, LoopInv, NEW c \in Clocks, running = c
    PROVE  /\ map[c] \in Seq(Handlers) /\ Len(map[c]) \in Nat
           /\ DOMAIN map[c] = 1 .. Len(map[c])
           /\ pos \in 1 .. Len(map[c]) + 1 /\ copy \in Nat /\ copy < pos
           /\ pos <= Len(map[c]) => map[c][pos] \in Handlers
           /\ handler # Nothing =>
                pos <= Len(map[c]) /\ handler = map[c][pos] /\ handler \in Handlers
<1>1. map[c] \in Seq(Handlers) /\ copy \in Nat
  BY DEF TypeOK
<1>2. /\ pos \in 1 .. Len(map[c]) + 1 /\ copy < pos
      /\ handler # Nothing => pos <= Len(map[c]) /\ handler = map[c][pos]
  BY DEF LoopInv
<1> QED
  BY <1>1, <1>2

(* What is left of TypeOK once TimeType is known. *)
RestType ==
    /\ priority \in Nat
    /\ map \in [Clocks -> Seq(Handlers)] /\ capacity \in [Clocks -> Nat]
    /\ clockOf \in [Handlers -> Clocks \cup {Nothing}]
    /\ active \in [Handlers -> BOOLEAN] /\ index \in [Handlers -> Nat \cup {-1}]
    /\ pos \in Nat /\ copy \in Nat /\ handler \in Handlers \cup {Nothing}
    /\ present \subseteq Handlers /\ calls \in [Handlers -> Nat]
    /\ promise \in [Handlers -> Nat]

LEMMA RegisterType ==
    ASSUME ClockInd, TimeInd', NEW c \in Clocks, NEW h \in Handlers,
           RegisterClock(c, h) \/ ReregisterClock(c, h)
    PROVE  RestType'
<1> USE ClockAssumption
<1>1. TypeOK
  BY DEF ClockInd
<1>2. Len(map[c]) \in Nat
  BY <1>1 DEF TypeOK
<1>3. cycle'[c] + 1 \in Nat
  BY DEF TimeInd, TimeType
<1>4. map' \in [Clocks -> Seq(Handlers)] /\ capacity' \in [Clocks -> Nat]
  BY <1>1, PushBackType DEF RegisterClock, ReregisterClock, RegisterHandler, TypeOK
<1>5. /\ clockOf' = [clockOf EXCEPT ![h] = c]
      /\ active' = active \/ active' = [active EXCEPT ![h] = TRUE]
      /\ UNCHANGED <<priority, loop>>
  BY DEF RegisterClock, ReregisterClock, RegisterHandler
<1>6. PICK n \in Nat : index' = index \/ index' = [index EXCEPT ![h] = n]
  BY <1>2 DEF RegisterClock, ReregisterClock, RegisterHandler
<1>7. PICK k \in Nat : promise' = promise \/ promise' = [promise EXCEPT ![h] = k]
  BY <1>3 DEF RegisterClock, ReregisterClock
<1>8. clockOf' \in [Handlers -> Clocks \cup {Nothing}]
  BY <1>1, <1>5 DEF TypeOK
<1>9. active' \in [Handlers -> BOOLEAN]
  BY <1>1, <1>5 DEF TypeOK
<1>10. index' \in [Handlers -> Nat \cup {-1}]
  BY <1>1, <1>6 DEF TypeOK
<1>11. promise' \in [Handlers -> Nat]
  BY <1>1, <1>7 DEF TypeOK
<1> QED
  BY <1>1, <1>4, <1>5, <1>8, <1>9, <1>10, <1>11 DEF RestType, TypeOK, loop

-----------------------------------------------------------------------------
(* The calls of a component. *)

(* A handler is appended to the vector of a clock that is not calling. *)
LEMMA AppendPlaces ==
    ASSUME ClockInd, NEW c \in Clocks, running # c, NEW h \in Handlers, ~active[h],
           map' = [map EXCEPT ![c] = Append(@, h)],
           clockOf' = [clockOf EXCEPT ![h] = c],
           active' = [active EXCEPT ![h] = TRUE],
           index' = [index EXCEPT ![h] = Len(map[c])],
           UNCHANGED loop
    PROVE  PlaceInv' /\ LoopInv' /\ CallInv'
<1>1. TypeOK /\ PlaceInv /\ LoopInv /\ CallInv
  BY DEF ClockInd, HandlerInd
<1>2. /\ map[c] \in Seq(Handlers) /\ Len(map[c]) \in Nat
      /\ DOMAIN map[c] = 1 .. Len(map[c])
  BY <1>1 DEF TypeOK
<1>3. /\ map'[c] \in Seq(Handlers) /\ DOMAIN map'[c] = 1 .. Len(map[c]) + 1
      /\ \A i \in 1 .. Len(map[c]) : map'[c][i] = map[c][i]
      /\ map'[c][Len(map[c]) + 1] = h
      /\ \A d \in Clocks : d # c => map'[d] = map[d]
  BY <1>1, <1>2, AppendProperties DEF TypeOK
<1>4. /\ active'[h] /\ clockOf'[h] = c /\ index'[h] = Len(map[c])
      /\ \A g \in Handlers : g # h =>
            active'[g] = active[g] /\ clockOf'[g] = clockOf[g] /\ index'[g] = index[g]
  BY <1>1 DEF TypeOK
<1>5. UNCHANGED <<running, pos, copy, handler, calls>>
  BY DEF loop
<1>6. \A d \in Clocks : \A i \in Nat : d # c => (Live(d, i)' <=> Live(d, i))
  BY <1>3, <1>5 DEF Live
<1>7. \A i \in Nat : Live(c, i)' <=> i \in 1 .. Len(map[c]) + 1
  BY <1>3, <1>5 DEF Live
<1>8. \A i \in Nat : Live(c, i) <=> i \in 1 .. Len(map[c])
  BY <1>2 DEF Live
<1>9. ASSUME NEW d \in Clocks, NEW i \in Nat, Live(d, i)'
      PROVE  active'[map'[d][i]] /\ clockOf'[map'[d][i]] = d /\ index'[map'[d][i]] = i - 1
  <2>1. CASE d = c /\ i = Len(map[c]) + 1
    BY <1>2, <1>3, <1>4, <2>1
  <2>2. CASE ~(d = c /\ i = Len(map[c]) + 1)
    <3>1. Live(d, i) /\ map'[d][i] = map[d][i]
      BY <1>2, <1>3, <1>6, <1>7, <1>8, <1>9, <2>2
    <3>2. active[map[d][i]] /\ clockOf[map[d][i]] = d /\ index[map[d][i]] = i - 1
      BY <1>1, <3>1 DEF PlaceInv
    <3>3. map[d][i] \in Handlers
      BY <1>1, <3>1 DEF TypeOK, Live
    <3> QED
      BY <1>4, <3>1, <3>2, <3>3
  <2> QED
    BY <2>1, <2>2
<1>10. ASSUME NEW g \in Handlers, NEW d \in Clocks, active'[g], clockOf'[g] = d
       PROVE  Live(d, index[g] + 1)' /\ map'[d][index'[g] + 1] = g
  <2>1. CASE g = h
    BY <1>2, <1>3, <1>4, <1>7, <1>10, <2>1
  <2>2. CASE g # h
    <3>1. active[g] /\ clockOf[g] = d /\ index'[g] = index[g]
      BY <1>4, <1>10, <2>2
    <3>2. /\ Live(d, index[g] + 1) /\ map[d][index[g] + 1] = g
          /\ index[g] + 1 \in 1 .. Len(map[d])
      BY <1>1, <3>1, PlaceOf
    <3>3. index[g] + 1 \in Nat
      BY <3>2
    <3> QED
      BY <1>2, <1>3, <1>5, <3>1, <3>2, <3>3 DEF Live
  <2> QED
    BY <2>1, <2>2
<1>11. PlaceInv'
  BY <1>9, <1>10 DEF PlaceInv
<1>12. LoopInv'
  BY <1>1, <1>3, <1>5 DEF LoopInv
<1>13. CallInv'
  BY <1>1, <1>3, <1>5, <1>6 DEF CallInv
<1> QED
  BY <1>11, <1>12, <1>13

(* A promise stays, unless the clock was standing still. *)
LEMMA PromiseKept ==
    ASSUME ClockInd, NEW c \in Clocks, NEW h \in Handlers, UNCHANGED loop,
           \A g \in Handlers : g # h =>
                /\ promise'[g] = promise[g] /\ active'[g] = active[g]
                /\ clockOf'[g] = clockOf[g] /\ index'[g] = index[g],
           running # c, promise'[h] # 0 =>
                active'[h] /\ clockOf'[h] = c /\ promise'[h] = cycle'[c] + 1,
           \A d \in Clocks : d # c => cycle'[d] = cycle[d],
           ~scheduled[c] \/ cycle'[c] = cycle[c]
    PROVE  PromiseInv'
<1>1. TypeOK /\ PlaceInv /\ MapInv /\ PromiseInv
  BY DEF ClockInd, HandlerInd
<1>2. UNCHANGED <<running, pos>>
  BY DEF loop
<1> SUFFICES ASSUME NEW g \in Handlers, promise'[g] # 0
             PROVE  /\ active'[g] /\ clockOf'[g] \in Clocks
                    /\ running' # clockOf'[g] => promise'[g] = cycle'[clockOf'[g]] + 1
                    /\ running' = clockOf'[g] =>
                            index'[g] + 1 >= pos' /\ promise'[g] = cycle'[clockOf'[g]]
  BY DEF PromiseInv
<1>3. CASE g = h
  BY <1>2, <1>3
<1>4. CASE g # h
  <2>1. /\ promise[g] # 0 /\ promise'[g] = promise[g] /\ active'[g] = active[g]
        /\ clockOf'[g] = clockOf[g] /\ index'[g] = index[g]
    BY <1>4
  <2>2. active[g] /\ clockOf[g] \in Clocks
    BY <1>1, <2>1 DEF PromiseInv
  <2>3. cycle'[clockOf[g]] = cycle[clockOf[g]]
    BY <1>1, <2>2, NobodyOn
  <2> QED
    BY <1>1, <1>2, <2>1, <2>2, <2>3 DEF PromiseInv
<1> QED
  BY <1>3, <1>4

LEMMA RegisterHandlers ==
    ASSUME ~SelfChange, ClockInd, NEW c \in Clocks, NEW h \in Handlers,
           RegisterClock(c, h) \/ ReregisterClock(c, h)
    PROVE  HandlerInd'
<1> USE ClockAssumption
<1>1. /\ TypeOK /\ TimeType /\ TimeInd /\ PlaceInv /\ LoopInv /\ CallInv /\ MapInv
      /\ PromiseInv
  BY DEF ClockInd, HandlerInd, TimeInd
<1>2. running # c /\ UNCHANGED loop
  BY DEF RegisterClock, ReregisterClock, Allowed
<1>3. CASE active[h]
  <2>1. /\ ReregisterClock(c, h) /\ clockOf[h] = c
        /\ UNCHANGED <<active, index, map, scheduled, cycle>>
        /\ clockOf' = [clockOf EXCEPT ![h] = c]
        /\ promise' = [promise EXCEPT ![h] = cycle'[c] + 1]
    BY <1>3 DEF RegisterClock, ReregisterClock, RegisterHandler
  <2>2. clockOf' = clockOf
    BY <1>1, <2>1 DEF TypeOK
  <2>3. PlaceInv' /\ LoopInv' /\ CallInv' /\ MapInv'
    BY <1>1, <1>2, <2>1, <2>2 DEF PlaceInv, LoopInv, CallInv, MapInv, Live, loop
  <2>4. /\ promise'[h] = cycle'[c] + 1
        /\ \A g \in Handlers : g # h => promise'[g] = promise[g]
    BY <1>1, <2>1 DEF TypeOK
  <2>5. PromiseInv'
    BY <1>2, <1>3, <2>1, <2>2, <2>4, PromiseKept
  <2> QED
    BY <2>3, <2>5 DEF HandlerInd
<1>4. CASE ~active[h]
  <2>1. /\ clockOf' = [clockOf EXCEPT ![h] = c]
        /\ active' = [active EXCEPT ![h] = TRUE]
        /\ map' = [map EXCEPT ![c] = Append(@, h)]
    BY <1>4 DEF RegisterClock, ReregisterClock, RegisterHandler, PushBack
  <2>2. index' = [index EXCEPT ![h] = Len(map[c])]
    <3>1. CASE RegisterClock(c, h)
      <4>1. ~scheduled[c]
        BY <1>1, <3>1 DEF RegisterClock, TimeInd, QueueInv
      <4>2. map[c] = <<>>
        BY <1>1, <4>1, NobodyOn
      <4> QED
        BY <3>1, <4>2 DEF RegisterClock
    <3>2. CASE ReregisterClock(c, h)
      BY <1>4, <3>2 DEF ReregisterClock, RegisterHandler
    <3> QED
      BY <3>1, <3>2
  <2>3. PlaceInv' /\ LoopInv' /\ CallInv'
    BY <1>2, <1>4, <2>1, <2>2, AppendPlaces
  <2>4. /\ scheduled'[c] /\ \A d \in Clocks : d # c => scheduled'[d] = scheduled[d]
        /\ \A d \in Clocks : d # c => cycle'[d] = cycle[d]
        /\ ~scheduled[c] \/ cycle'[c] = cycle[c]
    <3>1. CASE Schedule(c) /\ ~scheduled[c]
      BY <1>1, <3>1, ScheduleTimes DEF TimeType
    <3>2. CASE scheduled[c] /\ UNCHANGED <<scheduled, cycle>>
      BY <3>2
    <3>3. RegisterClock(c, h) => ~scheduled[c]
      BY <1>1 DEF RegisterClock, TimeInd, QueueInv
    <3> QED
      BY <1>4, <3>1, <3>2, <3>3 DEF RegisterClock, ReregisterClock, RegisterHandler
  <2>5. \A d \in Clocks : d # c => map'[d] = map[d]
    BY <1>1, <2>1 DEF TypeOK
  <2>6. MapInv'
    BY <1>1, <2>4, <2>5 DEF MapInv
  <2>7. promise[h] = 0
    BY <1>1, <1>4 DEF PromiseInv
  <2>8. /\ promise'[h] \in {0, cycle'[c] + 1}
        /\ \A g \in Handlers : g # h => promise'[g] = promise[g]
    BY <1>1, <2>7 DEF RegisterClock, ReregisterClock, TypeOK
  <2>9. /\ active'[h] /\ clockOf'[h] = c
        /\ \A g \in Handlers : g # h => /\ active'[g] = active[g]
                                        /\ clockOf'[g] = clockOf[g]
                                        /\ index'[g] = index[g]
    BY <1>1, <2>1, <2>2 DEF TypeOK
  <2>10. PromiseInv'
    BY <1>2, <2>4, <2>8, <2>9, PromiseKept
  <2> QED
    BY <2>3, <2>6, <2>10 DEF HandlerInd
<1> QED
  BY <1>3, <1>4

(* The handlers behind the one that is erased move up by one. *)
LEMMA ShiftedByOne ==
    ASSUME ClockInd, NEW c \in Clocks, running # c, NEW at \in 1 .. Len(map[c]),
           NEW g \in Handlers, g # map[c][at]
    PROVE  Shifted(Erased(map[c], at), at)[g] =
                IF active[g] /\ clockOf[g] = c /\ index[g] >= at
                THEN index[g] - 1 ELSE index[g]
<1> DEFINE s == Erased(map[c], at)
           ks == {k \in at .. Len(s) : s[k] = g}
<1>1. TypeOK /\ PlaceInv
  BY DEF ClockInd, HandlerInd
<1>2. /\ map[c] \in Seq(Handlers) /\ Len(map[c]) \in Nat
      /\ DOMAIN map[c] = 1 .. Len(map[c])
  BY <1>1 DEF TypeOK
<1>3. /\ Len(s) = Len(map[c]) - 1
      /\ \A i \in 1 .. Len(map[c]) - 1 :
            s[i] = IF i < at THEN map[c][i] ELSE map[c][i + 1]
  BY <1>2, ErasedElements
<1>4. Shifted(s, at)[g] =
        IF ks = {} THEN index[g] ELSE (CHOOSE k \in ks : \A m \in ks : m <= k) - 1
  BY DEF Shifted
<1>5. index[g] \in Nat \cup {-1}
  BY <1>1 DEF TypeOK
<1> HIDE DEF s
<1>6. ASSUME NEW k \in ks
      PROVE  active[g] /\ clockOf[g] = c /\ index[g] = k
  <2>1. k \in at .. Len(map[c]) - 1 /\ s[k] = g
    BY <1>3
  <2>2. k + 1 \in 1 .. Len(map[c]) /\ map[c][k + 1] = g
    BY <1>2, <1>3, <2>1
  <2>3. Live(c, k + 1) /\ k + 1 \in Nat
    BY <1>2, <2>2 DEF Live
  <2>4. active[g] /\ clockOf[g] = c /\ index[g] = k + 1 - 1
    BY <1>1, <2>2, <2>3 DEF PlaceInv
  <2> QED
    BY <2>1, <2>4
<1>7. CASE active[g] /\ clockOf[g] = c /\ index[g] >= at
  <2>1. map[c][index[g] + 1] = g /\ index[g] + 1 \in 1 .. Len(map[c])
    BY <1>1, <1>7, PlaceOf
  <2>2. index[g] \in at .. Len(map[c]) - 1 /\ index[g] \in 1 .. Len(map[c]) - 1
    BY <1>2, <1>5, <1>7, <2>1
  <2>3. index[g] \in ks
    BY <1>3, <2>1, <2>2
  <2>4. ks = {index[g]}
    BY <1>6, <2>3
  <2>5. (CHOOSE k \in ks : \A m \in ks : m <= k) = index[g]
    BY <1>5, <2>2, <2>4
  <2> QED
    BY <1>4, <1>7, <2>4, <2>5 DEF s
<1>8. CASE ~(active[g] /\ clockOf[g] = c /\ index[g] >= at)
  <2>1. ks = {}
    <3> SUFFICES ASSUME NEW k \in ks PROVE FALSE
      OBVIOUS
    <3>1. index[g] >= at
      BY <1>3, <1>6
    <3> QED
      BY <1>6, <1>8, <3>1
  <2> QED
    BY <1>4, <1>8, <2>1 DEF s
<1> QED
  BY <1>7, <1>8

LEMMA UnregisterFacts ==
    ASSUME ~SelfChange, ClockInd, NEW h \in Handlers, UnregisterClock(h),
           NEW c \in Clocks, c = clockOf[h], NEW at, at = index[h] + 1
    PROVE  /\ running # c /\ active[h] /\ at \in 1 .. Len(map[c]) /\ map[c][at] = h
           /\ map' = [map EXCEPT ![c] = Erased(map[c], at)]
           /\ active' = [active EXCEPT ![h] = FALSE]
           /\ promise' = [promise EXCEPT ![h] = 0]
           /\ index' = [g \in Handlers |->
                IF g = h THEN -1
                ELSE IF active[g] /\ clockOf[g] = c /\ index[g] >= at
                THEN index[g] - 1 ELSE index[g]]
           /\ UNCHANGED <<priority, capacity, cycle, scheduled, clockOf, loop>>
<1> USE ClockAssumption
<1>1. TypeOK /\ PlaceInv
  BY DEF ClockInd, HandlerInd
<1>2. /\ running # c /\ active[h]
      /\ map' = [map EXCEPT ![c] = Erased(map[c], at)]
      /\ active' = [active EXCEPT ![h] = FALSE]
      /\ promise' = [promise EXCEPT ![h] = 0]
      /\ index' = [Shifted(Erased(map[c], at), at) EXCEPT ![h] = -1]
      /\ UNCHANGED <<priority, capacity, cycle, scheduled, clockOf, loop>>
  BY DEF UnregisterClock, Allowed, Erased
<1>3. at \in 1 .. Len(map[c]) /\ map[c][at] = h
  BY <1>1, <1>2, PlaceOf
<1>4. \A g \in Handlers : g # h =>
        Shifted(Erased(map[c], at), at)[g] =
            IF active[g] /\ clockOf[g] = c /\ index[g] >= at
            THEN index[g] - 1 ELSE index[g]
  BY <1>2, <1>3, ShiftedByOne
<1>5. DOMAIN Shifted(Erased(map[c], at), at) = Handlers
  BY DEF Shifted
<1>6. index' = [g \in Handlers |->
                IF g = h THEN -1 ELSE Shifted(Erased(map[c], at), at)[g]]
  BY <1>2, <1>5
<1> QED
  BY <1>2, <1>3, <1>4, <1>6

LEMMA UnregisterHandlers ==
    ASSUME ~SelfChange, ClockInd, NEW h \in Handlers, UnregisterClock(h)
    PROVE  RestType' /\ HandlerInd'
<1> USE ClockAssumption
<1>1. /\ TypeOK /\ TimeType /\ TimeInd /\ PlaceInv /\ LoopInv /\ CallInv /\ MapInv
      /\ PromiseInv
  BY DEF ClockInd, HandlerInd, TimeInd
<1>2. PICK c \in Clocks : c = clockOf[h]
  BY <1>1 DEF UnregisterClock, TypeOK
<1>3. PICK at : at = index[h] + 1
  OBVIOUS
<1>4. /\ running # c /\ active[h] /\ at \in 1 .. Len(map[c]) /\ map[c][at] = h
      /\ map' = [map EXCEPT ![c] = Erased(map[c], at)]
      /\ active' = [active EXCEPT ![h] = FALSE]
      /\ promise' = [promise EXCEPT ![h] = 0]
      /\ index' = [g \in Handlers |->
           IF g = h THEN -1
           ELSE IF active[g] /\ clockOf[g] = c /\ index[g] >= at
           THEN index[g] - 1 ELSE index[g]]
      /\ UNCHANGED <<priority, capacity, cycle, scheduled, clockOf, loop>>
  BY <1>2, <1>3, UnregisterFacts
<1>5. PICK n \in Nat : n = Len(map[c]) /\ map[c] \in Seq(Handlers) /\ DOMAIN map[c] = 1 .. n
  BY <1>1 DEF TypeOK
<1>6. Erased(map[c], at) \in Seq(Handlers) /\ Len(Erased(map[c], at)) = n - 1
      /\ \A i \in 1 .. n - 1 :
            Erased(map[c], at)[i] = IF i < at THEN map[c][i] ELSE map[c][i + 1]
  BY <1>4, <1>5, ErasedElements
<1>7. /\ map'[c] \in Seq(Handlers) /\ DOMAIN map'[c] = 1 .. n - 1
      /\ \A i \in 1 .. n - 1 : map'[c][i] = IF i < at THEN map[c][i] ELSE map[c][i + 1]
      /\ \A d \in Clocks : d # c => map'[d] = map[d]
  <2>1. /\ map'[c] = Erased(map[c], at)
        /\ \A d \in Clocks : d # c => map'[d] = map[d]
    BY <1>1, <1>4 DEF TypeOK
  <2>2. map'[c] \in Seq(Handlers) /\ Len(map'[c]) = n - 1
    BY <1>6, <2>1
  <2>3. DOMAIN map'[c] = 1 .. n - 1
    BY <2>2
  <2> QED
    BY <1>6, <2>1, <2>2, <2>3
<1>8. ~active'[h] /\ \A g \in Handlers : g # h => active'[g] = active[g]
  BY <1>1, <1>4 DEF TypeOK
<1>9. \A g \in Handlers : g # h =>
        index'[g] = IF active[g] /\ clockOf[g] = c /\ index[g] >= at
                    THEN index[g] - 1 ELSE index[g]
  BY <1>4
<1>10. UNCHANGED <<running, pos, copy, handler, calls, present, clockOf>>
  BY <1>4 DEF loop
<1>11. \A d \in Clocks : \A i \in Nat : d # c => (Live(d, i)' <=> Live(d, i))
  BY <1>7, <1>10 DEF Live
<1>12. \A i \in Nat : Live(c, i)' <=> i \in 1 .. n - 1
  BY <1>4, <1>7, <1>10 DEF Live
<1>13. \A i \in Nat : Live(c, i) <=> i \in 1 .. n
  BY <1>4, <1>5 DEF Live
<1>14. ASSUME NEW d \in Clocks, NEW i \in Nat, Live(d, i)'
       PROVE  active'[map'[d][i]] /\ clockOf'[map'[d][i]] = d /\ index'[map'[d][i]] = i - 1
  <2>1. CASE d # c
    <3>1. Live(d, i) /\ map'[d][i] = map[d][i]
      BY <1>7, <1>11, <1>14, <2>1
    <3>2. active[map[d][i]] /\ clockOf[map[d][i]] = d /\ index[map[d][i]] = i - 1
      BY <1>1, <3>1 DEF PlaceInv
    <3>3. map[d][i] # h /\ map[d][i] \in Handlers
      <4>1. map[d] \in Seq(Handlers) /\ i \in DOMAIN map[d]
        BY <1>1, <3>1 DEF TypeOK, Live
      <4> QED
        BY <1>2, <2>1, <3>2, <4>1
    <3> QED
      BY <1>8, <1>9, <1>10, <2>1, <3>1, <3>2, <3>3
  <2>2. CASE d = c
    <3>1. i \in 1 .. n - 1
      BY <1>12, <1>14, <2>2
    <3>2. PICK k \in 1 .. n : /\ k = IF i < at THEN i ELSE i + 1
                              /\ map'[c][i] = map[c][k] /\ map[c][k] \in Handlers
      BY <1>5, <1>7, <3>1
    <3>3. Live(c, k) /\ Live(c, at) /\ k \in Nat /\ at \in Nat
      BY <1>4, <1>5, <1>13
    <3>4. active[map[c][k]] /\ clockOf[map[c][k]] = c /\ index[map[c][k]] = k - 1
      BY <1>1, <3>3 DEF PlaceInv
    <3>5. k # at
      BY <1>4, <1>5, <3>1, <3>2
    <3>6. map[c][k] # h
      BY <1>1, <1>4, <3>3, <3>5, PlacesDiffer
    <3>7. index'[map[c][k]] = i - 1
      BY <1>4, <1>5, <1>9, <3>1, <3>2, <3>4, <3>6
    <3> QED
      BY <1>8, <1>10, <2>2, <3>2, <3>4, <3>6, <3>7
  <2> QED
    BY <2>1, <2>2
<1>15. ASSUME NEW g \in Handlers, NEW d \in Clocks, active'[g], clockOf'[g] = d
       PROVE  Live(d, index[g] + 1)' /\ map'[d][index'[g] + 1] = g
  <2>1. g # h /\ active[g] /\ clockOf[g] = d
    BY <1>8, <1>10, <1>15
  <2>2. /\ Live(d, index[g] + 1) /\ map[d][index[g] + 1] = g
        /\ index[g] + 1 \in 1 .. Len(map[d])
    BY <1>1, <2>1, PlaceOf
  <2>3. index[g] \in Nat
    <3>1. index[g] \in Nat \cup {-1}
      BY <1>1 DEF TypeOK
    <3> QED
      BY <2>2, <3>1
  <2>4. CASE d # c
    BY <1>7, <1>9, <1>11, <2>1, <2>2, <2>3, <2>4
  <2>5. CASE d = c
    <3>1. index[g] + 1 # at
      BY <1>4, <2>1, <2>2, <2>5
    <3>2. PICK k \in Nat : k = index[g] /\ k + 1 \in 1 .. n /\ map[c][k + 1] = g
      BY <1>5, <2>2, <2>3, <2>5
    <3>3. index'[g] = IF k >= at THEN k - 1 ELSE k
      BY <1>9, <2>1, <2>5, <3>2
    <3>4. index'[g] + 1 \in 1 .. n - 1 /\ map'[c][index'[g] + 1] = g
      <4>1. at \in 1 .. n /\ k + 1 # at
        BY <1>4, <1>5, <3>1, <3>2
      <4>2. CASE k >= at
        <5>1. k \in 1 .. n - 1 /\ k - 1 + 1 = k /\ ~(k < at)
          BY <3>2, <4>1, <4>2
        <5> QED
          BY <1>7, <3>2, <3>3, <4>2, <5>1
      <4>3. CASE ~(k >= at)
        <5>1. k + 1 \in 1 .. n - 1 /\ k + 1 < at
          BY <3>2, <4>1, <4>3
        <5> QED
          BY <1>7, <3>2, <3>3, <4>3, <5>1
      <4> QED
        BY <4>2, <4>3
    <3> QED
      BY <1>4, <1>7, <1>10, <2>5, <3>4 DEF Live
  <2> QED
    BY <2>4, <2>5
<1>16. PlaceInv'
  BY <1>14, <1>15 DEF PlaceInv
<1>17. LoopInv'
  BY <1>1, <1>4, <1>7, <1>10 DEF LoopInv
<1>18. CallInv'
  BY <1>1, <1>4, <1>7, <1>10, <1>11 DEF CallInv
<1>19. MapInv'
  BY <1>1, <1>4, <1>5, <1>7 DEF MapInv
<1>20. PromiseInv'
  <2> SUFFICES ASSUME NEW g \in Handlers, promise'[g] # 0
               PROVE  /\ active'[g] /\ clockOf'[g] \in Clocks
                      /\ running' # clockOf'[g] => promise'[g] = cycle'[clockOf'[g]] + 1
                      /\ running' = clockOf'[g] =>
                            index'[g] + 1 >= pos' /\ promise'[g] = cycle'[clockOf'[g]]
    BY DEF PromiseInv
  <2>1. g # h /\ promise'[g] = promise[g]
    BY <1>1, <1>4 DEF TypeOK
  <2>2. UNCHANGED cycle
    BY <1>4
  <2> QED
    BY <1>1, <1>4, <1>8, <1>9, <1>10, <2>1, <2>2 DEF PromiseInv
<1>21. index' \in [Handlers -> Nat \cup {-1}]
  <2>1. \A g \in Handlers : index'[g] \in Nat \cup {-1}
    BY <1>1, <1>4, <1>5 DEF TypeOK
  <2> QED
    BY <1>4, <2>1
<1>22. map' \in [Clocks -> Seq(Handlers)]
  BY <1>1, <1>4, <1>6 DEF TypeOK
<1>23. active' \in [Handlers -> BOOLEAN] /\ promise' \in [Handlers -> Nat]
  BY <1>1, <1>4 DEF TypeOK
<1>24. RestType'
  BY <1>1, <1>4, <1>10, <1>21, <1>22, <1>23 DEF RestType, TypeOK
<1> QED
  BY <1>16, <1>17, <1>18, <1>19, <1>20, <1>24 DEF HandlerInd

(* Steps that leave the handlers alone and change no clock that has any. *)
LEMMA QuietHandlers ==
    ASSUME ClockInd, priority' \in Nat,
           UNCHANGED <<map, capacity, place, pos, copy, handler, present, calls, promise>>,
           running' = running \/ (running \notin Clocks /\ running' \notin Clocks),
           \A d \in Clocks : map[d] # <<>> => scheduled'[d] /\ cycle'[d] = cycle[d]
    PROVE  RestType' /\ HandlerInd'
<1>1. TypeOK /\ PlaceInv /\ LoopInv /\ CallInv /\ MapInv /\ PromiseInv
  BY DEF ClockInd, HandlerInd
<1>2. RestType'
  BY <1>1 DEF RestType, TypeOK, place
<1>3. \A d \in Clocks : running' = d <=> running = d
  OBVIOUS
<1>4. \A d \in Clocks, i \in Nat : Live(d, i)' <=> Live(d, i)
  BY <1>3 DEF Live
<1>5. UNCHANGED <<clockOf, active, index>>
  BY DEF place
<1>6. PlaceInv'
  <2>1. ASSUME NEW d \in Clocks, NEW i \in Nat, Live(d, i)'
        PROVE  active'[map'[d][i]] /\ clockOf'[map'[d][i]] = d
               /\ index'[map'[d][i]] = i - 1
    BY <1>1, <1>4, <1>5, <2>1 DEF PlaceInv
  <2>2. ASSUME NEW g \in Handlers, NEW d \in Clocks, active'[g], clockOf'[g] = d
        PROVE  Live(d, index[g] + 1)' /\ map'[d][index'[g] + 1] = g
    <3>1. Live(d, index[g] + 1) /\ map[d][index[g] + 1] = g
      BY <1>1, <1>5, <2>2 DEF PlaceInv
    <3> QED
      BY <1>3, <1>5, <3>1 DEF Live
  <2> QED
    BY <2>1, <2>2 DEF PlaceInv
<1>7. LoopInv' /\ CallInv' /\ MapInv'
  BY <1>1, <1>3, <1>4 DEF LoopInv, CallInv, MapInv
<1>8. PromiseInv'
  <2> SUFFICES ASSUME NEW g \in Handlers, promise[g] # 0
               PROVE  /\ active[g] /\ clockOf[g] \in Clocks
                      /\ running' # clockOf[g] => promise[g] = cycle'[clockOf[g]] + 1
                      /\ running' = clockOf[g] =>
                            index[g] + 1 >= pos /\ promise[g] = cycle'[clockOf[g]]
    BY <1>5 DEF PromiseInv
  <2>1. active[g] /\ clockOf[g] \in Clocks
    BY <1>1 DEF PromiseInv
  <2>2. index[g] + 1 \in 1 .. Len(map[clockOf[g]])
    BY <1>1, <2>1, PlaceOf
  <2>3. map[clockOf[g]] # <<>>
    BY <2>2
  <2>4. cycle'[clockOf[g]] = cycle[clockOf[g]]
    BY <2>1, <2>3
  <2> QED
    BY <1>1, <1>3, <2>1, <2>4 DEF PromiseInv
<1> QED
  BY <1>2, <1>6, <1>7, <1>8 DEF HandlerInd

LEMMA OtherHandlers ==
    ASSUME ClockInd,
           \/ \E t \in 0 .. MaxTime : StartEvent(t)
           \/ EndEvent \/ Done \/ UNCHANGED vars
           \/ \E c \in Clocks : GetNextClockCycle(c)
           \/ \E c \in Clocks : StartTick(c) /\ map[c] = <<>>
    PROVE  RestType' /\ HandlerInd'
<1> USE ClockAssumption
<1>1. TypeOK /\ MapInv
  BY DEF ClockInd, HandlerInd
<1>2. CASE \E t \in 0 .. MaxTime : StartEvent(t)
  BY <1>1, <1>2, QuietHandlers DEF StartEvent, clock, MapInv, TypeOK
<1>3. CASE EndEvent
  BY <1>1, <1>3, QuietHandlers DEF EndEvent, clock, MapInv, TypeOK
<1>4. CASE Done \/ UNCHANGED vars
  BY <1>1, <1>4, QuietHandlers DEF Done, vars, clock, loop, MapInv, TypeOK
<1>5. ASSUME NEW c \in Clocks, GetNextClockCycle(c)
      PROVE  RestType' /\ HandlerInd'
  <2>1. map[c] = <<>> /\ \A d \in Clocks : d # c => cycle'[d] = cycle[d]
    BY <1>1, <1>5 DEF GetNextClockCycle, MapInv, TypeOK
  <2> QED
    BY <1>1, <1>5, <2>1, QuietHandlers DEF GetNextClockCycle, loop, MapInv, TypeOK
<1>6. ASSUME NEW c \in Clocks, StartTick(c), map[c] = <<>>
      PROVE  RestType' /\ HandlerInd'
  <2>1. /\ \A d \in Clocks : d # c => scheduled'[d] = scheduled[d]
        /\ UNCHANGED <<cycle, loop>>
    BY <1>1, <1>6 DEF StartTick, TypeOK
  <2> QED
    BY <1>1, <1>6, <2>1, QuietHandlers DEF StartTick, loop, MapInv, TypeOK
<1> QED
  BY <1>2, <1>3, <1>4, <1>5, <1>6

-----------------------------------------------------------------------------
(* Clock::execute. *)

LEMMA StartTickHandlers ==
    ASSUME ClockInd, NEW c \in Clocks, StartTick(c), map[c] # <<>>
    PROVE  RestType' /\ HandlerInd'
<1> USE ClockAssumption
<1>1. TypeOK /\ PlaceInv /\ LoopInv /\ CallInv /\ MapInv /\ PromiseInv
  BY DEF ClockInd, HandlerInd
<1>2. /\ running = Nothing /\ running' = c /\ pos' = 1 /\ copy' = 0 /\ handler' = Nothing
      /\ priority' = Priority[c]
      /\ present' = {map[c][i] : i \in DOMAIN map[c]}
      /\ cycle' = [cycle EXCEPT ![c] = @ + 1]
      /\ UNCHANGED <<map, capacity, place, calls, promise, scheduled>>
  BY DEF StartTick
<1>3. UNCHANGED <<clockOf, active, index>>
  BY <1>2 DEF place
<1>4. map[c] \in Seq(Handlers) /\ Len(map[c]) \in Nat /\ DOMAIN map[c] = 1 .. Len(map[c])
  BY <1>1 DEF TypeOK
<1>5. RestType'
  <2>1. present' \subseteq Handlers
    BY <1>2, <1>4
  <2> QED
    BY <1>1, <1>2, <1>3, <2>1 DEF RestType, TypeOK
<1>6. PlaceInv'
  <2>1. ASSUME NEW d \in Clocks, NEW i \in Nat, Live(d, i)'
        PROVE  active'[map'[d][i]] /\ clockOf'[map'[d][i]] = d
               /\ index'[map'[d][i]] = i - 1
    <3>1. Live(d, i)
      BY <1>2, <2>1 DEF Live
    <3> QED
      BY <1>1, <1>2, <1>3, <3>1 DEF PlaceInv
  <2>2. ASSUME NEW g \in Handlers, NEW d \in Clocks, active'[g], clockOf'[g] = d
        PROVE  Live(d, index[g] + 1)' /\ map'[d][index'[g] + 1] = g
    <3>1. Live(d, index[g] + 1) /\ map[d][index[g] + 1] = g
      BY <1>1, <1>3, <2>2 DEF PlaceInv
    <3> QED
      BY <1>2, <1>3, <3>1 DEF Live
  <2> QED
    BY <2>1, <2>2 DEF PlaceInv
<1>7. LoopInv'
  BY <1>2, <1>4 DEF LoopInv
<1>8. CallInv'
  <2>1. \A h \in Handlers : calls'[h] = 0
    BY <1>1, <1>2 DEF CallInv
  <2>2. \A i \in Nat : Live(c, i)' => i \in 1 .. Len(map[c]) /\ map[c][i] \in Handlers
    BY <1>2, <1>4 DEF Live
  <2> QED
    BY <1>2, <2>1, <2>2 DEF CallInv
<1>9. MapInv'
  BY <1>1, <1>2 DEF MapInv
<1>10. PromiseInv'
  <2> SUFFICES ASSUME NEW g \in Handlers, promise[g] # 0
               PROVE  /\ active[g] /\ clockOf[g] \in Clocks
                      /\ c # clockOf[g] => promise[g] = cycle'[clockOf[g]] + 1
                      /\ c = clockOf[g] =>
                            index[g] + 1 >= 1 /\ promise[g] = cycle'[clockOf[g]]
    BY <1>2, <1>3 DEF PromiseInv
  <2>1. /\ active[g] /\ clockOf[g] \in Clocks
        /\ promise[g] = cycle[clockOf[g]] + 1
    BY <1>1, <1>2 DEF PromiseInv
  <2>2. index[g] + 1 \in 1 .. Len(map[clockOf[g]])
    BY <1>1, <2>1, PlaceOf
  <2>3. cycle'[c] = cycle[c] + 1 /\ \A d \in Clocks : d # c => cycle'[d] = cycle[d]
    BY <1>1, <1>2 DEF TypeOK
  <2> QED
    BY <2>1, <2>2, <2>3
<1> QED
  BY <1>5, <1>6, <1>7, <1>8, <1>9, <1>10 DEF HandlerInd

(* The handler that is next has its place, and has not been called. *)
LEMMA CallHandlers ==
    ASSUME ClockInd, NEW c \in Clocks, Call(c)
    PROVE  RestType' /\ HandlerInd'
<1> USE ClockAssumption
<1>1. TypeOK /\ PlaceInv /\ LoopInv /\ CallInv /\ MapInv /\ PromiseInv
  BY DEF ClockInd, HandlerInd
<1>2. PICK h : h = map[c][pos]
  OBVIOUS
<1>3. /\ running = c /\ handler = Nothing /\ pos <= Len(map[c])
      /\ handler' = h /\ calls' = [calls EXCEPT ![h] = @ + 1]
      /\ UNCHANGED <<priority, map, capacity, scheduled, cycle, clockOf, active, index,
                     running, pos, copy, present, promise>>
  BY <1>2 DEF Call, clock, place
<1>4. /\ Len(map[c]) \in Nat /\ DOMAIN map[c] = 1 .. Len(map[c])
      /\ map[c] \in Seq(Handlers)
      /\ pos \in 1 .. Len(map[c]) + 1 /\ copy < pos /\ h \in Handlers
  BY <1>1, <1>2, <1>3, LoopFacts
<1>5. Live(c, pos) /\ pos \in Nat
  BY <1>3, <1>4 DEF Live
<1>6. calls[h] = 0
  BY <1>1, <1>2, <1>3, <1>5 DEF CallInv
<1>7. /\ calls'[h] = 1 /\ \A g \in Handlers : g # h => calls'[g] = calls[g]
  BY <1>1, <1>3, <1>4, <1>6 DEF TypeOK
<1>8. RestType'
  <2>1. calls[h] + 1 \in Nat
    BY <1>6
  <2>2. calls' \in [Handlers -> Nat]
    BY <1>1, <1>3, <2>1 DEF TypeOK
  <2> QED
    BY <1>1, <1>3, <1>4, <2>2 DEF RestType, TypeOK
<1>9. \A d \in Clocks, i \in Nat : Live(d, i)' <=> Live(d, i)
  BY <1>3 DEF Live
<1>10. PlaceInv' /\ MapInv' /\ PromiseInv'
  BY <1>1, <1>3 DEF PlaceInv, MapInv, PromiseInv, Live
<1>11. LoopInv'
  BY <1>2, <1>3, <1>4 DEF LoopInv
<1>12. CallInv'
  <2>1. \A g \in Handlers : calls'[g] <= 1
    BY <1>1, <1>7 DEF CallInv
  <2>2. ASSUME NEW i \in Nat, Live(c, i)
        PROVE  calls'[map[c][i]] = IF i < pos \/ i = pos THEN 1 ELSE 0
    <3>1. CASE i = pos
      BY <1>2, <1>7, <3>1
    <3>2. CASE i # pos
      <4>1. map[c][i] # h /\ map[c][i] \in Handlers
        BY <1>1, <1>2, <1>4, <1>5, <2>2, <3>2, PlacesDiffer DEF Live
      <4>2. calls[map[c][i]] = IF i < pos THEN 1 ELSE 0
        BY <1>1, <1>3, <2>2, <3>2 DEF CallInv
      <4> QED
        BY <1>7, <3>2, <4>1, <4>2
    <3> QED
      BY <3>1, <3>2
  <2>3. handler' # Nothing
    BY <1>3, <1>4
  <2> QED
    BY <1>3, <1>9, <2>1, <2>2, <2>3 DEF CallInv
<1> QED
  BY <1>8, <1>10, <1>11, <1>12 DEF HandlerInd

(* What Return leaves alone, and the handler that returns. *)
LEMMA ReturnFacts ==
    ASSUME ClockInd, NEW c \in Clocks, NEW remove \in BOOLEAN, Return(c, remove)
    PROVE  /\ running = c /\ handler \in Handlers /\ handler = map[c][pos]
           /\ handler' = Nothing /\ pos' = pos + 1
           /\ Len(map[c]) \in Nat /\ DOMAIN map[c] = 1 .. Len(map[c])
           /\ map[c] \in Seq(Handlers)
           /\ pos \in 1 .. Len(map[c]) /\ copy \in 0 .. pos - 1 /\ pos \in Nat
           /\ Live(c, pos)
           /\ promise' = [promise EXCEPT ![handler] = 0]
           /\ UNCHANGED <<priority, capacity, cycle, scheduled, clockOf, running, present,
                          calls>>
<1> USE ClockAssumption
<1>1. TypeOK /\ LoopInv
  BY DEF ClockInd, HandlerInd
<1>2. /\ running = c /\ handler # Nothing /\ handler' = Nothing /\ pos' = pos + 1
      /\ promise' = [promise EXCEPT ![handler] = 0]
      /\ UNCHANGED <<priority, capacity, cycle, scheduled, clockOf, running, present,
                     calls>>
  BY DEF Return
<1>3. /\ map[c] \in Seq(Handlers) /\ Len(map[c]) \in Nat
      /\ DOMAIN map[c] = 1 .. Len(map[c])
      /\ pos \in 1 .. Len(map[c]) + 1 /\ copy \in Nat /\ copy < pos
      /\ pos <= Len(map[c]) /\ handler = map[c][pos] /\ handler \in Handlers
  BY <1>1, <1>2, LoopFacts
<1>4. Live(c, pos)
  BY <1>3 DEF Live
<1> QED
  BY <1>2, <1>3, <1>4

(* The promise to the handler that returns is fulfilled, the others stand. *)
LEMMA ReturnPromises ==
    ASSUME ClockInd, NEW c \in Clocks, NEW remove \in BOOLEAN, Return(c, remove),
           \A g \in Handlers : g # handler => active'[g] = active[g] /\ index'[g] = index[g]
    PROVE  PromiseInv'
<1>1. TypeOK /\ PlaceInv /\ PromiseInv
  BY DEF ClockInd, HandlerInd
<1>2. /\ running = c /\ handler \in Handlers /\ handler = map[c][pos]
      /\ pos' = pos + 1 /\ pos \in Nat
      /\ promise' = [promise EXCEPT ![handler] = 0]
      /\ UNCHANGED <<cycle, clockOf, running>>
  BY ReturnFacts
<1> SUFFICES ASSUME NEW g \in Handlers, promise'[g] # 0
             PROVE  /\ active'[g] /\ clockOf'[g] \in Clocks
                    /\ running' # clockOf'[g] => promise'[g] = cycle'[clockOf'[g]] + 1
                    /\ running' = clockOf'[g] =>
                          index'[g] + 1 >= pos' /\ promise'[g] = cycle'[clockOf'[g]]
  BY DEF PromiseInv
<1>3. g # handler /\ promise'[g] = promise[g]
  BY <1>1, <1>2 DEF TypeOK
<1>4. /\ active[g] /\ clockOf[g] \in Clocks
      /\ running # clockOf[g] => promise[g] = cycle[clockOf[g]] + 1
      /\ running = clockOf[g] => index[g] + 1 >= pos /\ promise[g] = cycle[clockOf[g]]
  BY <1>1, <1>3 DEF PromiseInv
<1>5. map[clockOf[g]][index[g] + 1] = g /\ index[g] + 1 \in 1 .. Len(map[clockOf[g]])
  BY <1>1, <1>4, PlaceOf
<1>6. running = clockOf[g] => index[g] + 1 # pos
  BY <1>2, <1>3, <1>5
<1>7. PICK k \in Nat : k = index[g] + 1
  BY <1>5
<1>8. running = clockOf[g] => k >= pos + 1
  BY <1>2, <1>4, <1>6, <1>7
<1>9. index'[g] + 1 = k /\ active'[g] = active[g]
  BY <1>3, <1>7
<1> QED
  BY <1>2, <1>3, <1>4, <1>8, <1>9

(***************************************************************************)
(* What Return has to leave behind: the element of the handler that        *)
(* returns is given up or, if it stays, moved to at, and all others that   *)
(* hold stay.                                                              *)
(***************************************************************************)
Moved(c, at, stays) ==
    /\ stays => /\ at \in 1 .. pos /\ map'[c][at] = handler
                /\ Live(c, at) => at = pos
    /\ \A i \in Nat : Live(c, i)' <=> (stays /\ i = at) \/ (Live(c, i) /\ i # pos)
    /\ \A i \in Nat : Live(c, i)' /\ ~(stays /\ i = at) => map'[c][i] = map[c][i]
    /\ \A d \in Clocks : d # c => map'[d] = map[d]
    /\ \A g \in Handlers : g # handler => active'[g] = active[g] /\ index'[g] = index[g]
    /\ active'[handler] = stays
    /\ stays => index'[handler] = at - 1
    /\ Len(map'[c]) = Len(map[c])

LEMMA ReturnPlaces ==
    ASSUME ClockInd, NEW c \in Clocks, NEW remove \in BOOLEAN, Return(c, remove),
           NEW at \in Nat, NEW stays \in BOOLEAN, Moved(c, at, stays),
           copy' \in 0 .. pos,
           active' \in [Handlers -> BOOLEAN], index' \in [Handlers -> Nat \cup {-1}],
           map' \in [Clocks -> Seq(Handlers)]
    PROVE  RestType' /\ HandlerInd'
<1> USE ClockAssumption
<1>0. /\ stays => /\ at \in 1 .. pos /\ map'[c][at] = handler
                  /\ Live(c, at) => at = pos
      /\ \A i \in Nat : Live(c, i)' <=> (stays /\ i = at) \/ (Live(c, i) /\ i # pos)
      /\ \A i \in Nat : Live(c, i)' /\ ~(stays /\ i = at) => map'[c][i] = map[c][i]
      /\ \A d \in Clocks : d # c => map'[d] = map[d]
      /\ \A g \in Handlers : g # handler => active'[g] = active[g] /\ index'[g] = index[g]
      /\ active'[handler] = stays
      /\ stays => index'[handler] = at - 1
      /\ Len(map'[c]) = Len(map[c])
  BY DEF Moved
<1>1. TypeOK /\ TimeInd /\ PlaceInv /\ LoopInv /\ CallInv /\ MapInv
  BY DEF ClockInd, HandlerInd
<1>2. PICK h \in Handlers, p \in Nat, n \in Nat :
            /\ h = handler /\ p = pos /\ n = Len(map[c]) /\ p \in 1 .. n /\ h = map[c][p]
  BY ReturnFacts
<1>3. /\ running = c /\ handler' = Nothing /\ pos' = p + 1
      /\ DOMAIN map[c] = 1 .. n /\ map[c] \in Seq(Handlers)
      /\ Live(c, p)
      /\ promise' = [promise EXCEPT ![h] = 0]
      /\ UNCHANGED <<priority, capacity, cycle, scheduled, clockOf, running, present,
                     calls>>
  BY <1>2, ReturnFacts
<1>4. active[h] /\ clockOf[h] = c /\ index[h] = p - 1
  BY <1>1, <1>2, <1>3 DEF PlaceInv
<1>5. \A d \in Clocks, i \in Nat : d # c => (Live(d, i)' <=> Live(d, i))
  BY <1>0, <1>3 DEF Live
<1>6. ASSUME NEW i \in Nat, Live(c, i)', ~(stays /\ i = at)
      PROVE  Live(c, i) /\ i # p /\ map'[c][i] = map[c][i] /\ map[c][i] # h
             /\ map[c][i] \in Handlers
  <2>1. Live(c, i) /\ i # p /\ map'[c][i] = map[c][i]
    BY <1>0, <1>2, <1>6
  <2>2. map[c][i] # h
    BY <1>1, <1>2, <1>3, <2>1, PlacesDiffer
  <2> QED
    BY <1>3, <2>1, <2>2 DEF Live
<1>7. ASSUME NEW d \in Clocks, NEW i \in Nat, Live(d, i)'
      PROVE  active'[map'[d][i]] /\ clockOf'[map'[d][i]] = d /\ index'[map'[d][i]] = i - 1
  <2>1. CASE d = c /\ stays /\ i = at
    BY <1>0, <1>2, <1>3, <1>4, <2>1
  <2>2. CASE d = c /\ ~(stays /\ i = at)
    <3>1. Live(c, i) /\ map'[c][i] = map[c][i] /\ map[c][i] # h /\ map[c][i] \in Handlers
      BY <1>6, <1>7, <2>2
    <3>2. active[map[c][i]] /\ clockOf[map[c][i]] = c /\ index[map[c][i]] = i - 1
      BY <1>1, <3>1 DEF PlaceInv
    <3> QED
      BY <1>0, <1>2, <1>3, <2>2, <3>1, <3>2
  <2>3. CASE d # c
    <3>1. Live(d, i) /\ map'[d][i] = map[d][i]
      BY <1>0, <1>5, <1>7, <2>3
    <3>2. active[map[d][i]] /\ clockOf[map[d][i]] = d /\ index[map[d][i]] = i - 1
      BY <1>1, <3>1 DEF PlaceInv
    <3>3. map[d] \in Seq(Handlers) /\ i \in DOMAIN map[d]
      BY <1>1, <3>1 DEF TypeOK, Live
    <3>4. map[d][i] # h /\ map[d][i] \in Handlers
      BY <1>4, <2>3, <3>2, <3>3
    <3> QED
      BY <1>0, <1>2, <1>3, <3>1, <3>2, <3>4
  <2> QED
    BY <2>1, <2>2, <2>3
<1>8. ASSUME NEW g \in Handlers, NEW d \in Clocks, active'[g], clockOf'[g] = d
      PROVE  Live(d, index[g] + 1)' /\ map'[d][index'[g] + 1] = g
  <2>1. CASE g = h
    <3>1. stays /\ d = c /\ index'[g] + 1 = at
      BY <1>0, <1>2, <1>3, <1>4, <1>8, <2>1
    <3>2. Live(c, at)' /\ map'[c][at] = g
      BY <1>0, <1>2, <2>1, <3>1
    <3> QED
      BY <3>1, <3>2 DEF Live
  <2>2. CASE g # h
    <3>1. active[g] /\ clockOf[g] = d /\ index'[g] = index[g]
      BY <1>0, <1>2, <1>3, <1>8, <2>2
    <3>2. /\ Live(d, index[g] + 1) /\ map[d][index[g] + 1] = g
          /\ index[g] + 1 \in 1 .. Len(map[d])
      BY <1>1, <3>1, PlaceOf
    <3>3. PICK k \in Nat : k = index[g] + 1
      BY <3>2
    <3>4. CASE d # c
      <4>1. Live(d, k)' /\ map'[d][k] = g
        BY <1>0, <1>5, <3>2, <3>3, <3>4
      <4> QED
        BY <3>1, <3>3, <4>1 DEF Live
    <3>5. CASE d = c
      <4>1. k # p
        BY <1>2, <2>2, <3>2, <3>3, <3>5
      <4>2. Live(c, k)'
        BY <1>0, <1>2, <3>2, <3>3, <3>5, <4>1
      <4>3. ~(stays /\ k = at)
        BY <1>0, <1>2, <3>2, <3>3, <3>5, <4>1
      <4>4. map'[c][k] = g
        BY <1>0, <3>2, <3>3, <3>5, <4>2, <4>3
      <4> QED
        BY <3>1, <3>3, <3>5, <4>2, <4>4 DEF Live
    <3> QED
      BY <3>4, <3>5
  <2> QED
    BY <2>1, <2>2
<1>9. PlaceInv'
  BY <1>7, <1>8 DEF PlaceInv
<1>10. LoopInv'
  BY <1>0, <1>2, <1>3 DEF LoopInv
<1>11. MapInv'
  BY <1>0, <1>1, <1>3 DEF MapInv, TimeInd, QueueInv
<1>12. PromiseInv'
  BY <1>0, ReturnPromises
<1>13. CallInv'
  <2>1. calls[h] = 1
    BY <1>1, <1>2, <1>3 DEF CallInv
  <2>2. ASSUME NEW i \in Nat, Live(c, i)'
        PROVE  calls[map'[c][i]] = IF i < p + 1 THEN 1 ELSE 0
    <3>1. CASE stays /\ i = at
      BY <1>0, <1>2, <2>1, <3>1
    <3>2. CASE ~(stays /\ i = at)
      <4>1. Live(c, i) /\ i # p /\ map'[c][i] = map[c][i]
        BY <1>6, <2>2, <3>2
      <4>2. calls[map[c][i]] = IF i < p THEN 1 ELSE 0
        BY <1>1, <1>2, <1>3, <4>1 DEF CallInv
      <4> QED
        BY <4>1, <4>2
    <3> QED
      BY <3>1, <3>2
  <2> QED
    BY <1>1, <1>3, <2>2 DEF CallInv
<1>14. promise' \in [Handlers -> Nat]
  BY <1>1, <1>3 DEF TypeOK
<1>15. pos' \in Nat /\ copy' \in Nat
  BY <1>2, <1>3
<1>16. RestType'
  BY <1>1, <1>3, <1>14, <1>15 DEF RestType, TypeOK
<1> QED
  BY <1>9, <1>10, <1>11, <1>12, <1>13, <1>16 DEF HandlerInd

LEMMA ReturnHandlers ==
    ASSUME ClockInd, NEW c \in Clocks, NEW remove \in BOOLEAN, Return(c, remove)
    PROVE  RestType' /\ HandlerInd'
<1> USE ClockAssumption
<1>1. TypeOK /\ PlaceInv
  BY DEF ClockInd, HandlerInd
<1>2. PICK h \in Handlers, p \in Nat, n \in Nat, q \in Nat :
            /\ h = handler /\ p = pos /\ n = Len(map[c]) /\ p \in 1 .. n /\ h = map[c][p]
            /\ q = copy /\ q < p
  BY ReturnFacts
<1>3. /\ running = c /\ running' = c /\ pos' = p + 1
      /\ DOMAIN map[c] = 1 .. n /\ map[c] \in Seq(Handlers)
  BY <1>2, ReturnFacts
<1>4. active[h] /\ index[h] = p - 1
  BY <1>1, <1>2, ReturnFacts DEF PlaceInv
<1>5. \A i \in Nat : Live(c, i) <=> i \in 1 .. n /\ (q = 0 \/ i < q \/ i >= p)
  BY <1>2, <1>3 DEF Live
<1>6. CASE remove
  <2>1. /\ active' = [active EXCEPT ![h] = FALSE]
        /\ index' = [index EXCEPT ![h] = -1]
        /\ copy' = IF q = 0 THEN p ELSE q
        /\ UNCHANGED map
    BY <1>2, <1>6 DEF Return
  <2>2. \A i \in Nat : Live(c, i)' <=> i \in 1 .. n /\ (i < copy' \/ i >= p + 1)
    BY <1>2, <1>3, <2>1 DEF Live
  <2>3. \A i \in Nat : Live(c, i)' <=> Live(c, i) /\ i # p
    BY <1>2, <1>5, <2>1, <2>2
  <2>4. /\ ~active'[h]
        /\ \A g \in Handlers : g # h => active'[g] = active[g] /\ index'[g] = index[g]
    BY <1>1, <2>1 DEF TypeOK
  <2>5. active' \in [Handlers -> BOOLEAN] /\ index' \in [Handlers -> Nat \cup {-1}]
    BY <1>1, <2>1 DEF TypeOK
  <2>6. map' \in [Clocks -> Seq(Handlers)]
    BY <1>1, <2>1 DEF TypeOK
  <2>7. copy' \in 0 .. pos /\ active'[handler] = FALSE
    BY <1>2, <2>1, <2>4, <2>5
  <2>8. Moved(c, p, FALSE)
    BY <1>2, <2>1, <2>3, <2>4, <2>7 DEF Moved
  <2> QED
    BY <2>5, <2>6, <2>7, <2>8, ReturnPlaces
<1>7. CASE ~remove /\ q = 0
  <2>1. UNCHANGED <<active, index, copy, map>>
    BY <1>2, <1>7 DEF Return
  <2>2. \A i \in Nat : Live(c, i)' <=> i \in 1 .. n
    BY <1>2, <1>3, <1>7, <2>1 DEF Live
  <2>3. \A i \in Nat : Live(c, i)' <=> i = p \/ (Live(c, i) /\ i # p)
    BY <1>2, <1>5, <1>7, <2>2
  <2>4. active' \in [Handlers -> BOOLEAN] /\ index' \in [Handlers -> Nat \cup {-1}]
    BY <1>1, <2>1 DEF TypeOK
  <2>5. map' \in [Clocks -> Seq(Handlers)]
    BY <1>1, <2>1 DEF TypeOK
  <2>6. copy' \in 0 .. pos
    <3>1. copy' = 0 /\ pos \in Nat
      BY <1>2, <1>7, <2>1
    <3> QED
      BY <3>1
  <2>7. active'[handler] = TRUE /\ index'[handler] = p - 1
    BY <1>2, <1>4, <2>1, <2>4
  <2>8. Moved(c, p, TRUE)
    BY <1>2, <2>1, <2>3, <2>7 DEF Moved
  <2> QED
    BY <2>4, <2>5, <2>6, <2>8, ReturnPlaces
<1>8. CASE ~remove /\ q # 0
  <2>1. /\ index' = [index EXCEPT ![h] = q - 1]
        /\ map' = [map EXCEPT ![c][q] = h]
        /\ copy' = q + 1 /\ UNCHANGED active
    BY <1>2, <1>8 DEF Return
  <2>2. q \in 1 .. n /\ q < p
    BY <1>2, <1>8
  <2>3. /\ map'[c] = [map[c] EXCEPT ![q] = h]
        /\ \A d \in Clocks : d # c => map'[d] = map[d]
    BY <1>1, <2>1 DEF TypeOK
  <2>4. map'[c] \in Seq(Handlers) /\ Len(map'[c]) = n /\ DOMAIN map'[c] = 1 .. n
    BY <1>2, <1>3, <2>2, <2>3, ExceptSeq
  <2>5. map'[c][q] = h /\ \A i \in 1 .. n : i # q => map'[c][i] = map[c][i]
    BY <1>3, <2>2, <2>3
  <2>6. \A i \in Nat : Live(c, i)' <=> i \in 1 .. n /\ (i < q + 1 \/ i >= p + 1)
    BY <1>3, <2>1, <2>4 DEF Live
  <2>7. \A i \in Nat : Live(c, i)' <=> i = q \/ (Live(c, i) /\ i # p)
    BY <1>2, <1>5, <2>2, <2>6
  <2>8. ~Live(c, q)
    BY <1>5, <2>2
  <2>9. index' \in [Handlers -> Nat \cup {-1}]
    BY <1>1, <2>1, <2>2 DEF TypeOK
  <2>10. active' \in [Handlers -> BOOLEAN] /\ active'[handler] = TRUE
    BY <1>1, <1>2, <1>4, <2>1 DEF TypeOK
  <2>11. map' \in [Clocks -> Seq(Handlers)]
    <3>1. map' = [map EXCEPT ![c] = map'[c]]
      BY <1>1, <2>1, <2>3 DEF TypeOK
    <3> QED
      BY <1>1, <2>4, <3>1 DEF TypeOK
  <2>12. /\ index'[handler] = q - 1
         /\ \A g \in Handlers : g # handler => index'[g] = index[g]
    BY <1>1, <1>2, <2>1 DEF TypeOK
  <2>13. \A i \in Nat : Live(c, i)' /\ i # q => map'[c][i] = map[c][i]
    BY <2>5, <2>6
  <2>14. copy' \in 0 .. pos /\ q \in 1 .. pos /\ map'[c][q] = handler
    BY <1>2, <2>1, <2>2, <2>5
  <2>15. Len(map'[c]) = Len(map[c])
    BY <1>2, <2>4
  <2>16. Moved(c, q, TRUE)
    BY <1>2, <2>1, <2>3, <2>7, <2>8, <2>10, <2>12, <2>13, <2>14, <2>15 DEF Moved
  <2> QED
    BY <2>9, <2>10, <2>11, <2>14, <2>16, ReturnPlaces
<1> QED
  BY <1>6, <1>7, <1>8

(* What holds is what is left, and nobody waits for a call any more. *)
LEMMA EndTickHandlers ==
    ASSUME ClockInd, NEW c \in Clocks, EndTick(c)
    PROVE  RestType' /\ HandlerInd'
<1> USE ClockAssumption
<1>1. TypeOK /\ TimeInd /\ PlaceInv /\ LoopInv /\ CallInv /\ MapInv /\ PromiseInv
  BY DEF ClockInd, HandlerInd
<1>2. /\ running = c /\ handler = Nothing /\ pos > Len(map[c])
      /\ map' = [map EXCEPT ![c] = IF copy = 0 THEN @ ELSE SubSeq(@, 1, copy - 1)]
      /\ running' = Nothing /\ pos' = 0 /\ copy' = 0
      /\ present' = {} /\ calls' = [h \in Handlers |-> 0]
      /\ UNCHANGED <<priority, capacity, cycle, scheduled, clockOf, active, index, handler,
                     promise>>
  BY DEF EndTick, place
<1>3. PICK n \in Nat, q \in Nat :
        /\ n = Len(map[c]) /\ q = copy /\ DOMAIN map[c] = 1 .. n
        /\ map[c] \in Seq(Handlers) /\ pos = n + 1 /\ q <= n
  <2>1. /\ map[c] \in Seq(Handlers) /\ Len(map[c]) \in Nat
        /\ DOMAIN map[c] = 1 .. Len(map[c])
        /\ pos \in 1 .. Len(map[c]) + 1 /\ copy \in Nat /\ copy < pos
    BY <1>1, <1>2, LoopFacts
  <2>2. pos = Len(map[c]) + 1 /\ copy <= Len(map[c])
    BY <1>2, <2>1
  <2> QED
    BY <2>1, <2>2
<1>4. PICK m \in 0 .. n :
        /\ m = IF q = 0 THEN n ELSE q - 1
        /\ map'[c] \in Seq(Handlers) /\ DOMAIN map'[c] = 1 .. m
        /\ \A i \in 1 .. m : map'[c][i] = map[c][i]
  <2>1. CASE q = 0
    BY <1>1, <1>2, <1>3, <2>1 DEF TypeOK
  <2>2. CASE q # 0
    <3>1. map'[c] = SubSeq(map[c], 1, q - 1)
      BY <1>1, <1>2, <1>3, <2>2 DEF TypeOK
    <3>2. 1 \in Int /\ q - 1 \in Int /\ \A i \in 1 .. q - 1 : map[c][i] \in Handlers
      BY <1>3
    <3>3. /\ SubSeq(map[c], 1, q - 1) \in Seq(Handlers)
          /\ Len(SubSeq(map[c], 1, q - 1)) = IF 1 <= q - 1 THEN q - 1 - 1 + 1 ELSE 0
          /\ \A i \in 1 .. q - 1 - 1 + 1 : SubSeq(map[c], 1, q - 1)[i] = map[c][1 + i - 1]
      BY <3>2, SubSeqProperties
    <3>4. Len(map'[c]) = q - 1 /\ map'[c] \in Seq(Handlers)
      BY <2>2, <3>1, <3>3
    <3>5. \A i \in 1 .. q - 1 : map'[c][i] = map[c][i]
      BY <3>1, <3>3
    <3> QED
      BY <1>3, <2>2, <3>4, <3>5
  <2> QED
    BY <2>1, <2>2
<1>5. \A d \in Clocks : d # c => map'[d] = map[d]
  BY <1>1, <1>2 DEF TypeOK
<1>6. \A i \in Nat : (Live(c, i)' <=> i \in 1 .. m) /\ (Live(c, i) <=> i \in 1 .. m)
  BY <1>2, <1>3, <1>4 DEF Live
<1>7. \A d \in Clocks, i \in Nat :
        /\ Live(d, i)' <=> Live(d, i)
        /\ Live(d, i) => map'[d][i] = map[d][i]
  BY <1>2, <1>4, <1>5, <1>6 DEF Live
<1>8. PlaceInv'
  <2>1. ASSUME NEW d \in Clocks, NEW i \in Nat, Live(d, i)'
        PROVE  active'[map'[d][i]] /\ clockOf'[map'[d][i]] = d
               /\ index'[map'[d][i]] = i - 1
    <3>1. Live(d, i) /\ map'[d][i] = map[d][i]
      BY <1>7, <2>1
    <3>2. active[map[d][i]] /\ clockOf[map[d][i]] = d /\ index[map[d][i]] = i - 1
      BY <1>1, <3>1 DEF PlaceInv
    <3> QED
      BY <1>2, <3>1, <3>2
  <2>2. ASSUME NEW g \in Handlers, NEW d \in Clocks, active'[g], clockOf'[g] = d
        PROVE  Live(d, index[g] + 1)' /\ map'[d][index'[g] + 1] = g
    <3>1. /\ Live(d, index[g] + 1) /\ map[d][index[g] + 1] = g
          /\ index[g] + 1 \in 1 .. Len(map[d])
      BY <1>1, <1>2, <2>2, PlaceOf
    <3>2. PICK k \in Nat : k = index[g] + 1
      BY <3>1
    <3>3. Live(d, k)' /\ map'[d][k] = g
      BY <1>7, <3>1, <3>2
    <3> QED
      BY <1>2, <3>2, <3>3 DEF Live
  <2> QED
    BY <2>1, <2>2 DEF PlaceInv
<1>9. LoopInv' /\ CallInv'
  BY <1>2 DEF LoopInv, CallInv
<1>10. MapInv'
  BY <1>1, <1>2, <1>5 DEF MapInv, TimeInd, QueueInv
<1>11. PromiseInv'
  <2> SUFFICES ASSUME NEW g \in Handlers, promise[g] # 0
               PROVE  /\ active[g] /\ clockOf[g] \in Clocks
                      /\ promise[g] = cycle[clockOf[g]] + 1
    BY <1>2 DEF PromiseInv
  <2>1. /\ active[g] /\ clockOf[g] \in Clocks
        /\ running # clockOf[g] => promise[g] = cycle[clockOf[g]] + 1
        /\ running = clockOf[g] => index[g] + 1 >= pos
    BY <1>1 DEF PromiseInv
  <2>2. index[g] + 1 \in 1 .. Len(map[clockOf[g]])
    BY <1>1, <2>1, PlaceOf
  <2>3. running # clockOf[g]
    BY <1>2, <1>3, <2>1, <2>2
  <2> QED
    BY <2>1, <2>3
<1>12. map' \in [Clocks -> Seq(Handlers)]
  <2>1. map' = [map EXCEPT ![c] = map'[c]]
    BY <1>1, <1>2 DEF TypeOK
  <2> QED
    BY <1>1, <1>4, <2>1 DEF TypeOK
<1>13. RestType'
  BY <1>1, <1>2, <1>12 DEF RestType, TypeOK
<1> QED
  BY <1>8, <1>9, <1>10, <1>11, <1>13 DEF HandlerInd

-----------------------------------------------------------------------------
(* The handlers. *)

LEMMA ClockInit == Init => ClockInd
<1> USE ClockAssumption
<1> SUFFICES ASSUME Init PROVE ClockInd
  OBVIOUS
<1>1. TypeOK /\ TimeInd
  BY TypeInit, TimeInit
<1>2. HandlerInd
  BY DEF Init, HandlerInd, MapInv, LoopInv, PlaceInv, CallInv, PromiseInv, Live
<1> QED
  BY <1>1, <1>2 DEF ClockInd

LEMMA ClockStep ==
    ASSUME ~SelfChange, ClockInd, [Next]_vars
    PROVE  ClockInd'
<1>1. TimeInd' /\ TimeType'
  BY TimeStep DEF ClockInd, TimeInd
<1>2. RestType' /\ HandlerInd'
  <2>1. CASE \E c \in Clocks, h \in Handlers : RegisterClock(c, h) \/ ReregisterClock(c, h)
    BY <1>1, <2>1, RegisterType, RegisterHandlers
  <2>2. CASE \E h \in Handlers : UnregisterClock(h)
    BY <2>2, UnregisterHandlers
  <2>3. CASE \E c \in Clocks : StartTick(c) \/ Call(c) \/ EndTick(c)
    BY <2>3, OtherHandlers, StartTickHandlers, CallHandlers, EndTickHandlers
  <2>4. CASE \E c \in Clocks, remove \in BOOLEAN : Return(c, remove)
    BY <2>4, ReturnHandlers
  <2>5. CASE \/ \E t \in 0 .. MaxTime : StartEvent(t)
             \/ EndEvent \/ Done \/ UNCHANGED vars
             \/ \E c \in Clocks : GetNextClockCycle(c)
    BY <2>5, OtherHandlers
  <2> QED
    BY <2>1, <2>2, <2>3, <2>4, <2>5 DEF Next
<1>3. TypeOK'
  BY <1>1, <1>2 DEF TypeOK, TimeType, RestType
<1> QED
  BY <1>1, <1>2, <1>3 DEF ClockInd

LEMMA ClockAlways ==
    ASSUME ~SelfChange
    PROVE  Spec => []ClockInd
BY ClockInit, ClockStep, PTL DEF Spec

(***************************************************************************)
(* If no handler changes the clock that is calling it, every active        *)
(* handler stands in its clock's vector under its index_, so that          *)
(* unregisterHandler erases the right one, and a clock with handlers is in *)
(* the TimeVortex exactly once.                                            *)
(***************************************************************************)
THEOREM PlacesAreKept ==
    ASSUME ~SelfChange
    PROVE  Spec => []Bookkeeping
<1>1. ClockInd => Bookkeeping
  <2> SUFFICES ASSUME ClockInd PROVE Bookkeeping
    OBVIOUS
  <2>1. TypeOK /\ PlaceInv /\ MapInv /\ QueueInv
    BY DEF ClockInd, HandlerInd, TimeInd
  <2>2. QueuedOnce
    BY <2>1 DEF QueuedOnce, QueueInv, MapInv
  <2>3. PlacesKnown
    <3> SUFFICES ASSUME NEW c \in Clocks, running # c
                 PROVE  /\ \A i \in DOMAIN map[c] :
                            active[map[c][i]] /\ clockOf[map[c][i]] = c
                            /\ index[map[c][i]] = i - 1
                        /\ \A h \in Handlers : active[h] /\ clockOf[h] = c =>
                            index[h] + 1 \in DOMAIN map[c] /\ map[c][index[h] + 1] = h
      BY DEF PlacesKnown
    <3>1. map[c] \in Seq(Handlers)
      BY <2>1 DEF TypeOK
    <3>2. \A i \in DOMAIN map[c] : i \in Nat
      BY <3>1
    <3> QED
      BY <2>1, <3>1, <3>2 DEF PlaceInv, Live
  <2> QED
    BY <2>1, <2>2, <2>3 DEF Bookkeeping
<1> QED
  BY <1>1, ClockAlways, PTL

(***************************************************************************)
(* And each handler that stays on a clock is called once in every tick of  *)
(* it, although Clock::execute compacts the vector it iterates over.       *)
(***************************************************************************)
THEOREM HandlersAreCalled ==
    ASSUME ~SelfChange
    PROVE  Spec => []EveryHandlerCalled
<1>1. ClockInd => EveryHandlerCalled
  <2> SUFFICES ASSUME ClockInd, running \in Clocks, handler = Nothing,
                      pos > Len(map[running]), NEW h \in Handlers
               PROVE  /\ calls[h] <= 1
                      /\ active[h] /\ clockOf[h] = running => calls[h] = 1
    BY DEF EveryHandlerCalled
  <2>1. TypeOK /\ PlaceInv /\ CallInv /\ LoopInv
    BY DEF ClockInd, HandlerInd
  <2>2. ASSUME active[h], clockOf[h] = running
        PROVE  calls[h] = 1
    <3>1. /\ Live(running, index[h] + 1) /\ map[running][index[h] + 1] = h
          /\ index[h] + 1 \in 1 .. Len(map[running])
      BY <2>1, <2>2, PlaceOf
    <3>2. Len(map[running]) \in Nat /\ pos \in Nat
      BY <2>1 DEF TypeOK
    <3>3. PICK k \in Nat : k = index[h] + 1 /\ k < pos
      BY <3>1, <3>2
    <3> QED
      BY <2>1, <3>1, <3>3 DEF CallInv
  <2> QED
    BY <2>1, <2>2 DEF CallInv
<1> QED
  BY <1>1, ClockAlways, PTL

(***************************************************************************)
(* And the cycle that Clock::getNextCycle returns to reregisterClock is    *)
(* the one the handler is next called with, also when the clock had been   *)
(* standing still or is about to fire at the current time.                 *)
(***************************************************************************)
THEOREM PromisesAreKept ==
    ASSUME ~SelfChange
    PROVE  Spec => []NextCycleIsKept
<1>1. ClockInd => NextCycleIsKept
  <2> SUFFICES ASSUME ClockInd, NEW c \in Clocks, running = c, handler = Nothing,
                      pos <= Len(map[c]), promise[map[c][pos]] # 0
               PROVE  promise[map[c][pos]] = cycle[c]
    BY DEF NextCycleIsKept
  <2>1. TypeOK /\ PlaceInv /\ LoopInv /\ PromiseInv
    BY DEF ClockInd, HandlerInd
  <2>2. /\ DOMAIN map[c] = 1 .. Len(map[c]) /\ pos \in 1 .. Len(map[c]) + 1
        /\ map[c][pos] \in Handlers /\ Len(map[c]) \in Nat
    BY <2>1, LoopFacts
  <2>3. Live(c, pos) /\ pos \in Nat
    BY <2>2 DEF Live
  <2>4. clockOf[map[c][pos]] = c
    BY <2>1, <2>3 DEF PlaceInv
  <2> QED
    BY <2>1, <2>2, <2>4 DEF PromiseInv
<1> QED
  BY <1>1, ClockAlways, PTL
=============================================================================
