-------------------------------- MODULE Clock --------------------------------
(***************************************************************************)
(* Clocks and their handlers.  A Clock is an activity that puts itself     *)
(* back into the TimeVortex once per period and calls its handlers in      *)
(* turn.  It stops when it finds none, and must start again in step with   *)
(* simulated time when one is registered.  A handler leaves by returning   *)
(* true or by being unregistered, and knows its place in the clock's       *)
(* vector, which is compacted while the handlers are being called.         *)
(*                                                                         *)
(* The handlers of events and of clocks call registerClock,                *)
(* reregisterClock, unregisterClock and getNextClockCycle as often as they *)
(* like.  All steps are those of one thread, during the run loop.          *)
(***************************************************************************)
EXTENDS Integers, Sequences

CONSTANTS
    Clocks,         \* keys of Simulation::clockMap
    Period,         \* the factor of a clock's period, in core cycles
    Priority,       \* the priority of a clock
    Handlers,       \* Clock::HandlerBase objects
    EventPriority,  \* EVENTPRIORITY
    SelfChange,     \* handlers (un)register handlers of the clock that is calling
    MaxTime         \* bound: simulated time

Nothing == "nothing"
Event == "event"

ASSUME ClockAssumption ==
    /\ Nothing \notin Clocks \cup Handlers /\ Event \notin Clocks
    /\ Period \in [Clocks -> Nat \ {0}]
    /\ Priority \in [Clocks -> Nat]
    /\ EventPriority \in Nat
    /\ SelfChange \in BOOLEAN
    /\ MaxTime \in Nat

VARIABLES
    time,           \* currentSimCycle
    priority,       \* currentPriority
    exists,         \* the clock is in clockMap
    map,            \* static_handler_map_
    capacity,       \* and the elements it has room for
    cycle,          \* current_cycle_
    scheduled,      \* scheduled_
    next,           \* delivery time of the clock
    queued,         \* how often the clock is in the TimeVortex
    clockOf,        \* clock_ of a handler
    active, index,  \* active_ and index_ of a handler
    running,        \* the activity being executed: a clock, Event or Nothing
    pos, copy,      \* call_iter (sop_iter) and copy_iter, 0 before compaction
    handler,        \* the handler being called, or Nothing
    present, calls, \* history of this tick: handlers at its start, and calls
    promise         \* history: the cycle reregisterClock has announced, 0 for none

place == <<clockOf, active, index>>
clock == <<exists, map, capacity, cycle, scheduled, next, queued>>
loop == <<running, pos, copy, handler, present, calls>>
vars == <<time, priority, clock, place, loop, promise>>

Init ==
    /\ time = 0 /\ priority = 0
    /\ exists = [c \in Clocks |-> FALSE]
    /\ map = [c \in Clocks |-> <<>>]
    /\ capacity = [c \in Clocks |-> 0]
    /\ cycle = [c \in Clocks |-> 0]
    /\ scheduled = [c \in Clocks |-> FALSE]
    /\ next = [c \in Clocks |-> 0]
    /\ queued = [c \in Clocks |-> 0]
    /\ clockOf = [h \in Handlers |-> Nothing]
    /\ active = [h \in Handlers |-> FALSE]
    /\ index = [h \in Handlers |-> -1]
    /\ running = Nothing /\ pos = 0 /\ copy = 0 /\ handler = Nothing
    /\ present = {} /\ calls = [h \in Handlers |-> 0]
    /\ promise = [h \in Handlers |-> 0]

-----------------------------------------------------------------------------
(***************************************************************************)
(* The calls a component makes, from the handler of an event or of a       *)
(* clock.  Setup, where clocks are first registered, is an event of time   *)
(* 0 here: schedule() treats time 0 alike in both.                         *)
(***************************************************************************)
InBody == running = Event \/ handler # Nothing

Allowed(c) == InBody /\ (SelfChange \/ running # c)

(* Clock::schedule inserts the clock at the current time if it is still to come. *)
FiresNow(c) ==
    priority < Priority[c] /\ time # 0 /\ time % Period[c] = 0

(* Mutant of Schedule: the cycle is not taken back when the clock fires now. *)
ScheduleAhead(c) ==
    LET now == time \div Period[c]
    IN  /\ scheduled' = [scheduled EXCEPT ![c] = TRUE]
        /\ queued' = [queued EXCEPT ![c] = @ + 1]
        /\ cycle' = [cycle EXCEPT ![c] = now]
        /\ next' = [next EXCEPT ![c] =
                IF FiresNow(c) THEN time ELSE now * Period[c] + Period[c]]

(* Clock::schedule. *)
Schedule(c) ==
    LET now == time \div Period[c]
    IN  /\ scheduled' = [scheduled EXCEPT ![c] = TRUE]
        /\ queued' = [queued EXCEPT ![c] = @ + 1]
        /\ cycle' = [cycle EXCEPT ![c] = IF FiresNow(c) THEN now - 1 ELSE now]
        /\ next' = [next EXCEPT ![c] =
                IF FiresNow(c) THEN time ELSE now * Period[c] + Period[c]]

(* std::vector::push_back. *)
PushBack(c, h) ==
    LET full == Len(map[c]) = capacity[c]
    IN  /\ full => running # c
        /\ map' = [map EXCEPT ![c] = Append(@, h)]
        /\ capacity' = [capacity EXCEPT ![c] =
                IF ~full THEN @ ELSE IF @ = 0 THEN 1 ELSE 2 * @]

(* Mutant of RegisterHandler: the clock is scheduled whether it is or not. *)
RegisterHandlerAlways(c, h) ==
    /\ ~active[h]
    /\ clockOf' = [clockOf EXCEPT ![h] = c]
    /\ active' = [active EXCEPT ![h] = TRUE]
    /\ index' = [index EXCEPT ![h] = Len(map[c])]
    /\ PushBack(c, h)
    /\ Schedule(c)

(***************************************************************************)
(* Clock::registerHandler.  A handler that is active stays as it is; one   *)
(* that is active on another clock is a fatal error.  A vector that is     *)
(* full doubles its capacity and moves, which a running loop over it would *)
(* not survive; what follows then is left out.                             *)
(***************************************************************************)
RegisterHandler(c, h) ==
    /\ active[h] => clockOf[h] = c
    /\ clockOf' = [clockOf EXCEPT ![h] = c]
    /\ IF active[h]
       THEN UNCHANGED <<active, index, map, capacity>>
       ELSE /\ active' = [active EXCEPT ![h] = TRUE]
            /\ index' = [index EXCEPT ![h] = Len(map[c])]
            /\ PushBack(c, h)
    /\ IF active[h] \/ scheduled[c]
       THEN UNCHANGED <<scheduled, queued, cycle, next>>
       ELSE Schedule(c)

(* Simulation::registerClock: a new clock is scheduled before its handler is there. *)
RegisterClock(c, h) ==
    /\ Allowed(c) /\ ~exists[c] /\ ~active[h]
    /\ exists' = [exists EXCEPT ![c] = TRUE]
    /\ Schedule(c)
    /\ clockOf' = [clockOf EXCEPT ![h] = c]
    /\ active' = [active EXCEPT ![h] = TRUE]
    /\ index' = [index EXCEPT ![h] = 0]
    /\ PushBack(c, h)
    /\ UNCHANGED <<time, priority, loop, promise>>

(* Mutant of ReregisterClock: the next cycle is read before the clock is started. *)
ReregisterClockStale(c, h) ==
    /\ Allowed(c) /\ exists[c]
    /\ RegisterHandler(c, h)
    /\ promise' = [promise EXCEPT ![h] = cycle[c] + 1]
    /\ UNCHANGED <<time, priority, exists, loop>>

(* Simulation::reregisterClock, and HandlerBase::activate: returns getNextCycle(). *)
ReregisterClock(c, h) ==
    /\ Allowed(c) /\ exists[c]
    /\ RegisterHandler(c, h)
    /\ promise' = [promise EXCEPT ![h] = cycle'[c] + 1]
    /\ UNCHANGED <<time, priority, exists, loop>>

(* The index of the handlers from position from on, after one was erased. *)
Shifted(s, from) ==
    [g \in Handlers |->
        LET at == {k \in from .. Len(s) : s[k] = g}
        IN  IF at = {} THEN index[g] ELSE (CHOOSE k \in at : \A m \in at : m <= k) - 1]

(* Clock::unregisterHandler, by unregisterClock or HandlerBase::deactivate. *)
UnregisterClock(h) ==
    /\ clockOf[h] # Nothing /\ Allowed(clockOf[h])
    /\ active[h]
    /\ LET c == clockOf[h]
           at == index[h] + 1
           s == SubSeq(map[c], 1, at - 1) \o SubSeq(map[c], at + 1, Len(map[c]))
       IN  /\ map' = [map EXCEPT ![c] = s]
           /\ index' = [Shifted(s, at) EXCEPT ![h] = -1]
    /\ active' = [active EXCEPT ![h] = FALSE]
    /\ promise' = [promise EXCEPT ![h] = 0]
    /\ UNCHANGED <<time, priority, exists, capacity, cycle, scheduled, next, queued,
                   clockOf, loop>>

(* Clock::getNextCycle brings the cycle of a clock that stands still up to date. *)
GetNextClockCycle(c) ==
    /\ InBody /\ exists[c] /\ ~scheduled[c]
    /\ cycle' = [cycle EXCEPT ![c] = time \div Period[c]]
    /\ UNCHANGED <<time, priority, exists, map, capacity, scheduled, next, queued, place,
                   loop, promise>>

-----------------------------------------------------------------------------
(***************************************************************************)
(* The run loop: activities in the order of time and priority.  An event   *)
(* may come at any time.                                                   *)
(***************************************************************************)
Before(c, t, p) == next[c] < t \/ (next[c] = t /\ Priority[c] < p)

IsFront(t, p) ==
    /\ t > time \/ (t = time /\ p >= priority)
    /\ \A c \in Clocks : queued[c] > 0 => ~Before(c, t, p)

StartEvent(t) ==
    /\ running = Nothing /\ IsFront(t, EventPriority)
    /\ time' = t /\ priority' = EventPriority
    /\ running' = Event
    /\ UNCHANGED <<clock, place, pos, copy, handler, present, calls, promise>>

EndEvent ==
    /\ running = Event
    /\ running' = Nothing
    /\ UNCHANGED <<time, priority, clock, place, pos, copy, handler, present, calls,
                   promise>>

(* Clock::execute: without handlers the clock stops, else it counts a cycle. *)
StartTick(c) ==
    /\ running = Nothing /\ queued[c] > 0 /\ next[c] <= MaxTime
    /\ IsFront(next[c], Priority[c])
    /\ time' = next[c] /\ priority' = Priority[c]
    /\ queued' = [queued EXCEPT ![c] = @ - 1]
    /\ IF map[c] = <<>>
       THEN /\ scheduled' = [scheduled EXCEPT ![c] = FALSE]
            /\ UNCHANGED <<cycle, loop>>
       ELSE /\ cycle' = [cycle EXCEPT ![c] = @ + 1]
            /\ running' = c /\ pos' = 1 /\ copy' = 0 /\ handler' = Nothing
            /\ present' = {map[c][i] : i \in DOMAIN map[c]}
            /\ UNCHANGED <<scheduled, calls>>
    /\ UNCHANGED <<exists, map, capacity, next, place, promise>>

(* The next handler is called. *)
Call(c) ==
    /\ running = c /\ handler = Nothing /\ pos <= Len(map[c])
    /\ handler' = map[c][pos]
    /\ calls' = [calls EXCEPT ![map[c][pos]] = @ + 1]
    /\ UNCHANGED <<time, priority, clock, place, running, pos, copy, present, promise>>

(* Mutant of Return: the handler is erased, and the iterator moves on. *)
ReturnErases(c, remove) ==
    /\ running = c /\ handler # Nothing
    /\ handler' = Nothing
    /\ pos' = pos + 1
    /\ IF remove
       THEN LET s == SubSeq(map[c], 1, pos - 1) \o SubSeq(map[c], pos + 1, Len(map[c]))
            IN  /\ map' = [map EXCEPT ![c] = s]
                /\ index' = [Shifted(s, pos) EXCEPT ![handler] = -1]
                /\ active' = [active EXCEPT ![handler] = FALSE]
       ELSE UNCHANGED <<map, index, active>>
    /\ promise' = [promise EXCEPT ![handler] = 0]
    /\ UNCHANGED <<time, priority, exists, capacity, cycle, scheduled, next, queued,
                   clockOf, running, copy, present, calls>>

(***************************************************************************)
(* It returns, with true to be removed.  From the first that does, those   *)
(* that stay are moved up as they are called.                              *)
(***************************************************************************)
Return(c, remove) ==
    /\ running = c /\ handler # Nothing
    /\ handler' = Nothing
    /\ pos' = pos + 1
    /\ IF remove
       THEN /\ active' = [active EXCEPT ![handler] = FALSE]
            /\ index' = [index EXCEPT ![handler] = -1]
            /\ copy' = IF copy = 0 THEN pos ELSE copy
            /\ UNCHANGED map
       ELSE IF copy = 0
       THEN UNCHANGED <<active, index, copy, map>>
       ELSE /\ index' = [index EXCEPT ![handler] = copy - 1]
            /\ map' = [map EXCEPT ![c][copy] = map[c][pos]]
            /\ copy' = copy + 1
            /\ UNCHANGED active
    /\ promise' = [promise EXCEPT ![handler] = 0]
    /\ UNCHANGED <<time, priority, exists, capacity, cycle, scheduled, next, queued,
                   clockOf, running, present, calls>>

EndTick(c) ==
    /\ running = c /\ handler = Nothing /\ pos > Len(map[c])
    /\ map' = [map EXCEPT ![c] = IF copy = 0 THEN @ ELSE SubSeq(@, 1, copy - 1)]
    /\ next' = [next EXCEPT ![c] = time + Period[c]]
    /\ queued' = [queued EXCEPT ![c] = @ + 1]
    /\ running' = Nothing /\ pos' = 0 /\ copy' = 0
    /\ present' = {} /\ calls' = [h \in Handlers |-> 0]
    /\ UNCHANGED <<time, priority, exists, capacity, cycle, scheduled, place, handler,
                   promise>>

(* The end of the time that is modelled. *)
Done == running = Nothing /\ time = MaxTime /\ UNCHANGED vars

Next ==
    \/ \E t \in 0 .. MaxTime : StartEvent(t)
    \/ EndEvent
    \/ \E c \in Clocks :
        \/ StartTick(c) \/ Call(c) \/ EndTick(c)
        \/ \E remove \in BOOLEAN : Return(c, remove)
        \/ GetNextClockCycle(c)
        \/ \E h \in Handlers : RegisterClock(c, h) \/ ReregisterClock(c, h)
    \/ \E h \in Handlers : UnregisterClock(h)
    \/ Done

Spec == Init /\ [][Next]_vars

-----------------------------------------------------------------------------
TypeOK ==
    /\ time \in 0 .. MaxTime /\ priority \in Nat
    /\ exists \in [Clocks -> BOOLEAN] /\ scheduled \in [Clocks -> BOOLEAN]
    /\ map \in [Clocks -> Seq(Handlers)] /\ capacity \in [Clocks -> Nat]
    /\ cycle \in [Clocks -> Nat] /\ next \in [Clocks -> Nat]
    /\ queued \in [Clocks -> Nat]
    /\ clockOf \in [Handlers -> Clocks \cup {Nothing}]
    /\ active \in [Handlers -> BOOLEAN] /\ index \in [Handlers -> Nat \cup {-1}]
    /\ running \in Clocks \cup {Event, Nothing}
    /\ pos \in Nat /\ copy \in Nat /\ handler \in Handlers \cup {Nothing}
    /\ present \subseteq Handlers /\ calls \in [Handlers -> Nat]
    /\ promise \in [Handlers -> Nat]

(***************************************************************************)
(* Between two ticks the handlers know their place: an active handler is   *)
(* found in its clock's vector under its index_ and nowhere else, and the  *)
(* vector holds nobody else.  unregisterHandler erases by that index.      *)
(***************************************************************************)
PlacesKnown ==
    \A c \in Clocks : running # c =>
        /\ \A i \in DOMAIN map[c] :
            active[map[c][i]] /\ clockOf[map[c][i]] = c /\ index[map[c][i]] = i - 1
        /\ \A h \in Handlers : active[h] /\ clockOf[h] = c =>
            index[h] + 1 \in DOMAIN map[c] /\ map[c][index[h] + 1] = h

(***************************************************************************)
(* A clock that is to call somebody is in the TimeVortex, once: it is one  *)
(* object with one delivery time.                                          *)
(***************************************************************************)
QueuedOnce ==
    \A c \in Clocks : running # c =>
        /\ queued[c] = IF scheduled[c] THEN 1 ELSE 0
        /\ map[c] # <<>> => scheduled[c]

(***************************************************************************)
(* The bookkeeping of the clocks holds together: the variables have their  *)
(* types, every handler knows its place, and a clock is queued once.       *)
(***************************************************************************)
Bookkeeping == TypeOK /\ PlacesKnown /\ QueuedOnce

(***************************************************************************)
(* The cycle count is not kept while a clock stands still; the handlers    *)
(* are nevertheless called with the cycle that belongs to the time, in     *)
(* step with every other clock, and never in the past.                     *)
(***************************************************************************)
CycleIsTime ==
    /\ running \in Clocks => cycle[running] * Period[running] = time
    /\ \A c \in Clocks : queued[c] > 0 =>
        next[c] >= time /\ next[c] = (cycle[c] + 1) * Period[c]

(***************************************************************************)
(* "Calls callback functions (handlers) on a specified period": in a tick  *)
(* each of the handlers that are on the clock and stay on it is called     *)
(* once, whatever the others do.                                           *)
(***************************************************************************)
EveryHandlerCalled ==
    running \in Clocks /\ handler = Nothing /\ pos > Len(map[running]) =>
        \A h \in Handlers :
            /\ calls[h] <= 1
            /\ h \in present /\ active[h] /\ clockOf[h] = running => calls[h] = 1

(***************************************************************************)
(* The cycle that reregisterClock returns, "Time of next time clock        *)
(* handler will fire", is the one the handler is called with next.         *)
(***************************************************************************)
NextCycleIsKept ==
    \A c \in Clocks : running = c /\ handler = Nothing /\ pos <= Len(map[c]) =>
        promise[map[c][pos]] \in {0, cycle[c]}
=============================================================================
