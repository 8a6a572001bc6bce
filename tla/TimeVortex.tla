----------------------------- MODULE TimeVortex -----------------------------
(***************************************************************************)
(* The event queue of a thread, in its two forms.  TimeVortexPQ is a       *)
(* priority queue; TimeVortexBinnedMap keeps the activities of a time in a *)
(* TimeUnit that is sorted only when it is looked at, and uses a unit      *)
(* again when its time is over.  Both have a thread-safe variant for       *)
(* --interthread-links, with which another thread inserts while this one   *)
(* pops: what it inserts is never earlier than the next sync.  A           *)
(* checkpoint does not save the queue but, with each handler, the events   *)
(* that are for it.                                                        *)
(*                                                                         *)
(* An operation of the priority queue is one step, under its lock if there *)
(* is one; those of the binned map are one step for every lock.            *)
(***************************************************************************)
EXTENDS Integers, Sequences, FiniteSets, FiniteSetsExt, SequencesExt, Functions

CONSTANTS
    Kinds,          \* the forms: binned or not, thread-safe (ts) or not
    Saved,          \* the forms of which checkpoints are taken
    Prio,           \* priority_order of the events for a handler
    Window,         \* the time from one sync to the next
    LastSync,       \* bound on the time
    MaxEvents       \* bound on the number of events

Forms == [binned : BOOLEAN, ts : BOOLEAN]
SYNCPRIORITY == 25

ASSUME VortexAssumption ==
    /\ Kinds \subseteq Forms
    /\ IsFiniteSet(DOMAIN Prio) /\ 0 \notin DOMAIN Prio
    /\ \A h \in DOMAIN Prio : Prio[h] \in Nat /\ Prio[h] > SYNCPRIORITY
    /\ Window \in Nat \ {0} /\ LastSync \in Nat /\ MaxEvents \in Nat

VARIABLES
    kind,
    insertOrder, depth,
    data,           \* of the priority queue: a set of activities
    units,          \* the TimeUnits, by number: sort_time, activities, sorted
    current, binMap, pool,     \* current_time_unit, the units by time, and those not in use
    pc,             \* where the owner ("me") and the other thread are
    act, target,    \* what they insert, and the unit they insert it into
    popped,         \* what was popped last
    syncAt,         \* when the next sync is
    events,         \* history: how many events there were
    gone,           \* history: those that were popped
    saved           \* history: what the last checkpoint had to save

vortexVars == <<kind, insertOrder, depth, data, units, current, binMap, pool, pc, act, target,
                popped, syncAt, events, gone, saved>>
bins == <<units, current, binMap, pool>>
history == <<events, gone, saved>>

Threads == {"me", "other"}
EventHandlers == DOMAIN Prio

(* An event, or with handler 0 the SyncManager; id tells them apart. *)
Activity(id, t, prio, h) == [id |-> id, time |-> t, prio |-> prio, handler |-> h, order |-> 0]
SyncManager(t) == Activity(0, t, SYNCPRIORITY, 0)
NoActivity == Activity(0, 0, 0, 0)

(* Activity::less<true, true, true> *)
Less(a, b) ==
    \/ a.time < b.time
    \/ a.time = b.time /\ a.prio < b.prio
    \/ a.time = b.time /\ a.prio = b.prio /\ a.order < b.order
Top(acts) == CHOOSE a \in acts : \A b \in acts : ~Less(b, a)

Unit(time, acts) == [time |-> time, acts |-> acts, sorted |-> FALSE]
NewUnit == Unit(0, <<>>)

VortexInit ==
    LET first == SyncManager(Window)
    IN  /\ kind \in Kinds
        /\ insertOrder = 1 /\ depth = 1
        /\ data = IF kind.binned THEN {} ELSE {first}
        /\ units = IF kind.binned
                   THEN <<NewUnit, Unit(Window, <<first>>)>> ELSE <<NewUnit>>
        /\ current = 1 /\ pool = <<>>
        /\ binMap = [t \in (IF kind.binned THEN {Window} ELSE {}) |-> 2]
        /\ pc = [t \in Threads |-> "idle"]
        /\ act = [t \in Threads |-> NoActivity] /\ target = [t \in Threads |-> 0]
        /\ popped = NoActivity /\ syncAt = Window
        /\ events = 0 /\ gone = {} /\ saved = {}

Goto(t, l) == pc' = [pc EXCEPT ![t] = l]

-----------------------------------------------------------------------------
(* insert().  The priority queue takes the activity at once; for the binned map *)
(* it is counted, then compared with the current unit.                          *)
Insert(t, a) ==
    LET b == [a EXCEPT !.order = insertOrder]
    IN  /\ insertOrder' = insertOrder + 1 /\ depth' = depth + 1
        /\ IF kind.binned
           THEN act' = [act EXCEPT ![t] = b] /\ Goto(t, "test") /\ UNCHANGED data
           ELSE data' = data \cup {b} /\ Goto(t, "idle") /\ UNCHANGED act
        /\ UNCHANGED <<kind, bins, target, popped>>

(* An event is sent: by the owner for any time that is not over, by another *)
(* thread for none before the sync.                                         *)
Send(t, h, time) ==
    /\ pc[t] = "idle" /\ events < MaxEvents
    /\ IF t = "me" THEN time > popped.time \/ (time = popped.time /\ Prio[h] >= popped.prio)
       ELSE kind.ts /\ time >= syncAt
    /\ Insert(t, Activity(events + 1, time, Prio[h], h))
    /\ events' = events + 1
    /\ UNCHANGED <<syncAt, gone, saved>>

TestCurrent(t) ==
    LET here == act[t].time = units[current].time
    IN  /\ pc[t] = "test"
        /\ Goto(t, IF here THEN "push" ELSE "find")
        /\ target' = [target EXCEPT ![t] = IF here THEN current ELSE 0]
        /\ UNCHANGED <<kind, insertOrder, depth, data, bins, act, popped, syncAt, history>>

(* Under the lock of the map: the unit of the time, or a new one. *)
Find(t) ==
    LET time == act[t].time
        new == IF pool = <<>> THEN Len(units) + 1 ELSE Last(pool)
    IN  /\ pc[t] = "find"
        /\ IF time \in DOMAIN binMap
           THEN target' = [target EXCEPT ![t] = binMap[time]] /\ UNCHANGED <<units, binMap, pool>>
           ELSE /\ target' = [target EXCEPT ![t] = new]
                /\ units' = IF pool = <<>> THEN Append(units, Unit(time, <<>>))
                            ELSE [units EXCEPT ![new].time = time]
                /\ pool' = IF pool = <<>> THEN pool ELSE Front(pool)
                /\ binMap' = [s \in DOMAIN binMap \cup {time} |-> IF s = time THEN new ELSE binMap[s]]
        /\ Goto(t, "push")
        /\ UNCHANGED <<kind, insertOrder, depth, data, current, act, popped, syncAt, history>>

(* Mutant of UnitInsert: the unit counts as sorted if it was. *)
UnitInsertSorted(t) ==
    /\ pc[t] = "push"
    /\ units' = [units EXCEPT ![target[t]].acts = Append(@, act[t])]
    /\ act' = [act EXCEPT ![t] = NoActivity] /\ target' = [target EXCEPT ![t] = 0]
    /\ Goto(t, "idle")
    /\ UNCHANGED <<kind, insertOrder, depth, data, current, binMap, pool, popped, syncAt, history>>

(* TimeUnit::insert, under the lock of the unit. *)
UnitInsert(t) ==
    /\ pc[t] = "push"
    /\ units' = [units EXCEPT ![target[t]].acts = Append(@, act[t]),
                              ![target[t]].sorted = FALSE]
    /\ act' = [act EXCEPT ![t] = NoActivity] /\ target' = [target EXCEPT ![t] = 0]
    /\ Goto(t, "idle")
    /\ UNCHANGED <<kind, insertOrder, depth, data, current, binMap, pool, popped, syncAt, history>>

-----------------------------------------------------------------------------
(* pop(), by the owner; then the activity is executed. *)
Execute(a) ==
    /\ popped' = a
    /\ gone' = IF a.handler = 0 THEN gone ELSE gone \cup {a.id}
    /\ Goto("me", IF a.handler = 0 THEN "sync" ELSE "idle")

Pop ==
    /\ pc["me"] = "idle" /\ depth # 0
    /\ depth' = depth - 1
    /\ IF kind.binned
       THEN Goto("me", "unit") /\ UNCHANGED <<data, popped, gone>>
       ELSE Execute(Top(data)) /\ data' = data \ {Top(data)}
    /\ UNCHANGED <<kind, insertOrder, bins, act, target, syncAt, events, saved>>

(* TimeUnit::sort: the earliest last, each in the place behind those that are later. *)
EarliestLast(acts) ==
    [i \in DOMAIN acts |->
        CHOOSE a \in Range(acts) : Cardinality({b \in Range(acts) : Less(a, b)}) = i - 1]
Sorted(u) ==
    IF u.sorted THEN u ELSE [u EXCEPT !.acts = EarliestLast(@), !.sorted = TRUE]

(* TimeUnit::pop, without a lock. *)
PopUnit ==
    LET u == Sorted(units[current])
    IN  /\ pc["me"] = "unit"
        /\ IF u.acts = <<>> THEN Goto("me", "next") /\ UNCHANGED <<units, popped, gone>>
           ELSE /\ units' = [units EXCEPT ![current] = [u EXCEPT !.acts = Front(@)]]
                /\ Execute(Last(u.acts))
        /\ UNCHANGED <<kind, insertOrder, depth, data, current, binMap, pool, act, target, syncAt,
                       events, saved>>

(* Under the lock of the map: the next unit, and this one to the pool. *)
PopNext ==
    LET first == Min(DOMAIN binMap)
    IN  /\ pc["me"] = "next"
        /\ pool' = Append(pool, current)
        /\ current' = binMap[first]
        /\ binMap' = [s \in DOMAIN binMap \ {first} |-> binMap[s]]
        /\ Goto("me", "unit")
        /\ UNCHANGED <<kind, insertOrder, depth, data, units, act, target, popped, syncAt, history>>

(* front(), for the syncs: it sorts the unit it looks at. *)
FrontUnit == IF units[current].acts # <<>> THEN current ELSE binMap[Min(DOMAIN binMap)]
LookAtFront ==
    /\ pc["me"] = "idle" /\ kind.binned /\ depth # 0
    /\ pc["other"] = "idle"
    /\ units' = [units EXCEPT ![FrontUnit] = Sorted(@)]
    /\ UNCHANGED <<kind, insertOrder, depth, data, current, binMap, pool, pc, act, target, popped,
                   syncAt, history>>

-----------------------------------------------------------------------------
Contents ==
    data \cup UNION {Range(units[u].acts) : u \in {current} \cup {binMap[t] : t \in DOMAIN binMap}}

(* The sync ends when the other thread has come to it. *)
LeaveSync ==
    /\ pc["me"] = "sync" /\ pc["other"] = "idle" /\ syncAt + Window <= LastSync
    /\ syncAt' = syncAt + Window
    /\ Insert("me", SyncManager(syncAt + Window))
    /\ UNCHANGED history

(***************************************************************************)
(* A checkpoint, which is taken in a sync, and a restart from it: of what  *)
(* getContents() returns, the links of all handlers, in some order, save   *)
(* their events in the order of Event::less, and insert them again.        *)
(***************************************************************************)
GetContents == IF kind.binned THEN {} ELSE Contents
EventsFor(h) == {a \in GetContents : a.handler = h}

VortexRestart ==
    /\ pc["me"] = "sync" /\ pc["other"] = "idle" /\ kind \in Saved /\ saved = {}
    /\ saved' = {a \in Contents : a.handler # 0}
    /\ \E link \in Bijection(EventHandlers, 1 .. Cardinality(EventHandlers)) :
          LET pending == UNION {EventsFor(h) : h \in EventHandlers}
              Earlier(a) == {b \in pending : link[b.handler] < link[a.handler]
                                            \/ (b.handler = a.handler /\ Less(b, a))}
          IN  /\ data' = {[a EXCEPT !.order = Cardinality(Earlier(a))] : a \in pending}
              /\ insertOrder' = Cardinality(pending) /\ depth' = Cardinality(pending)
    /\ units' = <<NewUnit>> /\ current' = 1 /\ binMap' = <<>> /\ pool' = <<>>
    /\ UNCHANGED <<kind, pc, act, target, popped, syncAt, events, gone>>

VortexOver ==
    /\ pc["me"] = "sync" /\ pc["other"] = "idle" /\ syncAt + Window > LastSync
    /\ UNCHANGED vortexVars

VortexNext ==
    \/ \E t \in Threads : \E h \in EventHandlers : \E time \in 0 .. LastSync : Send(t, h, time)
    \/ \E t \in Threads : TestCurrent(t) \/ Find(t) \/ UnitInsert(t)
    \/ Pop \/ PopUnit \/ PopNext \/ LookAtFront
    \/ LeaveSync \/ VortexRestart \/ VortexOver

VortexSpec == VortexInit /\ [][VortexNext]_vortexVars

-----------------------------------------------------------------------------
InFlight == {act[t] : t \in {t \in Threads : pc[t] \in {"test", "find", "push"}}}
Ids(acts) == {a.id : a \in acts} \ {0}

(***************************************************************************)
(* Whatever is inserted on the way, and by whom: what was executed last is *)
(* not later than anything that is left, every event is in the queue until *)
(* it is executed, and the queue knows how many there are.                 *)
(***************************************************************************)
ExecutedInOrder ==
    /\ \A a \in Contents \cup InFlight : ~Less(a, popped)
    /\ Ids(Contents \cup InFlight) = (1 .. events) \ gone
    /\ pc["me"] \notin {"unit", "next"} => depth = Cardinality(Contents) + Cardinality(InFlight)

(***************************************************************************)
(* "Get a copy of the contents of the TimeVortex" is what a checkpoint     *)
(* relies on: after a restart all events are there that were not executed, *)
(* and those of a handler, as well as those whose time or priority differ, *)
(* are in the order in which they were.                                    *)
(***************************************************************************)
RestartKeepsEvents ==
    \A a \in saved : a.id \notin gone =>
        \E b \in Contents :
            /\ b = [a EXCEPT !.order = b.order]
            /\ \A c \in saved, d \in Contents :
                  /\ Less(c, a) /\ d.id = c.id
                  /\ (c.handler = a.handler \/ c.time # a.time \/ c.prio # a.prio)
                  => Less(d, b)

(***************************************************************************)
(* "only one thread at a time can access the current time unit.  Thus, no  *)
(* mutex": another thread does not insert into the unit that is popped     *)
(* from.                                                                   *)
(***************************************************************************)
UnitIsOwned ==
    pc["me"] = "unit" => ~(pc["other"] = "push" /\ target["other"] = current)

(***************************************************************************)
(* Activities are executed in order of time, priority and insertion, each  *)
(* once, none is lost with a restart, and another thread keeps away from   *)
(* the unit that is popped from.                                           *)
(***************************************************************************)
VortexKept == ExecutedInOrder /\ RestartKeepsEvents /\ UnitIsOwned
=============================================================================
