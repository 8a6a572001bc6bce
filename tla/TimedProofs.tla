---------------------------- MODULE TimedProofs ----------------------------
(***************************************************************************)
(* What happens in the order of time on one thread: the TimeVortex         *)
(* executes everything in order and loses nothing, for any handlers,       *)
(* priorities, windows and numbers of events; and statistics collect what  *)
(* they should and are written when they should be, for any parameters and *)
(* data.                                                                   *)
(***************************************************************************)
EXTENDS TimeVortex, Statistics, FoldLemmas, SequenceTheorems

-----------------------------------------------------------------------------
(* Part 1: the TimeVortex. *)

(***************************************************************************)
(* The forms that are handled: the binned map for one thread, the priority *)
(* queue with and without a lock; and a checkpoint is only taken of the    *)
(* latter.  (For the others see the runs that show a violation.)           *)
(***************************************************************************)
KindsHandled ==
    /\ \A k \in Kinds : k.binned => ~k.ts
    /\ \A k \in Saved : ~k.binned

-----------------------------------------------------------------------------
(* The inductive invariant. *)

Activities == [id : Nat, time : Nat, prio : Nat, handler : EventHandlers \cup {0}, order : Nat]
Units == [time : Nat, acts : Seq(Activities), sorted : BOOLEAN]
Pending == Contents \cup InFlight
Used(u) == u = current \/ \E t \in DOMAIN binMap : u = binMap[t]
Inserting == pc["me"] \in {"test", "find", "push"}
Popping == pc["me"] \in {"unit", "next"}

VortexType ==
    /\ kind \in Kinds
    /\ insertOrder \in Nat /\ depth \in Nat /\ events \in Nat /\ syncAt \in Nat
    /\ data \in SUBSET Activities /\ IsFiniteSet(data)
    /\ units \in Seq(Units) /\ pool \in Seq(Nat)
    /\ current \in DOMAIN units /\ DOMAIN binMap \subseteq Nat
    /\ \A t \in DOMAIN binMap : binMap[t] \in DOMAIN units
    /\ pc \in [Threads -> {"idle", "test", "find", "push", "unit", "next", "sync"}]
    /\ act \in [Threads -> Activities] /\ target \in [Threads -> Nat]
    /\ popped \in Activities /\ gone \in SUBSET (1 .. events) /\ saved \in SUBSET Activities

(* What belongs to the other form is not used, and only a thread-safe queue has a second thread. *)
KindInv ==
    /\ pc["other"] = "idle"
    /\ kind.binned => data = {} /\ saved = {}
    /\ ~kind.binned => /\ pc["me"] \in {"idle", "sync"}
                       /\ units = <<NewUnit>> /\ current = 1 /\ DOMAIN binMap = {}

(* Where the units are, and what they hold. *)
UnitInv ==
    /\ \A t \in DOMAIN binMap :
          /\ binMap[t] # current /\ units[binMap[t]].time = t /\ t > units[current].time
          /\ units[binMap[t]].acts # <<>> \/ (pc["me"] = "push" /\ target["me"] = binMap[t])
    /\ \A i \in DOMAIN pool :
          /\ pool[i] \in DOMAIN units /\ units[pool[i]].acts = <<>> /\ ~Used(pool[i])
          /\ \A j \in DOMAIN pool : pool[i] = pool[j] => i = j
    /\ \A u \in DOMAIN units : Used(u) => \A i \in DOMAIN units[u].acts :
          units[u].acts[i].time = units[u].time
    /\ \A u \in DOMAIN units : \A i, j \in DOMAIN units[u].acts :
          /\ units[u].acts[i] = units[u].acts[j] => i = j
          /\ units[u].sorted /\ i < j => Less(units[u].acts[j], units[u].acts[i])

(* Where the owner is. *)
OwnerInv ==
    /\ kind.binned /\ ~Popping => units[current].time <= popped.time
    /\ pc["me"] = "next" => units[current].acts = <<>>
    /\ Inserting => act["me"].time >= units[current].time
    /\ pc["me"] = "find" => act["me"].time # units[current].time
    /\ pc["me"] = "push" => /\ target["me"] \in DOMAIN units /\ Used(target["me"])
                            /\ units[target["me"]].time = act["me"].time

(* What is pending: the events that were not executed and, but in a sync, the next SyncManager. *)
PendingInv ==
    /\ \A a \in Pending :
          /\ a.order < insertOrder /\ ~Less(a, popped)
          /\ a.handler = 0 => a.id = 0 /\ a.prio = SYNCPRIORITY /\ a.time = syncAt /\ pc["me"] # "sync"
          /\ a.handler # 0 => a.id \in (1 .. events) \ gone /\ a.prio = Prio[a.handler]
    /\ \A a, b \in Pending : a.order = b.order \/ a.id = b.id => a = b
    /\ \A i \in (1 .. events) \ gone : \E a \in Pending : a.id = i
    /\ pc["me"] # "sync" => \E a \in Pending : a.id = 0

PoppedInv ==
    /\ popped.handler = 0 => popped.prio <= SYNCPRIORITY
    /\ popped.handler # 0 => popped.order < insertOrder /\ pc["me"] # "sync"
    /\ pc["me"] = "sync" => popped.time = syncAt

DepthInv ==
    /\ IsFiniteSet(Contents) /\ Contents \cap InFlight = {}
    /\ Inserting => depth = Cardinality(Contents) + 1
    /\ Popping => depth = Cardinality(Contents) - 1
    /\ ~Inserting /\ ~Popping => depth = Cardinality(Contents)

SavedInv == RestartKeepsEvents /\ \A a \in saved : a.id \in 1 .. events

VortexInd ==
    /\ VortexType /\ KindInv /\ UnitInv /\ OwnerInv /\ PendingInv /\ PoppedInv /\ DepthInv /\ SavedInv

-----------------------------------------------------------------------------
(* The order of activities. *)

(* No two activities were inserted as the same one. *)
Distinct(S) == \A a, b \in S : a.order = b.order => a = b

LEMMA LessIsOrder ==
    ASSUME NEW a \in Activities, NEW b \in Activities, NEW c \in Activities
    PROVE  /\ ~Less(a, a)
           /\ Less(a, b) => ~Less(b, a)
           /\ Less(a, b) /\ Less(b, c) => Less(a, c)
           /\ a.order # b.order => Less(a, b) \/ Less(b, a)
  BY DEF Less, Activities

(* Fewer are before a than before b, if a is before b. *)
LEMMA FewerBefore ==
    ASSUME NEW S \in SUBSET Activities, IsFiniteSet(S), NEW a \in S, NEW b \in S, Less(a, b)
    PROVE  /\ Cardinality({c \in S : Less(c, a)}) < Cardinality({c \in S : Less(c, b)})
           /\ Cardinality({c \in S : Less(b, c)}) < Cardinality({c \in S : Less(a, c)})
<1>1. ASSUME NEW P \in SUBSET S, NEW Q \in SUBSET S, P \subseteq Q, \E x \in Q : x \notin P
      PROVE  Cardinality(P) < Cardinality(Q)
  <2>1. IsFiniteSet(P) /\ IsFiniteSet(Q) /\ P # Q
    BY <1>1, FS_Subset
  <2>2. Cardinality(P) \in Nat /\ Cardinality(Q) \in Nat /\ Cardinality(P) <= Cardinality(Q)
        /\ (Cardinality(P) = Cardinality(Q) => P = Q)
    BY <1>1, <2>1, FS_Subset, FS_CardinalityType
  <2>. QED  BY <2>1, <2>2
<1>. DEFINE P == {c \in S : Less(c, a)}
            Q == {c \in S : Less(c, b)}
            V == {c \in S : Less(b, c)}
            W == {c \in S : Less(a, c)}
<1>2. P \subseteq Q /\ V \subseteq W
  BY LessIsOrder
<1>3. a \in Q /\ a \notin P /\ b \in W /\ b \notin V
  BY LessIsOrder
<1>4. P \in SUBSET S /\ Q \in SUBSET S /\ V \in SUBSET S /\ W \in SUBSET S
  OBVIOUS
<1>. HIDE DEF P, Q, V, W
<1>5. Cardinality(P) < Cardinality(Q) /\ Cardinality(V) < Cardinality(W)
  BY <1>1, <1>2, <1>3, <1>4
<1>. QED  BY <1>5 DEF P, Q, V, W

(* What the priority queue pops is the earliest. *)
LEMMA TopIsFirst ==
    ASSUME NEW S \in SUBSET Activities, IsFiniteSet(S), S # {}
    PROVE  Top(S) \in S /\ \A b \in S : ~Less(b, Top(S))
<1>. DEFINE before(a) == Cardinality({c \in S : Less(c, a)})
            N == {before(a) : a \in S}
<1>1. \A a \in S : before(a) \in Nat
  <2>1. \A a \in S : {c \in S : Less(c, a)} \in SUBSET S
    OBVIOUS
  <2>. QED  BY <2>1, FS_Subset, FS_CardinalityType
<1>2. N # {} /\ N \in SUBSET Nat
  BY <1>1
<1>3. PICK n \in N : \A m \in N : n <= m
  <2>. HIDE DEF N
  <2>. QED  BY <1>2, LeastNat
<1>4. PICK a \in S : n = before(a)
  OBVIOUS
<1>5. ASSUME NEW b \in S, Less(b, a) PROVE FALSE
  <2>1. before(b) < before(a)
    BY <1>5, FewerBefore
  <2>2. before(a) <= before(b)
    BY <1>3, <1>4
  <2>3. before(a) \in Nat /\ before(b) \in Nat
    BY <1>1
  <2>. HIDE DEF before
  <2>. QED  BY <2>1, <2>2, <2>3
<1>6. \E x \in S : \A b \in S : ~Less(b, x)
  BY <1>5
<1>. QED  BY <1>6 DEF Top

(* A list that holds no activity twice, and none that was inserted as another. *)
Listing(acts) ==
    /\ acts \in Seq(Activities) /\ Distinct(Range(acts))
    /\ \A i, j \in DOMAIN acts : acts[i] = acts[j] => i = j

(* A sorted unit holds what it held. *)
LEMMA EarliestLastSorts ==
    ASSUME NEW acts, Listing(acts)
    PROVE  LET e == EarliestLast(acts)
           IN  /\ e \in Seq(Activities) /\ Len(e) = Len(acts) /\ DOMAIN e = DOMAIN acts
               /\ Range(e) = Range(acts)
               /\ \A i, j \in DOMAIN e : e[i] = e[j] => i = j
               /\ \A i, j \in DOMAIN e : i < j => Less(e[j], e[i])
<1>. DEFINE R == Range(acts)
            n == Len(acts)
            after(a) == Cardinality({b \in R : Less(a, b)})
            rank == [a \in R |-> after(a)]
            e == EarliestLast(acts)
<1>1. acts \in Seq(Activities) /\ n \in Nat /\ DOMAIN acts = 1 .. n /\ R \in SUBSET Activities
  BY DEF Listing, Range
<1>2. IsFiniteSet(R) /\ Cardinality(R) = n
  <2>1. acts \in Bijection(1 .. n, R)
    BY <1>1 DEF Listing, Bijection, Injection, Surjection, IsInjective, Range
  <2>2. ExistsBijection(1 .. n, R)
    BY <2>1 DEF ExistsBijection
  <2>3. Cardinality(R) = n
    <3>. HIDE DEF R, n
    <3>. QED  BY <1>1, <2>2, FS_CountingElements
  <2>4. IsFiniteSet(R)
    <3>. HIDE DEF R, n
    <3>. QED  BY <1>1, <2>2, FS_NatBijection
  <2>. QED  BY <2>3, <2>4
<1>3. \A a, b \in R : a # b => Less(a, b) \/ Less(b, a)
  BY <1>1, LessIsOrder DEF Listing, Distinct
<1>4. \A a, b \in R : Less(a, b) => after(b) < after(a)
  <2>. HIDE DEF R
  <2>. QED  BY <1>1, <1>2, FewerBefore
<1>5. \A a \in R : after(a) \in 0 .. n - 1
  <2>. TAKE a \in R
  <2>. DEFINE P == {b \in R : Less(a, b)}
  <2>1. P \in SUBSET (R \ {a})
    BY <1>1, LessIsOrder
  <2>2. IsFiniteSet(R \ {a}) /\ Cardinality(R \ {a}) = n - 1
    <3>. HIDE DEF R
    <3>. QED  BY <1>2, FS_RemoveElement
  <2>3. Cardinality(P) \in Nat /\ Cardinality(P) <= n - 1
    <3>. HIDE DEF P, R
    <3>. QED  BY <2>1, <2>2, FS_Subset, FS_CardinalityType
  <2>. HIDE DEF P
  <2>4. after(a) = Cardinality(P)
    BY DEF P
  <2>. HIDE DEF after
  <2>. QED  BY <1>1, <2>3, <2>4
<1>. HIDE DEF after
<1>6. rank \in [R -> 0 .. n - 1] /\ \A a, b \in R : rank[a] = rank[b] => a = b
  BY <1>1, <1>3, <1>4, <1>5
<1>7. \A k \in 0 .. n - 1 : \E a \in R : rank[a] = k
  <2>1. rank \in Injection(R, 0 .. n - 1)
    BY <1>6 DEF Injection, IsInjective
  <2>2. IsFiniteSet(0 .. n - 1) /\ Cardinality(0 .. n - 1) = n
    <3>. HIDE DEF n
    <3>. QED  BY <1>1, FS_Interval
  <2>3. rank \in Surjection(R, 0 .. n - 1)
    <3>. HIDE DEF rank, R, n
    <3>. QED  BY <1>2, <2>1, <2>2, FS_Injection
  <2>. QED  BY <2>3 DEF Surjection
<1>8. \A i \in 1 .. n : e[i] \in R /\ after(e[i]) = i - 1
  <2>. TAKE i \in 1 .. n
  <2>1. e[i] = CHOOSE a \in R : after(a) = i - 1
    BY <1>1 DEF EarliestLast, after
  <2>2. i - 1 \in 0 .. n - 1
    BY <1>1
  <2>3. \E a \in R : after(a) = i - 1
    BY <1>7, <2>2
  <2>. HIDE DEF e, R
  <2>. QED  BY <2>1, <2>3
<1>9. DOMAIN e = 1 .. n /\ e = [i \in 1 .. n |-> e[i]]
  <2>. DEFINE g == [i \in 1 .. n |-> CHOOSE a \in R : after(a) = i - 1]
  <2>1. e = g
    BY <1>1 DEF EarliestLast, after
  <2>2. DOMAIN g = 1 .. n /\ g = [i \in 1 .. n |-> g[i]]
    OBVIOUS
  <2>. HIDE DEF e, g
  <2>. QED  BY <2>1, <2>2
<1>. HIDE DEF e, R
<1>10. \A a \in R : \E i \in 1 .. n : e[i] = a
  <2>. TAKE a \in R
  <2>1. after(a) \in 0 .. n - 1
    BY <1>5
  <2>2. after(a) + 1 \in 1 .. n /\ (after(a) + 1) - 1 = after(a)
    BY <1>1, <2>1
  <2>3. e[after(a) + 1] \in R /\ after(e[after(a) + 1]) = after(a)
    BY <1>8, <2>2
  <2>4. e[after(a) + 1] = a
    BY <1>6, <2>3
  <2>. QED  BY <2>2, <2>4
<1>11. e \in Seq(Activities) /\ Len(e) = n
  BY <1>1, <1>8, <1>9
<1>12. Range(e) = R
  BY <1>8, <1>9, <1>10 DEF Range
<1>13. \A i, j \in 1 .. n : e[i] = e[j] => i = j
  BY <1>1, <1>8
<1>14. \A i, j \in 1 .. n : i < j => Less(e[j], e[i])
  <2>. TAKE i, j \in 1 .. n
  <2>. SUFFICES ASSUME i < j PROVE Less(e[j], e[i])
    OBVIOUS
  <2>1. after(e[i]) < after(e[j]) /\ e[i] # e[j]
    BY <1>1, <1>8
  <2>2. after(e[i]) \in Nat /\ after(e[j]) \in Nat /\ e[i] \in R /\ e[j] \in R
    BY <1>1, <1>5, <1>8
  <2>3. ~Less(e[i], e[j])
    <3>1. ASSUME Less(e[i], e[j]) PROVE FALSE
      <4>1. after(e[j]) < after(e[i])
        BY <1>4, <2>2, <3>1
      <4>. QED  BY <4>1, <2>1, <2>2
    <3>. QED  BY <3>1
  <2>. QED  BY <1>3, <2>1, <2>2, <2>3
<1>. QED  BY <1>1, <1>9, <1>11, <1>12, <1>13, <1>14 DEF e, R

-----------------------------------------------------------------------------
(* What is pending, and how a step changes it. *)

LEMMA InFlightOf ==
    ASSUME KindInv PROVE InFlight = IF Inserting THEN {act["me"]} ELSE {}
<1>1. {t \in Threads : pc[t] \in {"test", "find", "push"}} = IF Inserting THEN {"me"} ELSE {}
  BY DEF KindInv, Threads, Inserting
<1>. QED  BY <1>1 DEF InFlight

LEMMA InFlightOfNext ==
    ASSUME KindInv' PROVE InFlight' = IF Inserting' THEN {act'["me"]} ELSE {}
<1>1. {t \in Threads : pc'[t] \in {"test", "find", "push"}} = IF Inserting' THEN {"me"} ELSE {}
  BY DEF KindInv, Threads, Inserting
<1>. QED  BY <1>1 DEF InFlight

Held(x) == \E u \in DOMAIN units : Used(u) /\ \E i \in DOMAIN units[u].acts : units[u].acts[i] = x

LEMMA ContentsOf ==
    ASSUME VortexType
    PROVE  \A x : x \in Contents <=> x \in data \/ Held(x)
<1>1. \A u : Used(u) => u \in DOMAIN units
  BY DEF VortexType, Used
<1>2. \A x : x \in Contents <=> x \in data \/ \E u : Used(u) /\ x \in Range(units[u].acts)
  BY DEF Contents, Used
<1>. QED  BY <1>1, <1>2 DEF Held, Range

LEMMA ContentsOfNext ==
    ASSUME VortexType'
    PROVE  \A x : x \in Contents' <=> x \in data' \/ Held(x)'
<1>1. \A u : Used(u)' => u \in DOMAIN units'
  BY DEF VortexType, Used
<1>2. \A x : x \in Contents' <=> x \in data' \/ \E u : Used(u)' /\ x \in Range(units'[u].acts)
  BY DEF Contents, Used
<1>. QED  BY <1>1, <1>2 DEF Held, Range

LEMMA UnitTypes ==
    ASSUME VortexType
    PROVE  /\ \A u \in DOMAIN units : /\ units[u] \in Units /\ units[u].acts \in Seq(Activities)
                                      /\ \A i \in DOMAIN units[u].acts : units[u].acts[i] \in Activities
           /\ DOMAIN units = 1 .. Len(units) /\ Len(units) \in Nat
<1>1. \A u \in DOMAIN units : units[u] \in Units
  BY DEF VortexType
<1>2. \A l \in Seq(Activities) : \A i \in DOMAIN l : l[i] \in Activities
  OBVIOUS
<1>3. DOMAIN units = 1 .. Len(units) /\ Len(units) \in Nat
  BY DEF VortexType
<1>. QED  BY <1>1, <1>2, <1>3 DEF Units

LEMMA PendingType ==
    ASSUME VortexType, KindInv
    PROVE  Contents \in SUBSET Activities /\ InFlight \in SUBSET Activities
<1>1. act["me"] \in Activities
  BY DEF VortexType, Threads
<1>2. \A x : Held(x) => x \in Activities
  BY UnitTypes DEF Held
<1>. QED  BY <1>1, <1>2, ContentsOf, InFlightOf DEF VortexType

(* Of the priority queue. *)
LEMMA QueueContents ==
    ASSUME VortexType, KindInv, ~kind.binned
    PROVE  Contents = data /\ InFlight = {} /\ ~Inserting /\ ~Popping
<1>1. ~Inserting /\ ~Popping
  BY DEF KindInv, Inserting, Popping
<1>2. units[current].acts = <<>> /\ \A u : Used(u) => u = current
  BY DEF KindInv, NewUnit, Unit, Used
<1>3. \A x : ~Held(x)
  BY <1>2 DEF Held
<1>. QED  BY <1>1, <1>3, ContentsOf, InFlightOf

LEMMA QueueContentsNext ==
    ASSUME VortexType', KindInv', ~kind'.binned
    PROVE  Contents' = data' /\ InFlight' = {} /\ ~Inserting' /\ ~Popping'
<1>1. ~Inserting' /\ ~Popping'
  BY DEF KindInv, Inserting, Popping
<1>2. units'[current'].acts = <<>> /\ \A u : Used(u)' => u = current'
  BY DEF KindInv, NewUnit, Unit, Used
<1>3. \A x : ~Held(x)'
  BY <1>2 DEF Held
<1>. QED  BY <1>1, <1>3, ContentsOfNext, InFlightOfNext

(* An event that is sent is not earlier than what was executed. *)
Later(b) == b.order = insertOrder /\ ~Less(b, popped)

LEMMA EventComes ==
    ASSUME VortexType, PendingInv, PoppedInv, Pending \in SUBSET Activities,
           NEW b \in Activities, Later(b), Pending' = Pending \cup {b},
           b.handler # 0, b.id = events + 1, b.prio = Prio[b.handler],
           insertOrder' = insertOrder + 1, events' = events + 1,
           popped' = popped, gone' = gone, syncAt' = syncAt,
           (pc'["me"] = "sync") <=> (pc["me"] = "sync")
    PROVE  PendingInv' /\ PoppedInv'
<1>. USE DEF VortexType
<1>1. events + 1 \in (1 .. events') \ gone' /\ 1 .. events' = (1 .. events) \cup {events + 1}
  OBVIOUS
<1>2. ASSUME NEW a \in Pending'
      PROVE  /\ a.order < insertOrder' /\ ~Less(a, popped')
             /\ a.handler = 0 => a.id = 0 /\ a.prio = SYNCPRIORITY /\ a.time = syncAt' /\ pc'["me"] # "sync"
             /\ a.handler # 0 => a.id \in (1 .. events') \ gone' /\ a.prio = Prio[a.handler]
  <2>1. CASE a = b
    BY <2>1, <1>1 DEF Later
  <2>2. CASE a \in Pending
    <3>1. a.order < insertOrder /\ a.order \in Nat /\ ~Less(a, popped)
          /\ (a.handler = 0 => a.id = 0 /\ a.prio = SYNCPRIORITY /\ a.time = syncAt /\ pc["me"] # "sync")
          /\ (a.handler # 0 => a.id \in (1 .. events) \ gone /\ a.prio = Prio[a.handler])
      BY <2>2 DEF PendingInv, Activities
    <3>2. a.order < insertOrder'
      BY <3>1
    <3>. QED  BY <3>1, <3>2, <1>1
  <2>. QED  BY <2>1, <2>2
<1>3. ASSUME NEW a \in Pending PROVE a.order # b.order /\ a.id # b.id
  <2>1. a.order < insertOrder /\ a.order \in Nat /\ (a.id = 0 \/ a.id \in 1 .. events)
    BY DEF PendingInv, Activities
  <2>. QED  BY <2>1 DEF Later
<1>4. \A c, d \in Pending' : c.order = d.order \/ c.id = d.id => c = d
  BY <1>3 DEF PendingInv
<1>5. \A i \in (1 .. events') \ gone' : \E a \in Pending' : a.id = i
  BY <1>1 DEF PendingInv
<1>6. pc'["me"] # "sync" => \E a \in Pending' : a.id = 0
  BY DEF PendingInv
<1>7. PoppedInv'
  BY DEF PoppedInv, Activities
<1>. QED  BY <1>2, <1>4, <1>5, <1>6, <1>7 DEF PendingInv

LEMMA SyncComes ==
    ASSUME VortexType, PendingInv, PoppedInv, Pending \in SUBSET Activities,
           NEW b \in Activities, Later(b), Pending' = Pending \cup {b},
           b.handler = 0, b.id = 0, b.prio = SYNCPRIORITY, b.time = syncAt',
           insertOrder' = insertOrder + 1, events' = events,
           popped' = popped, gone' = gone, pc["me"] = "sync", pc'["me"] # "sync"
    PROVE  PendingInv' /\ PoppedInv'
<1>. USE DEF VortexType
<1>1. ASSUME NEW a \in Pending'
      PROVE  /\ a.order < insertOrder' /\ ~Less(a, popped')
             /\ a.handler = 0 => a.id = 0 /\ a.prio = SYNCPRIORITY /\ a.time = syncAt' /\ pc'["me"] # "sync"
             /\ a.handler # 0 => a.id \in (1 .. events') \ gone' /\ a.prio = Prio[a.handler]
  <2>1. CASE a = b
    BY <2>1 DEF Later
  <2>2. CASE a \in Pending
    BY <2>2 DEF PendingInv, Activities
  <2>. QED  BY <2>1, <2>2
<1>2. ASSUME NEW a \in Pending PROVE a.order # b.order /\ a.id # b.id
  <2>1. a.order < insertOrder /\ a.order \in Nat /\ a.handler # 0 /\ a.id \in 1 .. events
    BY DEF PendingInv, Activities
  <2>. QED  BY <2>1 DEF Later
<1>3. PoppedInv'
  BY DEF PoppedInv, Activities
<1>4. \A c, d \in Pending' : c.order = d.order \/ c.id = d.id => c = d
  BY <1>2 DEF PendingInv
<1>5. \A i \in (1 .. events') \ gone' : \E a \in Pending' : a.id = i
  BY DEF PendingInv
<1>6. \E a \in Pending' : a.id = 0
  OBVIOUS
<1>. QED  BY <1>1, <1>3, <1>4, <1>5, <1>6 DEF PendingInv

(* The earliest is executed. *)
LEMMA FirstGoes ==
    ASSUME VortexType, PendingInv, PoppedInv, Pending \in SUBSET Activities,
           NEW a \in Pending, \A b \in Pending : ~Less(b, a), Pending' = Pending \ {a},
           popped' = a, gone' = IF a.handler = 0 THEN gone ELSE gone \cup {a.id},
           insertOrder' = insertOrder, events' = events, syncAt' = syncAt,
           pc'["me"] = IF a.handler = 0 THEN "sync" ELSE "idle", pc["me"] # "sync"
    PROVE  PendingInv' /\ PoppedInv'
<1>. USE DEF VortexType
<1>0. a.handler = 0 <=> a.id = 0
  BY DEF PendingInv
<1>1. ASSUME NEW b \in Pending'
      PROVE  /\ b.order < insertOrder' /\ ~Less(b, popped')
             /\ b.handler = 0 => b.id = 0 /\ b.prio = SYNCPRIORITY /\ b.time = syncAt' /\ pc'["me"] # "sync"
             /\ b.handler # 0 => b.id \in (1 .. events') \ gone' /\ b.prio = Prio[b.handler]
  <2>1. b \in Pending /\ b # a /\ b.id # a.id
    BY DEF PendingInv
  <2>. QED  BY <2>1, <1>0 DEF PendingInv
<1>2. \A c, d \in Pending' : c.order = d.order \/ c.id = d.id => c = d
  BY DEF PendingInv
<1>3. \A i \in (1 .. events') \ gone' : \E b \in Pending' : b.id = i
  <2>. TAKE i \in (1 .. events') \ gone'
  <2>1. i \in (1 .. events) \ gone /\ i # a.id
    BY <1>0
  <2>2. PICK b \in Pending : b.id = i
    BY <2>1 DEF PendingInv
  <2>. QED  BY <2>1, <2>2
<1>4. pc'["me"] # "sync" => \E b \in Pending' : b.id = 0
  <2>. SUFFICES ASSUME pc'["me"] # "sync" PROVE \E b \in Pending' : b.id = 0
    OBVIOUS
  <2>1. a.id # 0
    BY <1>0
  <2>2. PICK b \in Pending : b.id = 0
    BY DEF PendingInv
  <2>. QED  BY <2>1, <2>2
<1>5. PoppedInv'
  BY DEF PoppedInv, PendingInv, SYNCPRIORITY
<1>. QED  BY <1>1, <1>2, <1>3, <1>4, <1>5 DEF PendingInv

(* Nothing comes or goes. *)
LEMMA AllStay ==
    ASSUME PendingInv, PoppedInv, Pending' = Pending,
           UNCHANGED <<insertOrder, events, gone, syncAt, popped>>,
           (pc'["me"] = "sync") <=> (pc["me"] = "sync")
    PROVE  PendingInv' /\ PoppedInv'
  BY DEF PendingInv, PoppedInv

-----------------------------------------------------------------------------
(* The first state. *)

LEMMA VortexInitInd == ASSUME VortexInit PROVE VortexInd
<1>. USE VortexAssumption
<1>. DEFINE first == SyncManager(Window)
<1>1. /\ first \in Activities /\ first.order = 0 /\ first.id = 0 /\ first.time = Window
      /\ first.handler = 0 /\ first.prio = SYNCPRIORITY
      /\ NoActivity \in Activities /\ NoActivity.time = 0 /\ NoActivity.handler = 0 /\ NoActivity.prio = 0
  BY DEF SyncManager, NoActivity, Activity, Activities, SYNCPRIORITY
<1>2. /\ kind \in Kinds /\ insertOrder = 1 /\ depth = 1 /\ events = 0 /\ gone = {} /\ saved = {}
      /\ current = 1 /\ pool = <<>> /\ pc = [t \in Threads |-> "idle"] /\ syncAt = Window
      /\ act = [t \in Threads |-> NoActivity] /\ target = [t \in Threads |-> 0] /\ popped = NoActivity
  BY DEF VortexInit
<1>3. pc["me"] = "idle" /\ pc["other"] = "idle" /\ ~Inserting /\ ~Popping
  BY <1>2 DEF Threads, Inserting, Popping
<1>. HIDE DEF first
<1>6. ASSUME Contents = {first}, InFlight = {}
      PROVE  PendingInv /\ PoppedInv /\ DepthInv /\ SavedInv
  <2>1. Pending = {first} /\ ~Less(first, popped)
    BY <1>1, <1>2, <1>6 DEF Pending, Less
  <2>2. PendingInv
    BY <1>1, <1>2, <1>3, <2>1 DEF PendingInv
  <2>3. PoppedInv
    BY <1>1, <1>2, <1>3 DEF PoppedInv, SYNCPRIORITY
  <2>4. DepthInv
    BY <1>2, <1>3, <1>6, FS_Singleton DEF DepthInv
  <2>5. SavedInv
    BY <1>2 DEF SavedInv, RestartKeepsEvents
  <2>. QED  BY <2>2, <2>3, <2>4, <2>5
<1>4. CASE kind.binned
  <2>. DEFINE second == Unit(Window, <<first>>)
  <2>1. data = {} /\ units = <<NewUnit, second>> /\ binMap = [t \in {Window} |-> 2]
    BY <1>4 DEF VortexInit, first
  <2>2. /\ NewUnit \in Units /\ NewUnit.acts = <<>> /\ NewUnit.time = 0 /\ second.acts = <<first>>
        /\ second.time = Window /\ ~second.sorted /\ second \in Units
    <3>1. <<>> \in Seq(Activities) /\ <<first>> \in Seq(Activities) /\ Window \in Nat
      BY <1>1
    <3>2. second = [time |-> Window, acts |-> <<first>>, sorted |-> FALSE]
      BY DEF Unit
    <3>. HIDE DEF second
    <3>. QED  BY <3>1, <3>2 DEF NewUnit, Unit, Units
  <2>. HIDE DEF second
  <2>3. /\ units \in Seq(Units) /\ DOMAIN units = {1, 2} /\ units[1] = NewUnit /\ units[2] = second
        /\ DOMAIN binMap = {Window} /\ binMap[Window] = 2 /\ Len(units) = 2
    BY <2>1, <2>2
  <2>4. VortexType
    BY <1>1, <1>2, <2>1, <2>3, FS_EmptySet DEF VortexType, Threads
  <2>5. KindInv
    BY <1>3, <1>4, <1>2, <2>1 DEF KindInv
  <2>6. \A u : Used(u) <=> u \in {1, 2}
    BY <1>2, <2>3 DEF Used
  <2>7. UnitInv
    <3>1. \A t \in DOMAIN binMap :
            /\ binMap[t] # current /\ units[binMap[t]].time = t /\ t > units[current].time
            /\ units[binMap[t]].acts # <<>>
      <4>1. binMap[Window] # current /\ units[2].time = Window /\ units[1].time = 0 /\ units[2].acts # <<>>
        <5>1. binMap[Window] = 2 /\ current = 1
          BY <1>2, <2>3
        <5>2. <<first>> # <<>>
          OBVIOUS
        <5>. QED  BY <5>1, <5>2, <2>2, <2>3
      <4>. QED  BY <4>1, <1>2, <2>3
    <3>2. \A u \in DOMAIN units : \A i \in DOMAIN units[u].acts : units[u].acts[i].time = units[u].time
      BY <1>1, <2>2, <2>3
    <3>3. \A u \in DOMAIN units : \A i, j \in DOMAIN units[u].acts : i = j
      BY <2>2, <2>3
    <3>4. DOMAIN pool = {}
      BY <1>2
    <3>5. \A i, j \in Nat : i = j => ~(i < j)
      OBVIOUS
    <3>6. \A u \in DOMAIN units : ~units[u].sorted
      BY <2>2, <2>3 DEF NewUnit, Unit
    <3>. QED  BY <3>1, <3>2, <3>3, <3>4, <3>6 DEF UnitInv
  <2>8. OwnerInv
    BY <1>1, <1>2, <1>3, <2>2, <2>3 DEF OwnerInv
  <2>9. Contents = {first} /\ InFlight = {}
    <3>1. \A x : Held(x) <=> x = first
      BY <2>2, <2>3, <2>6 DEF Held
    <3>. QED  BY <1>3, <2>1, <2>4, <2>5, <3>1, ContentsOf, InFlightOf
  <2>. QED  BY <1>6, <2>4, <2>5, <2>7, <2>8, <2>9 DEF VortexInd
<1>5. CASE ~kind.binned
  <2>1. data = {first} /\ units = <<NewUnit>> /\ DOMAIN binMap = {}
    BY <1>5 DEF VortexInit, first
  <2>2. NewUnit \in Units /\ NewUnit.acts = <<>> /\ NewUnit.time = 0
    BY DEF NewUnit, Unit, Units
  <2>3. units \in Seq(Units) /\ DOMAIN units = {1} /\ units[1] = NewUnit
    BY <2>1, <2>2
  <2>4. VortexType
    <3>1. data \in SUBSET Activities /\ IsFiniteSet(data)
      BY <1>1, <2>1, FS_Singleton
    <3>. QED  BY <1>1, <1>2, <2>1, <2>3, <3>1 DEF VortexType, Threads
  <2>5. KindInv
    BY <1>3, <1>5, <1>2, <2>1 DEF KindInv
  <2>6. UnitInv /\ OwnerInv
    BY <1>2, <1>3, <1>5, <2>1, <2>2, <2>3 DEF UnitInv, OwnerInv
  <2>7. Contents = {first} /\ InFlight = {}
    BY <1>5, <2>1, <2>4, <2>5, QueueContents
  <2>. QED  BY <1>6, <2>4, <2>5, <2>6, <2>7 DEF VortexInd
<1>. QED  BY <1>4, <1>5

-----------------------------------------------------------------------------
(* The priority queue. *)

(* What stays, whatever happens. *)
LEMMA QueueKeepsBins ==
    ASSUME VortexInd, ~kind.binned, UNCHANGED <<kind, bins>>, pc' \in [Threads -> {"idle", "sync"}],
           pc'["other"] = "idle"
    PROVE  KindInv' /\ UnitInv' /\ OwnerInv'
<1>1. /\ KindInv' /\ UNCHANGED <<units, current, binMap, pool>> /\ DOMAIN binMap = {}
      /\ pc'["me"] \in {"idle", "sync"} /\ \A u : Used(u)' <=> Used(u)
  BY DEF VortexInd, KindInv, bins, Threads, Used
<1>2. UnitInv'
  BY <1>1 DEF VortexInd, UnitInv
<1>3. OwnerInv'
  BY <1>1 DEF OwnerInv, Inserting, Popping
<1>. QED  BY <1>1, <1>2, <1>3

LEMMA NewActivity ==
    /\ \A a \in Activities, n \in Nat :
          /\ [a EXCEPT !.order = n] \in Activities /\ [a EXCEPT !.order = n].id = a.id
          /\ [a EXCEPT !.order = n].time = a.time /\ [a EXCEPT !.order = n].prio = a.prio
          /\ [a EXCEPT !.order = n].handler = a.handler /\ [a EXCEPT !.order = n].order = n
    /\ \A h \in EventHandlers, i \in Nat, t \in Nat :
          /\ Activity(i, t, Prio[h], h) \in Activities
          /\ Activity(i, t, Prio[h], h).id = i /\ Activity(i, t, Prio[h], h).time = t
          /\ Activity(i, t, Prio[h], h).prio = Prio[h] /\ Activity(i, t, Prio[h], h).handler = h
    /\ \A t \in Nat : /\ SyncManager(t) \in Activities /\ SyncManager(t).id = 0 /\ SyncManager(t).time = t
                      /\ SyncManager(t).prio = SYNCPRIORITY /\ SyncManager(t).handler = 0
<1>. USE VortexAssumption
<1>1. \A a \in Activities, n \in Nat :
          /\ [a EXCEPT !.order = n] \in Activities /\ [a EXCEPT !.order = n].id = a.id
          /\ [a EXCEPT !.order = n].time = a.time /\ [a EXCEPT !.order = n].prio = a.prio
          /\ [a EXCEPT !.order = n].handler = a.handler /\ [a EXCEPT !.order = n].order = n
  BY DEF Activities
<1>2. \A h \in EventHandlers, i \in Nat, t \in Nat :
          /\ Activity(i, t, Prio[h], h) \in Activities
          /\ Activity(i, t, Prio[h], h).id = i /\ Activity(i, t, Prio[h], h).time = t
          /\ Activity(i, t, Prio[h], h).prio = Prio[h] /\ Activity(i, t, Prio[h], h).handler = h
  BY DEF Activities, Activity, EventHandlers
<1>3. \A t \in Nat : /\ SyncManager(t) \in Activities /\ SyncManager(t).id = 0 /\ SyncManager(t).time = t
                      /\ SyncManager(t).prio = SYNCPRIORITY /\ SyncManager(t).handler = 0
  BY DEF Activities, Activity, SyncManager, SYNCPRIORITY
<1>. QED  BY <1>1, <1>2, <1>3

(* The activity as insert() counts it. *)
Entered(a) == [a EXCEPT !.order = insertOrder]

(* What is sent is later than what was executed. *)
MaySend(h, time) ==
    time > popped.time \/ (time = popped.time /\ Prio[h] >= popped.prio) \/ time >= syncAt

LEMMA SentIsLater ==
    ASSUME VortexInd, NEW h \in EventHandlers, NEW time \in Nat, MaySend(h, time),
           NEW b, b = Entered(Activity(events + 1, time, Prio[h], h))
    PROVE  /\ b \in Activities /\ Later(b) /\ b.id = events + 1 /\ b.prio = Prio[h] /\ b.handler = h
           /\ b.handler # 0 /\ b.time = time
<1>. USE VortexAssumption
<1>1. VortexType /\ KindInv /\ PendingInv /\ PoppedInv
  BY DEF VortexInd
<1>2. insertOrder \in Nat /\ events \in Nat /\ popped \in Activities /\ syncAt \in Nat
  BY <1>1 DEF VortexType
<1>3. /\ b \in Activities /\ b.id = events + 1 /\ b.prio = Prio[h] /\ b.handler = h /\ b.handler # 0
      /\ b.time = time /\ b.order = insertOrder
  <2>1. h # 0 /\ h \in EventHandlers \cup {0} /\ events + 1 \in Nat /\ Prio[h] \in Nat
    BY <1>2 DEF EventHandlers
  <2>2. b = [id |-> events + 1, time |-> time, prio |-> Prio[h], handler |-> h, order |-> insertOrder]
    BY DEF Activity, Entered
  <2>. QED  BY <1>2, <2>1, <2>2 DEF Activities
<1>4. Prio[h] \in Nat /\ Prio[h] > SYNCPRIORITY
  BY DEF EventHandlers
<1>5. popped.prio \in Nat /\ popped.time \in Nat /\ popped.order \in Nat
  BY <1>2 DEF Activities
<1>6. CASE time > popped.time \/ (time = popped.time /\ Prio[h] >= popped.prio)
  <2>1. time > popped.time \/ (time = popped.time /\ Prio[h] >= popped.prio)
    BY <1>6
  <2>2. CASE popped.handler = 0
    BY <1>1, <1>2, <1>3, <1>4, <1>5, <2>1, <2>2 DEF PoppedInv, Less, SYNCPRIORITY, Later
  <2>3. CASE popped.handler # 0
    BY <1>1, <1>2, <1>3, <1>4, <1>5, <2>1, <2>3 DEF PoppedInv, Less, Later
  <2>. QED  BY <1>3, <2>2, <2>3
<1>7. CASE time >= syncAt
  <2>1. time >= syncAt
    BY <1>7
  <2>2. CASE pc["me"] = "sync"
    BY <1>1, <1>2, <1>3, <1>4, <1>5, <2>1, <2>2 DEF PoppedInv, Less, SYNCPRIORITY, Later
  <2>3. CASE pc["me"] # "sync"
    <3>1. PICK a \in Pending : a.id = 0
      BY <1>1, <2>3 DEF PendingInv
    <3>2. a.handler = 0 /\ a.time = syncAt /\ a.prio = SYNCPRIORITY /\ ~Less(a, popped)
      BY <1>1, <3>1 DEF PendingInv
    <3>3. popped.time < syncAt \/ (popped.time = syncAt /\ popped.prio <= SYNCPRIORITY)
      BY <1>2, <1>5, <3>2 DEF Less, SYNCPRIORITY
    <3>. QED  BY <1>2, <1>3, <1>4, <1>5, <2>1, <3>3 DEF Less, SYNCPRIORITY, Later
  <2>. QED  BY <2>2, <2>3
<1>. QED  BY <1>6, <1>7 DEF MaySend

LEMMA SyncIsLater ==
    ASSUME VortexInd, pc["me"] = "sync",
           NEW b, b = Entered(SyncManager(syncAt + Window))
    PROVE  /\ b \in Activities /\ Later(b) /\ b.id = 0 /\ b.prio = SYNCPRIORITY /\ b.handler = 0
           /\ b.time = syncAt + Window /\ b.time > popped.time
<1>. USE VortexAssumption
<1>1. insertOrder \in Nat /\ popped \in Activities /\ syncAt \in Nat /\ popped.time = syncAt
  BY DEF VortexInd, VortexType, PoppedInv
<1>2. syncAt + Window \in Nat /\ SyncManager(syncAt + Window) \in Activities
  BY <1>1, NewActivity
<1>3. /\ b \in Activities /\ b.id = 0 /\ b.prio = SYNCPRIORITY /\ b.handler = 0
      /\ b.time = syncAt + Window /\ b.order = insertOrder
  BY <1>1, <1>2, NewActivity DEF Entered
<1>. QED  BY <1>1, <1>3 DEF Less, Later

(* What was saved stays in order when something comes that is not among it, or goes. *)
LEMMA SavedWhenComes ==
    ASSUME SavedInv, NEW b, Contents' = Contents \cup {b}, b.id \notin 1 .. events,
           saved' = saved, gone' = gone, events' \in {events, events + 1}, events \in Nat
    PROVE  SavedInv'
<1>1. \A c \in saved : c.id \in 1 .. events
  BY DEF SavedInv
<1>2. ASSUME NEW a \in saved, a.id \notin gone
      PROVE  \E d \in Contents' :
                 /\ d = [a EXCEPT !.order = d.order]
                 /\ \A c \in saved, x \in Contents' :
                       /\ Less(c, a) /\ x.id = c.id
                       /\ (c.handler = a.handler \/ c.time # a.time \/ c.prio # a.prio)
                       => Less(x, d)
  <2>1. PICK d \in Contents :
                 /\ d = [a EXCEPT !.order = d.order]
                 /\ \A c \in saved, x \in Contents :
                       /\ Less(c, a) /\ x.id = c.id
                       /\ (c.handler = a.handler \/ c.time # a.time \/ c.prio # a.prio)
                       => Less(x, d)
    BY <1>2 DEF SavedInv, RestartKeepsEvents
  <2>2. \A c \in saved, x \in Contents' : x.id = c.id => x \in Contents
    BY <1>1
  <2>. QED  BY <2>1, <2>2
<1>3. \A c \in saved : c.id \in 1 .. events'
  BY <1>1
<1>. QED  BY <1>2, <1>3 DEF SavedInv, RestartKeepsEvents

LEMMA SavedWhenGoes ==
    ASSUME SavedInv, NEW b, Contents' = Contents \ {b}, b.id \in gone' \/ b.id \notin 1 .. events,
           saved' = saved, gone \subseteq gone', events' = events,
           saved \in SUBSET Activities, Contents \in SUBSET Activities
    PROVE  SavedInv'
<1>1. \A c \in saved : c.id \in 1 .. events
  BY DEF SavedInv
<1>2. ASSUME NEW a \in saved, a.id \notin gone'
      PROVE  \E d \in Contents' :
                 /\ d = [a EXCEPT !.order = d.order]
                 /\ \A c \in saved, x \in Contents' :
                       /\ Less(c, a) /\ x.id = c.id
                       /\ (c.handler = a.handler \/ c.time # a.time \/ c.prio # a.prio)
                       => Less(x, d)
  <2>0. a.id \notin gone
    BY <1>2
  <2>1. PICK d \in Contents :
                 /\ d = [a EXCEPT !.order = d.order]
                 /\ \A c \in saved, x \in Contents :
                       /\ Less(c, a) /\ x.id = c.id
                       /\ (c.handler = a.handler \/ c.time # a.time \/ c.prio # a.prio)
                       => Less(x, d)
    BY <2>0 DEF SavedInv, RestartKeepsEvents
  <2>2. d.id = a.id
    <3>1. a \in Activities /\ d.order \in Nat
      BY <2>1 DEF Activities
    <3>2. [a EXCEPT !.order = d.order].id = a.id
      BY <3>1, NewActivity
    <3>. QED  BY <2>1, <3>2
  <2>3. d # b
    BY <1>1, <1>2, <2>2
  <2>. QED  BY <2>1, <2>3
<1>. QED  BY <1>1, <1>2 DEF SavedInv, RestartKeepsEvents

LEMMA QueueSend ==
    ASSUME VortexInd, ~kind.binned, NEW t \in Threads, NEW h \in EventHandlers, NEW time \in 0 .. LastSync,
           Send(t, h, time)
    PROVE  VortexInd'
<1>0. PICK b : b = Entered(Activity(events + 1, time, Prio[h], h))
  OBVIOUS
<1>1. VortexType /\ KindInv /\ PendingInv /\ PoppedInv /\ DepthInv /\ SavedInv
  BY DEF VortexInd
<1>2. /\ b \in Activities /\ Later(b) /\ b.id = events + 1 /\ b.prio = Prio[b.handler] /\ b.handler # 0
  <2>1. time \in Nat /\ MaySend(h, time)
    BY VortexAssumption DEF Send, MaySend, Threads
  <2>2. b \in Activities /\ Later(b) /\ b.id = events + 1 /\ b.prio = Prio[h] /\ b.handler = h /\ b.handler # 0
    BY <1>0, <2>1, SentIsLater
  <2>. QED  BY <2>2
<1>3. /\ insertOrder' = insertOrder + 1 /\ depth' = depth + 1 /\ events' = events + 1
      /\ data' = data \cup {b} /\ pc' = [pc EXCEPT ![t] = "idle"] /\ pc[t] = "idle"
      /\ UNCHANGED <<kind, bins, target, popped, act, syncAt, gone, saved>>
  BY <1>0 DEF Send, Insert, Goto, Entered
<1>4. Contents = data /\ InFlight = {} /\ Pending = data /\ ~Inserting /\ ~Popping
  BY <1>1, QueueContents DEF Pending
<1>5. b \notin data
  BY <1>1, <1>2, <1>4 DEF PendingInv, VortexType, Later
<1>6. pc' \in [Threads -> {"idle", "sync"}] /\ pc'["other"] = "idle" /\ pc' = pc
  BY <1>1, <1>3 DEF KindInv, VortexType, Threads
<1>7. VortexType'
  <2>1. IsFiniteSet(data')
    BY <1>1, <1>3, <1>5, FS_AddElement DEF VortexType
  <2>2. gone' \in SUBSET (1 .. events')
    BY <1>1, <1>3 DEF VortexType
  <2>3. pc' \in [Threads -> {"idle", "test", "find", "push", "unit", "next", "sync"}]
    BY <1>6
  <2>. QED  BY <1>1, <1>2, <1>3, <2>1, <2>2, <2>3 DEF VortexType, bins
<1>8. KindInv' /\ UnitInv' /\ OwnerInv'
  BY <1>3, <1>6, QueueKeepsBins
<1>9. Contents' = data' /\ InFlight' = {} /\ Pending' = data' /\ ~Inserting' /\ ~Popping'
  BY <1>3, <1>7, <1>8, QueueContentsNext DEF Pending
<1>10. PendingInv' /\ PoppedInv'
  <2>1. Pending \in SUBSET Activities /\ Pending' = Pending \cup {b}
        /\ popped' = popped /\ gone' = gone /\ syncAt' = syncAt
    BY <1>1, <1>3, <1>4, <1>9 DEF VortexType
  <2>2. (pc'["me"] = "sync") <=> (pc["me"] = "sync")
    BY <1>6
  <2>. QED  BY <1>1, <1>2, <1>3, <2>1, <2>2, EventComes
<1>11. DepthInv'
  <2>1. Cardinality(data \cup {b}) = Cardinality(data) + 1 /\ IsFiniteSet(data')
    BY <1>1, <1>5, <1>7, FS_AddElement DEF VortexType
  <2>. QED  BY <1>1, <1>3, <1>4, <1>9, <2>1 DEF DepthInv
<1>12. SavedInv'
  <2>1. Contents' = Contents \cup {b} /\ b.id \notin 1 .. events /\ events \in Nat
        /\ saved' = saved /\ gone' = gone /\ events' \in {events, events + 1}
    BY <1>1, <1>2, <1>3, <1>4, <1>9 DEF VortexType
  <2>. QED  BY <1>1, <2>1, SavedWhenComes
<1>. QED  BY <1>7, <1>8, <1>10, <1>11, <1>12 DEF VortexInd

LEMMA QueueLeaveSync ==
    ASSUME VortexInd, ~kind.binned, LeaveSync
    PROVE  VortexInd'
<1>0. PICK b : b = Entered(SyncManager(syncAt + Window))
  OBVIOUS
<1>1. VortexType /\ KindInv /\ PendingInv /\ PoppedInv /\ DepthInv /\ SavedInv /\ pc["me"] = "sync"
  BY DEF VortexInd, LeaveSync
<1>2. /\ b \in Activities /\ Later(b) /\ b.id = 0 /\ b.prio = SYNCPRIORITY /\ b.handler = 0
      /\ b.time = syncAt + Window
  BY <1>0, <1>1, SyncIsLater
<1>3. /\ insertOrder' = insertOrder + 1 /\ depth' = depth + 1 /\ syncAt' = syncAt + Window
      /\ data' = data \cup {b} /\ pc' = [pc EXCEPT !["me"] = "idle"]
      /\ UNCHANGED <<kind, bins, target, popped, act, events, gone, saved>>
  BY <1>0 DEF LeaveSync, Insert, Entered, Goto, history
<1>4. Contents = data /\ InFlight = {} /\ Pending = data /\ ~Inserting /\ ~Popping
  BY <1>1, QueueContents DEF Pending
<1>5. b \notin data
  BY <1>1, <1>2, <1>4 DEF PendingInv, VortexType, Later
<1>6. pc' \in [Threads -> {"idle", "sync"}] /\ pc'["other"] = "idle" /\ pc'["me"] # "sync"
  BY <1>1, <1>3 DEF KindInv, VortexType, Threads
<1>7. VortexType'
  <2>1. IsFiniteSet(data')
    BY <1>1, <1>3, <1>5, FS_AddElement DEF VortexType
  <2>3. pc' \in [Threads -> {"idle", "test", "find", "push", "unit", "next", "sync"}]
    BY <1>6
  <2>4. syncAt' \in Nat
    BY <1>1, <1>3, VortexAssumption DEF VortexType
  <2>. QED  BY <1>1, <1>2, <1>3, <2>1, <2>3, <2>4 DEF VortexType, bins
<1>8. KindInv' /\ UnitInv' /\ OwnerInv'
  BY <1>3, <1>6, QueueKeepsBins
<1>9. Contents' = data' /\ InFlight' = {} /\ Pending' = data' /\ ~Inserting' /\ ~Popping'
  BY <1>3, <1>7, <1>8, QueueContentsNext DEF Pending
<1>10. PendingInv' /\ PoppedInv'
  <2>1. Pending \in SUBSET Activities /\ Pending' = Pending \cup {b}
        /\ popped' = popped /\ gone' = gone /\ events' = events /\ b.time = syncAt'
    BY <1>1, <1>2, <1>3, <1>4, <1>9 DEF VortexType
  <2>. QED  BY <1>1, <1>2, <1>3, <1>6, <2>1, SyncComes
<1>11. DepthInv'
  <2>1. Cardinality(data \cup {b}) = Cardinality(data) + 1 /\ IsFiniteSet(data')
    BY <1>1, <1>5, <1>7, FS_AddElement DEF VortexType
  <2>. QED  BY <1>1, <1>3, <1>4, <1>9, <2>1 DEF DepthInv
<1>12. SavedInv'
  <2>1. Contents' = Contents \cup {b} /\ b.id \notin 1 .. events /\ events \in Nat
        /\ saved' = saved /\ gone' = gone /\ events' \in {events, events + 1}
    BY <1>1, <1>2, <1>3, <1>4, <1>9 DEF VortexType
  <2>. QED  BY <1>1, <2>1, SavedWhenComes
<1>. QED  BY <1>7, <1>8, <1>10, <1>11, <1>12 DEF VortexInd

LEMMA QueuePop ==
    ASSUME VortexInd, ~kind.binned, Pop
    PROVE  VortexInd'
<1>0. PICK a : a = Top(data)
  OBVIOUS
<1>1. VortexType /\ KindInv /\ PendingInv /\ PoppedInv /\ DepthInv /\ SavedInv
      /\ pc["me"] = "idle" /\ depth # 0
  BY DEF VortexInd, Pop
<1>4. Contents = data /\ InFlight = {} /\ Pending = data /\ ~Inserting /\ ~Popping
  BY <1>1, QueueContents DEF Pending
<1>2. a \in data /\ \A b \in data : ~Less(b, a)
  <2>1. data # {} /\ data \in SUBSET Activities /\ IsFiniteSet(data)
    BY <1>1, <1>4, FS_EmptySet DEF DepthInv, VortexType
  <2>. QED  BY <1>0, <2>1, TopIsFirst
<1>3. /\ depth' = depth - 1 /\ data' = data \ {a} /\ popped' = a
      /\ gone' = IF a.handler = 0 THEN gone ELSE gone \cup {a.id}
      /\ pc' = [pc EXCEPT !["me"] = IF a.handler = 0 THEN "sync" ELSE "idle"]
      /\ UNCHANGED <<kind, bins, insertOrder, target, act, syncAt, events, saved>>
  BY <1>0 DEF Pop, Execute, Goto
<1>6. /\ pc' \in [Threads -> {"idle", "sync"}] /\ pc'["other"] = "idle"
      /\ pc'["me"] = IF a.handler = 0 THEN "sync" ELSE "idle"
  BY <1>1, <1>3 DEF KindInv, VortexType, Threads
<1>5. a \in Activities /\ (a.handler # 0 => a.id \in 1 .. events) /\ (a.handler = 0 => a.id = 0)
  BY <1>1, <1>2, <1>4 DEF PendingInv, VortexType
<1>7. VortexType'
  <2>1. IsFiniteSet(data')
    BY <1>1, <1>2, <1>3, FS_RemoveElement DEF VortexType
  <2>2. gone' \in SUBSET (1 .. events')
    BY <1>1, <1>3, <1>5 DEF VortexType
  <2>3. pc' \in [Threads -> {"idle", "test", "find", "push", "unit", "next", "sync"}]
    BY <1>6
  <2>4. depth' \in Nat
    BY <1>1, <1>3 DEF VortexType
  <2>. QED  BY <1>1, <1>3, <1>5, <2>1, <2>2, <2>3, <2>4 DEF VortexType, bins
<1>8. KindInv' /\ UnitInv' /\ OwnerInv'
  BY <1>3, <1>6, QueueKeepsBins
<1>9. Contents' = data' /\ InFlight' = {} /\ Pending' = data' /\ ~Inserting' /\ ~Popping'
  BY <1>3, <1>7, <1>8, QueueContentsNext DEF Pending
<1>10. PendingInv' /\ PoppedInv'
  <2>1. /\ Pending \in SUBSET Activities /\ Pending' = Pending \ {a} /\ a \in Pending
        /\ \A b \in Pending : ~Less(b, a)
        /\ insertOrder' = insertOrder /\ events' = events /\ syncAt' = syncAt /\ pc["me"] # "sync"
    BY <1>1, <1>2, <1>3, <1>4, <1>9 DEF VortexType
  <2>. QED  BY <1>1, <1>3, <1>6, <2>1, FirstGoes
<1>11. DepthInv'
  <2>1. Cardinality(data \ {a}) = Cardinality(data) - 1 /\ IsFiniteSet(data')
    BY <1>1, <1>2, <1>7, FS_RemoveElement DEF VortexType
  <2>. QED  BY <1>1, <1>3, <1>4, <1>9, <2>1 DEF DepthInv
<1>12. SavedInv'
  <2>1. Contents' = Contents \ {a} /\ (a.id \in gone' \/ a.id \notin 1 .. events)
        /\ saved' = saved /\ gone \subseteq gone' /\ events' = events
        /\ saved \in SUBSET Activities /\ Contents \in SUBSET Activities
    BY <1>1, <1>3, <1>4, <1>5, <1>9 DEF VortexType
  <2>. QED  BY <1>1, <2>1, SavedWhenGoes
<1>. QED  BY <1>7, <1>8, <1>10, <1>11, <1>12 DEF VortexInd

(* The order in which a restart inserts: link by link, and for one link as before. *)
Before(link, a, b) == link[a.handler] < link[b.handler] \/ (a.handler = b.handler /\ Less(a, b))
Place(link, S, a) == Cardinality({b \in S : Before(link, b, a)})
Numbers(link, S) ==
    /\ \A a \in S : link[a.handler] \in Nat
    /\ \A a, b \in S : link[a.handler] = link[b.handler] => a.handler = b.handler

LEMMA PlacesDiffer ==
    ASSUME NEW S \in SUBSET Activities, IsFiniteSet(S), Distinct(S), NEW link, Numbers(link, S)
    PROVE  /\ Cardinality(S) \in Nat
           /\ \A a \in S : Place(link, S, a) \in Nat /\ Place(link, S, a) < Cardinality(S)
           /\ \A a, b \in S : Before(link, a, b) => Place(link, S, a) < Place(link, S, b)
           /\ \A a, b \in S : Place(link, S, a) = Place(link, S, b) => a = b
<1>. DEFINE E(a) == {b \in S : Before(link, b, a)}
<1>1. ASSUME NEW P \in SUBSET S, NEW Q \in SUBSET S, P \subseteq Q, \E x \in Q : x \notin P
      PROVE  Cardinality(P) \in Nat /\ Cardinality(Q) \in Nat /\ Cardinality(P) < Cardinality(Q)
  <2>1. IsFiniteSet(P) /\ IsFiniteSet(Q) /\ P # Q
    BY <1>1, FS_Subset
  <2>2. Cardinality(P) \in Nat /\ Cardinality(Q) \in Nat /\ Cardinality(P) <= Cardinality(Q)
        /\ (Cardinality(P) = Cardinality(Q) => P = Q)
    BY <1>1, <2>1, FS_Subset, FS_CardinalityType
  <2>. QED  BY <2>1, <2>2
<1>2. \A a \in S : link[a.handler] \in Nat
  BY DEF Numbers
<1>3. \A a, b, c \in S : Before(link, a, b) /\ Before(link, b, c) => Before(link, a, c)
  <2>. TAKE a, b, c \in S
  <2>1. link[a.handler] \in Nat /\ link[b.handler] \in Nat /\ link[c.handler] \in Nat
    BY <1>2
  <2>2. Less(a, b) /\ Less(b, c) => Less(a, c)
    BY LessIsOrder
  <2>. QED  BY <2>1, <2>2 DEF Before
<1>4. \A a \in S : ~Before(link, a, a)
  <2>. TAKE a \in S
  <2>1. link[a.handler] \in Nat /\ ~Less(a, a)
    BY <1>2, LessIsOrder
  <2>. QED  BY <2>1 DEF Before
<1>5. \A a, b \in S : a # b => Before(link, a, b) \/ Before(link, b, a)
  <2>. TAKE a, b \in S
  <2>. SUFFICES ASSUME a # b PROVE Before(link, a, b) \/ Before(link, b, a)
    OBVIOUS
  <2>1. link[a.handler] \in Nat /\ link[b.handler] \in Nat
    BY <1>2
  <2>2. Less(a, b) \/ Less(b, a)
    BY LessIsOrder DEF Distinct
  <2>3. link[a.handler] = link[b.handler] => a.handler = b.handler
    BY DEF Numbers
  <2>. QED  BY <2>1, <2>2, <2>3 DEF Before
<1>6. \A a \in S : E(a) \in SUBSET S /\ a \notin E(a)
  BY <1>4
<1>7. \A a, b \in S : Before(link, a, b) => E(a) \subseteq E(b) /\ a \in E(b)
  BY <1>3
<1>8. \A a \in S : Place(link, S, a) = Cardinality(E(a))
  BY DEF Place
<1>. HIDE DEF E
<1>9. Cardinality(S) \in Nat /\ S \in SUBSET S
  BY FS_CardinalityType
<1>10. \A a \in S : Place(link, S, a) \in Nat /\ Place(link, S, a) < Cardinality(S)
  <2>. TAKE a \in S
  <2>1. E(a) \in SUBSET S /\ E(a) \subseteq S /\ \E x \in S : x \notin E(a)
    BY <1>6
  <2>2. Cardinality(E(a)) \in Nat /\ Cardinality(E(a)) < Cardinality(S)
    BY <1>1, <1>9, <2>1
  <2>. QED  BY <1>8, <2>2
<1>11. \A a, b \in S : Before(link, a, b) => Place(link, S, a) < Place(link, S, b)
  <2>. TAKE a, b \in S
  <2>. SUFFICES ASSUME Before(link, a, b) PROVE Place(link, S, a) < Place(link, S, b)
    OBVIOUS
  <2>1. E(a) \in SUBSET S /\ E(b) \in SUBSET S /\ E(a) \subseteq E(b) /\ \E x \in E(b) : x \notin E(a)
    BY <1>6, <1>7
  <2>2. Cardinality(E(a)) < Cardinality(E(b))
    BY <1>1, <2>1
  <2>. QED  BY <1>8, <2>2
<1>12. \A a, b \in S : Place(link, S, a) = Place(link, S, b) => a = b
  <2>. TAKE a, b \in S
  <2>1. Place(link, S, a) \in Nat /\ Place(link, S, b) \in Nat
    BY <1>10
  <2>. QED  BY <1>5, <1>11, <2>1
<1>. QED  BY <1>9, <1>10, <1>11, <1>12

(* An event keeps all but its place. *)
Placed(link, S, a) == [a EXCEPT !.order = Place(link, S, a)]

LEMMA QueueRestart ==
    ASSUME VortexInd, ~kind.binned, VortexRestart
    PROVE  VortexInd'
<1>1. /\ VortexType /\ KindInv /\ PendingInv /\ PoppedInv /\ DepthInv /\ SavedInv
      /\ pc["me"] = "sync" /\ pc["other"] = "idle"
  BY DEF VortexInd, VortexRestart
<1>2. Contents = data /\ Pending = data /\ data \in SUBSET Activities /\ IsFiniteSet(data)
  BY <1>1, QueueContents DEF Pending, VortexType
<1>3. ASSUME NEW a \in data
      PROVE  /\ a \in Activities /\ a.handler \in EventHandlers /\ a.handler # 0 /\ a.id \in (1 .. events) \ gone
             /\ a.prio = Prio[a.handler] /\ a.prio > SYNCPRIORITY /\ ~Less(a, popped)
  <2>1. a.handler # 0 /\ a \in Activities /\ ~Less(a, popped) /\ a.id \in (1 .. events) \ gone /\ a.prio = Prio[a.handler]
    BY <1>1, <1>2, <1>3 DEF PendingInv
  <2>2. a.handler \in EventHandlers
    BY <2>1 DEF Activities
  <2>. QED  BY <2>1, <2>2, VortexAssumption DEF EventHandlers
<1>4. Distinct(data) /\ \A a, b \in data : a.id = b.id => a = b
  BY <1>1, <1>2 DEF PendingInv, Distinct
<1>5. {a \in Contents : a.handler # 0} = data /\ UNION {EventsFor(h) : h \in EventHandlers} = data
  BY <1>2, <1>3 DEF EventsFor, GetContents
<1>6. PICK link \in Bijection(EventHandlers, 1 .. Cardinality(EventHandlers)) :
        LET pending == UNION {EventsFor(h) : h \in EventHandlers}
            Earlier(a) == {b \in pending : link[b.handler] < link[a.handler]
                                           \/ (b.handler = a.handler /\ Less(b, a))}
        IN  /\ data' = {[a EXCEPT !.order = Cardinality(Earlier(a))] : a \in pending}
            /\ insertOrder' = Cardinality(pending) /\ depth' = Cardinality(pending)
  BY DEF VortexRestart
<1>7. /\ data' = {Placed(link, data, a) : a \in data}
      /\ insertOrder' = Cardinality(data) /\ depth' = Cardinality(data)
  BY <1>5, <1>6 DEF Placed, Place, Before
<1>8. /\ saved' = data /\ units' = <<NewUnit>> /\ current' = 1 /\ binMap' = <<>> /\ pool' = <<>>
      /\ UNCHANGED <<kind, pc, act, target, popped, syncAt, events, gone>>
  BY <1>5 DEF VortexRestart
<1>9. Numbers(link, data)
  <2>1. Cardinality(EventHandlers) \in Nat
    BY VortexAssumption, FS_CardinalityType DEF EventHandlers
  <2>2. \A h \in EventHandlers : link[h] \in Nat
    BY <1>6, <2>1 DEF Bijection, Injection, Surjection
  <2>3. \A g, h \in EventHandlers : link[g] = link[h] => g = h
    BY <1>6 DEF Bijection, Injection, IsInjective
  <2>. QED  BY <1>3, <2>2, <2>3 DEF Numbers
<1>10. /\ Cardinality(data) \in Nat
       /\ \A a \in data : Place(link, data, a) \in Nat /\ Place(link, data, a) < Cardinality(data)
       /\ \A a, b \in data : Before(link, a, b) => Place(link, data, a) < Place(link, data, b)
       /\ \A a, b \in data : Place(link, data, a) = Place(link, data, b) => a = b
  BY <1>2, <1>4, <1>9, PlacesDiffer
<1>11. ASSUME NEW a \in data, NEW b, b = Placed(link, data, a)
       PROVE  /\ b \in Activities /\ b.id = a.id /\ b.time = a.time /\ b.prio = a.prio /\ b.handler = a.handler
              /\ b.order = Place(link, data, a) /\ b = [a EXCEPT !.order = b.order]
  <2>1. a \in Activities /\ Place(link, data, a) \in Nat
    BY <1>3, <1>10, <1>11
  <2>2. b = [a EXCEPT !.order = Place(link, data, a)]
    BY <1>11 DEF Placed
  <2>3. b.order = Place(link, data, a)
    BY <2>1, <2>2, NewActivity
  <2>. QED  BY <2>1, <2>2, <2>3, NewActivity
<1>12. \A b \in data' : \E a \in data : b = Placed(link, data, a)
  BY <1>7
<1>13. data' \in SUBSET Activities /\ IsFiniteSet(data') /\ Cardinality(data') = Cardinality(data)
  <2>1. data' \in SUBSET Activities
    BY <1>11, <1>12
  <2>. DEFINE f == [a \in data |-> Placed(link, data, a)]
  <2>2. f \in Bijection(data, data')
    <3>1. \A a, b \in data : f[a] = f[b] => a = b
      BY <1>10, <1>11
    <3>. QED  BY <1>7, <3>1 DEF Bijection, Injection, Surjection, IsInjective
  <2>3. ExistsBijection(data, data')
    BY <2>2 DEF ExistsBijection
  <2>. HIDE DEF f
  <2>4. IsFiniteSet(data') /\ Cardinality(data') = Cardinality(data)
    BY <1>2, <2>3, FS_Bijection
  <2>. QED  BY <2>1, <2>4
<1>14. NewUnit \in Units /\ NewUnit.acts = <<>> /\ NewUnit.time = 0
  BY DEF NewUnit, Unit, Units
<1>15. /\ units' \in Seq(Units) /\ DOMAIN units' = {1} /\ units'[1] = NewUnit /\ DOMAIN binMap' = {}
       /\ DOMAIN pool' = {} /\ pool' \in Seq(Nat)
  BY <1>8, <1>14
<1>16. VortexType'
  <2>1. saved' \in SUBSET Activities /\ insertOrder' \in Nat /\ depth' \in Nat
    BY <1>2, <1>7, <1>8, <1>10
  <2>2. current' \in DOMAIN units' /\ \A t \in DOMAIN binMap' : binMap'[t] \in DOMAIN units'
    BY <1>8, <1>15
  <2>. QED  BY <1>1, <1>8, <1>13, <1>15, <2>1, <2>2 DEF VortexType
<1>17. KindInv'
  BY <1>1, <1>8, <1>15 DEF KindInv
<1>18. UnitInv' /\ OwnerInv'
  <2>1. DOMAIN units'[1].acts = {}
    BY <1>14, <1>15
  <2>2. ~Inserting' /\ ~Popping' /\ ~kind'.binned
    BY <1>1, <1>8 DEF Inserting, Popping
  <2>3. UnitInv'
    BY <1>15, <2>1 DEF UnitInv
  <2>4. OwnerInv'
    BY <1>1, <1>8, <2>2 DEF OwnerInv, Inserting, Popping
  <2>. QED  BY <2>3, <2>4
<1>19. Contents' = data' /\ InFlight' = {} /\ Pending' = data' /\ ~Inserting' /\ ~Popping'
  BY <1>8, <1>16, <1>17, QueueContentsNext DEF Pending
<1>20. PendingInv'
  <2>1. ASSUME NEW b \in data'
        PROVE  /\ b.order < insertOrder' /\ ~Less(b, popped')
               /\ b.handler # 0 /\ b.id \in (1 .. events') \ gone' /\ b.prio = Prio[b.handler]
    <3>1. PICK a \in data : b = Placed(link, data, a)
      BY <1>12
    <3>2. /\ b \in Activities /\ b.id = a.id /\ b.time = a.time /\ b.prio = a.prio /\ b.handler = a.handler
          /\ b.order = Place(link, data, a)
      BY <1>11, <3>1
    <3>3. popped.handler = 0 /\ popped.prio <= SYNCPRIORITY /\ popped \in Activities
      BY <1>1 DEF PoppedInv, VortexType
    <3>4. a \in Activities /\ ~Less(a, popped) /\ a.prio > SYNCPRIORITY
      BY <1>3
    <3>5. ~Less(b, popped)
      BY <3>2, <3>3, <3>4 DEF Less, Activities, SYNCPRIORITY
    <3>. QED  BY <1>3, <1>7, <1>8, <1>10, <3>2, <3>5
  <2>2. \A b, d \in data' : b.order = d.order \/ b.id = d.id => b = d
    <3>. TAKE b, d \in data'
    <3>1. PICK a \in data : b = Placed(link, data, a)
      BY <1>12
    <3>2. PICK c \in data : d = Placed(link, data, c)
      BY <1>12
    <3>3. b.order = Place(link, data, a) /\ b.id = a.id /\ d.order = Place(link, data, c) /\ d.id = c.id
      BY <1>11, <3>1, <3>2
    <3>4. b.order = d.order \/ b.id = d.id => a = c
      BY <1>4, <1>10, <3>3
    <3>. QED  BY <3>1, <3>2, <3>4
  <2>3. \A i \in (1 .. events') \ gone' : \E b \in data' : b.id = i
    <3>. TAKE i \in (1 .. events') \ gone'
    <3>1. PICK a \in data : a.id = i
      BY <1>1, <1>2, <1>8 DEF PendingInv
    <3>2. PICK b : b = Placed(link, data, a)
      OBVIOUS
    <3>3. b \in data' /\ b.id = i
      BY <1>7, <1>11, <3>1, <3>2
    <3>. QED  BY <3>3
  <2>4. pc'["me"] = "sync"
    BY <1>1, <1>8
  <2>. QED  BY <1>19, <2>1, <2>2, <2>3, <2>4 DEF PendingInv
<1>21. PoppedInv'
  BY <1>1, <1>8 DEF PoppedInv
<1>22. DepthInv'
  BY <1>7, <1>13, <1>19 DEF DepthInv
<1>23. SavedInv'
  <2>1. ASSUME NEW a \in data
        PROVE  \E b \in data' :
                  /\ b = [a EXCEPT !.order = b.order]
                  /\ \A c \in data, d \in data' :
                        /\ Less(c, a) /\ d.id = c.id
                        /\ (c.handler = a.handler \/ c.time # a.time \/ c.prio # a.prio)
                        => Less(d, b)
    <3>1. PICK b : b = Placed(link, data, a)
      OBVIOUS
    <3>2. /\ b \in data' /\ b \in Activities /\ b.time = a.time /\ b.prio = a.prio
          /\ b.order = Place(link, data, a) /\ b = [a EXCEPT !.order = b.order]
      BY <1>7, <1>11, <2>1, <3>1
    <3>3. ASSUME NEW c \in data, NEW d \in data', Less(c, a), d.id = c.id,
                 c.handler = a.handler \/ c.time # a.time \/ c.prio # a.prio
          PROVE  Less(d, b)
      <4>1. PICK e \in data : d = Placed(link, data, e)
        BY <1>12
      <4>2. d.id = e.id /\ d \in Activities /\ d.time = e.time /\ d.prio = e.prio /\ d.order = Place(link, data, e)
        BY <1>11, <4>1
      <4>3. e = c
        BY <1>4, <3>3, <4>2
      <4>4. c.handler = a.handler => d.order < b.order
        BY <1>10, <2>1, <3>2, <3>3, <4>2, <4>3 DEF Before
      <4>5. a \in Activities /\ c \in Activities
        BY <1>3, <2>1
      <4>. QED  BY <3>2, <3>3, <4>2, <4>3, <4>4, <4>5 DEF Less, Activities
    <3>. QED  BY <3>2, <3>3
  <2>2. \A a \in data : a.id \in 1 .. events
    BY <1>3
  <2>. QED  BY <1>8, <1>19, <2>1, <2>2 DEF SavedInv, RestartKeepsEvents
<1>. QED  BY <1>16, <1>17, <1>18, <1>20, <1>21, <1>22, <1>23 DEF VortexInd

-----------------------------------------------------------------------------
(* The binned map of one thread. *)

(* A step that leaves the units alone. *)
LEMMA UnitsStay ==
    ASSUME VortexInd, UNCHANGED <<units, current, binMap, pool>>, pc["me"] # "push"
    PROVE  UnitInv' /\ \A u : Used(u)' <=> Used(u)
<1>1. \A u : Used(u)' <=> Used(u)
  BY DEF Used
<1>. QED  BY <1>1 DEF VortexInd, UnitInv

LEMMA BinnedInsert ==
    ASSUME VortexInd, kind.binned, pc["me"] \in {"idle", "sync"},
           NEW b \in Activities, Later(b), b.time >= popped.time,
           insertOrder' = insertOrder + 1, depth' = depth + 1, act' = [act EXCEPT !["me"] = b],
           pc' = [pc EXCEPT !["me"] = "test"], events' \in {events, events + 1}, syncAt' \in Nat,
           UNCHANGED <<kind, bins, data, target, popped, saved, gone>>
    PROVE  /\ VortexType' /\ KindInv' /\ UnitInv' /\ OwnerInv' /\ DepthInv' /\ SavedInv'
           /\ Pending \in SUBSET Activities /\ Pending' = Pending \cup {b} /\ pc'["me"] # "sync"
<1>1. VortexType /\ KindInv /\ UnitInv /\ OwnerInv /\ PendingInv /\ DepthInv /\ SavedInv
  BY DEF VortexInd
<1>2. UNCHANGED <<units, current, binMap, pool>>
  BY DEF bins
<1>3. pc'["me"] = "test" /\ pc'["other"] = "idle" /\ act'["me"] = b
  BY <1>1 DEF KindInv, VortexType, Threads
<1>4. ~Inserting /\ ~Popping /\ Inserting' /\ ~Popping'
  BY <1>3 DEF Inserting, Popping
<1>5. VortexType'
  <2>1. gone' \in SUBSET (1 .. events') /\ events' \in Nat
    BY <1>1 DEF VortexType
  <2>2. pc' \in [Threads -> {"idle", "test", "find", "push", "unit", "next", "sync"}] /\ act' \in [Threads -> Activities]
    BY <1>1 DEF VortexType
  <2>. QED  BY <1>1, <1>2, <2>1, <2>2 DEF VortexType
<1>6. KindInv'
  BY <1>1, <1>3 DEF KindInv
<1>7. UnitInv'
  BY <1>2, UnitsStay
<1>8. OwnerInv'
  <2>1. units[current].time <= popped.time
    BY <1>1, <1>4 DEF OwnerInv
  <2>2. units[current].time \in Nat /\ popped.time \in Nat /\ b.time \in Nat
    BY <1>1, UnitTypes DEF VortexType, Units, Activities
  <2>3. b.time >= units[current].time
    BY <2>1, <2>2
  <2>. QED  BY <1>2, <1>3, <1>4, <2>1, <2>3 DEF OwnerInv
<1>9. Contents' = Contents /\ InFlight = {} /\ InFlight' = {b}
  BY <1>1, <1>2, <1>3, <1>4, <1>6, InFlightOf, InFlightOfNext DEF Contents
<1>10. Pending \in SUBSET Activities /\ Pending' = Pending \cup {b}
  BY <1>1, <1>9, PendingType DEF Pending
<1>11. DepthInv'
  <2>1. b \notin Contents
    BY <1>1, <1>10 DEF PendingInv, Later, Pending, VortexType
  <2>. QED  BY <1>1, <1>4, <1>9, <2>1 DEF DepthInv
<1>12. SavedInv'
  BY <1>1 DEF KindInv, SavedInv, RestartKeepsEvents
<1>. QED  BY <1>3, <1>5, <1>6, <1>7, <1>8, <1>10, <1>11, <1>12

LEMMA BinnedSend ==
    ASSUME VortexInd, KindsHandled, kind.binned,
           NEW t \in Threads, NEW h \in EventHandlers, NEW time \in 0 .. LastSync, Send(t, h, time)
    PROVE  VortexInd'
<1>0. PICK b : b = Entered(Activity(events + 1, time, Prio[h], h))
  OBVIOUS
<1>1. VortexType /\ KindInv /\ PendingInv /\ PoppedInv /\ t = "me" /\ pc["me"] = "idle"
  <2>1. t = "me"
    BY DEF Send, VortexInd, VortexType, KindsHandled, Threads
  <2>. QED  BY <2>1 DEF Send, VortexInd
<1>2. time \in Nat /\ MaySend(h, time) /\ time >= popped.time
  BY <1>1, VortexAssumption DEF Send, MaySend, VortexType, Activities
<1>3. b \in Activities /\ Later(b) /\ b.id = events + 1 /\ b.prio = Prio[h] /\ b.handler = h /\ b.handler # 0
      /\ b.time = time
  BY <1>0, <1>2, SentIsLater
<1>4. /\ insertOrder' = insertOrder + 1 /\ depth' = depth + 1 /\ events' = events + 1
      /\ act' = [act EXCEPT !["me"] = b] /\ pc' = [pc EXCEPT !["me"] = "test"]
      /\ UNCHANGED <<kind, bins, data, target, popped, syncAt, gone, saved>>
  BY <1>0, <1>1 DEF Send, Insert, Goto, Entered
<1>5. events' \in {events, events + 1} /\ syncAt' \in Nat /\ b.time >= popped.time /\ pc["me"] \in {"idle", "sync"}
      /\ UNCHANGED <<kind, bins, data, target, popped, saved, gone>>
  BY <1>1, <1>2, <1>3, <1>4 DEF VortexType
<1>6. /\ VortexType' /\ KindInv' /\ UnitInv' /\ OwnerInv' /\ DepthInv' /\ SavedInv'
      /\ Pending \in SUBSET Activities /\ Pending' = Pending \cup {b} /\ pc'["me"] # "sync"
  BY <1>3, <1>4, <1>5, BinnedInsert
<1>7. (pc'["me"] = "sync") <=> (pc["me"] = "sync")
  BY <1>1, <1>6
<1>8. PendingInv' /\ PoppedInv'
  <2>1. popped' = popped /\ gone' = gone /\ syncAt' = syncAt /\ b.prio = Prio[b.handler]
    BY <1>3, <1>4
  <2>. QED  BY <1>1, <1>3, <1>4, <1>6, <1>7, <2>1, EventComes
<1>. QED  BY <1>6, <1>8 DEF VortexInd

LEMMA BinnedLeaveSync ==
    ASSUME VortexInd, kind.binned, LeaveSync
    PROVE  VortexInd'
<1>0. PICK b : b = Entered(SyncManager(syncAt + Window))
  OBVIOUS
<1>1. VortexType /\ KindInv /\ PendingInv /\ PoppedInv /\ pc["me"] = "sync"
  BY DEF VortexInd, LeaveSync
<1>2. /\ b \in Activities /\ Later(b) /\ b.id = 0 /\ b.prio = SYNCPRIORITY /\ b.handler = 0
      /\ b.time = syncAt + Window /\ b.time > popped.time
  BY <1>0, <1>1, SyncIsLater
<1>3. /\ insertOrder' = insertOrder + 1 /\ depth' = depth + 1 /\ syncAt' = syncAt + Window
      /\ act' = [act EXCEPT !["me"] = b] /\ pc' = [pc EXCEPT !["me"] = "test"]
      /\ UNCHANGED <<kind, bins, data, target, popped, events, gone, saved>>
  BY <1>0 DEF LeaveSync, Insert, Entered, Goto, history
<1>4. events' \in {events, events + 1} /\ syncAt' \in Nat /\ b.time >= popped.time /\ pc["me"] \in {"idle", "sync"}
      /\ UNCHANGED <<kind, bins, data, target, popped, saved, gone>>
  <2>1. syncAt' \in Nat /\ b.time \in Nat /\ popped.time \in Nat
    BY <1>1, <1>2, <1>3, VortexAssumption DEF VortexType, Activities
  <2>. QED  BY <1>1, <1>2, <1>3, <2>1
<1>5. /\ VortexType' /\ KindInv' /\ UnitInv' /\ OwnerInv' /\ DepthInv' /\ SavedInv'
      /\ Pending \in SUBSET Activities /\ Pending' = Pending \cup {b} /\ pc'["me"] # "sync"
  BY <1>2, <1>3, <1>4, BinnedInsert
<1>6. PendingInv' /\ PoppedInv'
  <2>1. popped' = popped /\ gone' = gone /\ events' = events /\ b.time = syncAt'
    BY <1>2, <1>3
  <2>. QED  BY <1>1, <1>2, <1>3, <1>5, <2>1, SyncComes
<1>. QED  BY <1>5, <1>6 DEF VortexInd

LEMMA BinnedTest ==
    ASSUME VortexInd, kind.binned, TestCurrent("me")
    PROVE  VortexInd'
<1>1. /\ VortexType /\ KindInv /\ UnitInv /\ OwnerInv /\ PendingInv /\ PoppedInv /\ DepthInv /\ SavedInv
      /\ pc["me"] = "test"
  BY DEF VortexInd, TestCurrent
<1>2. PICK here \in BOOLEAN : here = (act["me"].time = units[current].time)
  OBVIOUS
<1>3. /\ pc' = [pc EXCEPT !["me"] = IF here THEN "push" ELSE "find"]
      /\ target' = [target EXCEPT !["me"] = IF here THEN current ELSE 0]
      /\ UNCHANGED <<kind, insertOrder, depth, data, units, current, binMap, pool, act, popped, syncAt,
                     events, gone, saved>>
  BY <1>2 DEF TestCurrent, Goto, bins, history
<1>4. /\ pc'["me"] = (IF here THEN "push" ELSE "find") /\ pc'["other"] = "idle"
      /\ target'["me"] = (IF here THEN current ELSE 0)
  BY <1>1, <1>3 DEF KindInv, VortexType, Threads
<1>5. Inserting /\ Inserting' /\ ~Popping /\ ~Popping'
  BY <1>1, <1>4 DEF Inserting, Popping
<1>6. VortexType'
  <2>1. pc' \in [Threads -> {"idle", "test", "find", "push", "unit", "next", "sync"}]
    BY <1>1, <1>3 DEF VortexType
  <2>2. target' \in [Threads -> Nat]
    <3>1. current \in Nat /\ target \in [Threads -> Nat]
      BY <1>1, UnitTypes DEF VortexType
    <3>2. (IF here THEN current ELSE 0) \in Nat
      BY <3>1
    <3>. QED  BY <1>3, <3>1, <3>2
  <2>. QED  BY <1>1, <1>3, <2>1, <2>2 DEF VortexType
<1>7. KindInv'
  BY <1>1, <1>3, <1>4 DEF KindInv
<1>8. UnitInv'
  BY <1>1, <1>3, UnitsStay
<1>9. OwnerInv'
  <2>1. Used(current) /\ current \in DOMAIN units /\ (Used(current))'
    BY <1>1, <1>3 DEF Used, VortexType
  <2>2. /\ units[current].time <= popped.time /\ act["me"].time >= units[current].time
        /\ UNCHANGED <<kind, units, act, popped>> /\ current' = current
    BY <1>1, <1>3, <1>5 DEF OwnerInv
  <2>3. CASE here
    BY <1>2, <1>4, <1>5, <2>1, <2>2, <2>3 DEF OwnerInv
  <2>4. CASE ~here
    BY <1>2, <1>4, <1>5, <2>2, <2>4 DEF OwnerInv
  <2>. QED  BY <2>3, <2>4
<1>10. Contents' = Contents /\ InFlight' = InFlight /\ Pending' = Pending
  <2>1. Contents' = Contents
    BY <1>3 DEF Contents
  <2>2. InFlight = {act["me"]} /\ InFlight' = {act'["me"]}
    BY <1>1, <1>5, <1>7, InFlightOf, InFlightOfNext
  <2>. QED  BY <1>3, <2>1, <2>2 DEF Pending
<1>11. PendingInv' /\ PoppedInv'
  BY <1>1, <1>3, <1>4, <1>10, AllStay
<1>12. DepthInv' /\ SavedInv'
  BY <1>1, <1>3, <1>5, <1>10 DEF DepthInv, KindInv, SavedInv, RestartKeepsEvents
<1>. QED  BY <1>6, <1>7, <1>8, <1>9, <1>11, <1>12 DEF VortexInd

LEMMA BinnedPop ==
    ASSUME VortexInd, kind.binned, Pop
    PROVE  VortexInd'
<1>1. /\ VortexType /\ KindInv /\ UnitInv /\ OwnerInv /\ PendingInv /\ PoppedInv /\ DepthInv /\ SavedInv
      /\ pc["me"] = "idle" /\ depth # 0
  BY DEF VortexInd, Pop
<1>3. /\ pc' = [pc EXCEPT !["me"] = "unit"] /\ depth' = depth - 1
      /\ UNCHANGED <<kind, insertOrder, data, units, current, binMap, pool, act, target, popped, syncAt,
                     events, gone, saved>>
  BY DEF Pop, Goto, bins
<1>4. pc'["me"] = "unit" /\ pc'["other"] = "idle"
  BY <1>1, <1>3 DEF KindInv, VortexType, Threads
<1>5. ~Inserting /\ ~Inserting' /\ ~Popping /\ Popping'
  BY <1>1, <1>4 DEF Inserting, Popping
<1>6. VortexType'
  <2>1. pc' \in [Threads -> {"idle", "test", "find", "push", "unit", "next", "sync"}]
    BY <1>1, <1>3 DEF VortexType
  <2>2. depth' \in Nat
    BY <1>1, <1>3 DEF VortexType
  <2>. QED  BY <1>1, <1>3, <2>1, <2>2 DEF VortexType
<1>7. KindInv'
  BY <1>1, <1>3, <1>4 DEF KindInv
<1>8. UnitInv'
  BY <1>1, <1>3, UnitsStay
<1>9. OwnerInv'
  BY <1>4, <1>5 DEF OwnerInv
<1>10. Contents' = Contents /\ InFlight' = InFlight /\ Pending' = Pending
  BY <1>1, <1>3, <1>5, <1>7, InFlightOf, InFlightOfNext DEF Contents, Pending
<1>11. PendingInv' /\ PoppedInv'
  BY <1>1, <1>3, <1>4, <1>10, AllStay
<1>12. DepthInv' /\ SavedInv'
  BY <1>1, <1>3, <1>5, <1>10 DEF DepthInv, KindInv, SavedInv, RestartKeepsEvents
<1>. QED  BY <1>6, <1>7, <1>8, <1>9, <1>11, <1>12 DEF VortexInd

(* Lists. *)
LEMMA Appended ==
    ASSUME NEW S, NEW s \in Seq(S), NEW x \in S
    PROVE  /\ Append(s, x) \in Seq(S) /\ Len(s) + 1 \notin DOMAIN s /\ Len(s) + 1 \in Nat
           /\ DOMAIN Append(s, x) = DOMAIN s \cup {Len(s) + 1} /\ Append(s, x)[Len(s) + 1] = x
           /\ \A i \in DOMAIN s : Append(s, x)[i] = s[i]
<1>1. DOMAIN s = 1 .. Len(s) /\ Len(s) \in Nat /\ DOMAIN Append(s, x) = 1 .. Len(s) + 1
  OBVIOUS
<1>2. 1 .. Len(s) + 1 = (1 .. Len(s)) \cup {Len(s) + 1} /\ Len(s) + 1 \notin 1 .. Len(s)
  BY <1>1
<1>. QED  BY <1>1, <1>2

LEMMA Changed ==
    ASSUME NEW S, NEW s \in Seq(S), NEW i \in DOMAIN s, NEW x \in S
    PROVE  /\ [s EXCEPT ![i] = x] \in Seq(S) /\ DOMAIN [s EXCEPT ![i] = x] = DOMAIN s
           /\ Len([s EXCEPT ![i] = x]) = Len(s) /\ [s EXCEPT ![i] = x][i] = x
           /\ \A j \in DOMAIN s : j # i => [s EXCEPT ![i] = x][j] = s[j]
  OBVIOUS

LEMMA Shortened ==
    ASSUME NEW S, NEW s \in Seq(S), s # <<>>
    PROVE  /\ Front(s) \in Seq(S) /\ Last(s) = s[Len(s)] /\ Len(s) \in DOMAIN s /\ Last(s) \in S
           /\ \A i : i \in DOMAIN Front(s) <=> i \in DOMAIN s /\ i # Len(s)
           /\ \A i \in DOMAIN Front(s) : Front(s)[i] = s[i] /\ i < Len(s)
           /\ \A i \in DOMAIN s : i < Len(s) \/ i = Len(s)
<1>1. Len(s) \in Nat \ {0} /\ DOMAIN s = 1 .. Len(s)
  OBVIOUS
<1>2. Front(s) = SubSeq(s, 1, Len(s) - 1)
  BY DEF Front
<1>3. Front(s) \in Seq(S) /\ DOMAIN Front(s) = 1 .. Len(s) - 1 /\ \A i \in DOMAIN Front(s) : Front(s)[i] = s[i]
  BY <1>1, <1>2
<1>. QED  BY <1>1, <1>3 DEF Last

LEMMA ListDomain ==
    ASSUME NEW S, NEW s \in Seq(S)
    PROVE  DOMAIN s = 1 .. Len(s) /\ DOMAIN s \subseteq Nat /\ Len(s) \in Nat /\ DOMAIN <<>> = {} /\ <<>> \in Seq(S)
  OBVIOUS

(* A unit for another time is one that nothing uses, new or from the pool, and empty. *)
Taking(w, time) ==
    /\ w = IF pool = <<>> THEN Len(units) + 1 ELSE Last(pool)
    /\ units' = IF pool = <<>> THEN Append(units, Unit(time, <<>>)) ELSE [units EXCEPT ![w].time = time]
    /\ pool' = IF pool = <<>> THEN pool ELSE Front(pool)

LEMMA UnitTaken ==
    ASSUME VortexType, UnitInv, NEW time \in Nat, NEW w, Taking(w, time)
    PROVE  /\ units' \in Seq(Units) /\ pool' \in Seq(Nat) /\ ~Used(w)
           /\ DOMAIN units' = DOMAIN units \cup {w} /\ units'[w].acts = <<>> /\ units'[w].time = time
           /\ \A u \in DOMAIN units : u # w => units'[u] = units[u]
           /\ w \in DOMAIN units => units[w].acts = <<>>
           /\ \A i \in DOMAIN pool' : i \in DOMAIN pool /\ pool'[i] = pool[i] /\ pool[i] # w
<1>1. /\ units \in Seq(Units) /\ pool \in Seq(Nat) /\ DOMAIN units = 1 .. Len(units) /\ Len(units) \in Nat
      /\ \A u : Used(u) => u \in DOMAIN units
  BY DEF VortexType, Used
<1>2. CASE pool = <<>>
  <2>. DEFINE x == Unit(time, <<>>)
  <2>1. x \in Units /\ x.acts = <<>> /\ x.time = time
    BY DEF Unit, Units
  <2>2. w = Len(units) + 1 /\ units' = Append(units, x) /\ pool' = <<>>
    BY <1>2 DEF Taking
  <2>. HIDE DEF x
  <2>3. /\ units' \in Seq(Units) /\ DOMAIN units' = DOMAIN units \cup {w} /\ units'[w] = x
        /\ \A u \in DOMAIN units : units'[u] = units[u]
    BY <1>1, <2>1, <2>2, Appended
  <2>4. w \notin DOMAIN units /\ ~Used(w)
    BY <1>1, <2>1, <2>2, Appended
  <2>5. DOMAIN pool' = {} /\ pool' \in Seq(Nat)
    BY <1>1, <2>2, ListDomain
  <2>. QED  BY <2>1, <2>3, <2>4, <2>5
<1>3. CASE pool # <<>>
  <2>1. w = pool[Len(pool)] /\ Len(pool) \in DOMAIN pool /\ Len(pool) \in Nat \ {0} /\ DOMAIN pool = 1 .. Len(pool)
    BY <1>1, <1>3 DEF Last, Taking
  <2>2. w \in DOMAIN units /\ units[w].acts = <<>> /\ ~Used(w)
    BY <2>1 DEF UnitInv
  <2>3. units' = [units EXCEPT ![w].time = time]
    BY <1>3 DEF Taking
  <2>4. units[w] \in Units
    BY <1>1, <2>2
  <2>5. PICK x : x = [units[w] EXCEPT !.time = time]
    OBVIOUS
  <2>6. x \in Units /\ x.acts = <<>> /\ x.time = time
    BY <2>2, <2>4, <2>5 DEF Units
  <2>7. units' = [units EXCEPT ![w] = x]
    BY <2>3, <2>5
  <2>8. /\ units' \in Seq(Units) /\ DOMAIN units' = DOMAIN units /\ units'[w] = x
        /\ \A u \in DOMAIN units : u # w => units'[u] = units[u]
    BY <1>1, <2>2, <2>6, <2>7, Changed
  <2>9. pool' = Front(pool)
    BY <1>3 DEF Taking
  <2>10. pool' \in Seq(Nat)
    BY <1>1, <1>3, <2>9, Shortened
  <2>11. \A i \in DOMAIN pool' : i \in DOMAIN pool /\ pool'[i] = pool[i] /\ i # Len(pool)
    BY <1>1, <1>3, <2>9, Shortened
  <2>12. \A i \in DOMAIN pool' : pool[i] # w
    BY <2>1, <2>11 DEF UnitInv
  <2>. QED  BY <2>2, <2>6, <2>8, <2>10, <2>11, <2>12
<1>. QED  BY <1>2, <1>3

LEMMA BinnedFind ==
    ASSUME VortexInd, kind.binned, Find("me")
    PROVE  VortexInd'
<1>1. /\ VortexType /\ KindInv /\ UnitInv /\ OwnerInv /\ PendingInv /\ PoppedInv /\ DepthInv /\ SavedInv
      /\ pc["me"] = "find"
  BY DEF VortexInd, Find
<1>2. PICK time : time = act["me"].time
  OBVIOUS
<1>3. /\ pc' = [pc EXCEPT !["me"] = "push"]
      /\ UNCHANGED <<kind, insertOrder, depth, data, current, act, popped, syncAt, events, gone, saved>>
  BY DEF Find, Goto, history
<1>4. pc'["me"] = "push" /\ pc'["other"] = "idle"
  BY <1>1, <1>3 DEF KindInv, VortexType, Threads
<1>5. Inserting /\ Inserting' /\ ~Popping /\ ~Popping'
  BY <1>1, <1>4 DEF Inserting, Popping
<1>6. /\ time \in Nat /\ current \in Nat /\ current \in DOMAIN units
      /\ units[current].time \in Nat /\ time > units[current].time
  <2>1. time \in Nat /\ current \in DOMAIN units
    BY <1>1, <1>2 DEF VortexType, Activities, Threads
  <2>2. current \in Nat /\ units[current].time \in Nat
    BY <1>1, <2>1, UnitTypes DEF Units
  <2>3. time >= units[current].time /\ time # units[current].time
    BY <1>1, <1>2, <1>5 DEF OwnerInv
  <2>. QED  BY <2>1, <2>2, <2>3
<1>7. ASSUME NEW w \in Nat, target' = [target EXCEPT !["me"] = w], units' \in Seq(Units), pool' \in Seq(Nat),
             DOMAIN binMap' \subseteq Nat, \A t \in DOMAIN binMap' : binMap'[t] \in DOMAIN units',
             current \in DOMAIN units', UnitInv', Contents' = Contents, w \in DOMAIN units', Used(w)',
             units'[w].time = time, units'[current].time = units[current].time
      PROVE  VortexInd'
  <2>1. VortexType'
    <3>1. pc' \in [Threads -> {"idle", "test", "find", "push", "unit", "next", "sync"}]
      BY <1>1, <1>3 DEF VortexType
    <3>2. target' \in [Threads -> Nat]
      BY <1>1, <1>7 DEF VortexType
    <3>. QED  BY <1>1, <1>3, <1>7, <3>1, <3>2 DEF VortexType
  <2>2. KindInv'
    BY <1>1, <1>3, <1>4 DEF KindInv
  <2>3. OwnerInv'
    <3>1. target'["me"] = w
      BY <1>1, <1>7 DEF VortexType, Threads
    <3>2. units'[current'].time <= popped'.time /\ act'["me"].time >= units'[current'].time
      BY <1>1, <1>3, <1>5, <1>7 DEF OwnerInv
    <3>3. act'["me"].time = time
      BY <1>2, <1>3
    <3>. QED  BY <1>4, <1>5, <1>7, <3>1, <3>2, <3>3 DEF OwnerInv
  <2>4. InFlight = {act["me"]} /\ InFlight' = {act'["me"]}
    BY <1>1, <1>5, <2>2, InFlightOf, InFlightOfNext
  <2>5. Pending' = Pending /\ InFlight' = InFlight
    BY <1>3, <1>7, <2>4 DEF Pending
  <2>6. PendingInv' /\ PoppedInv'
    BY <1>1, <1>3, <1>4, <2>5, AllStay
  <2>7. DepthInv' /\ SavedInv'
    BY <1>1, <1>3, <1>5, <1>7, <2>5 DEF DepthInv, KindInv, SavedInv, RestartKeepsEvents
  <2>. QED  BY <1>7, <2>1, <2>2, <2>3, <2>6, <2>7 DEF VortexInd
<1>8. CASE time \in DOMAIN binMap
  <2>1. PICK w : w = binMap[time]
    OBVIOUS
  <2>2. target' = [target EXCEPT !["me"] = w] /\ UNCHANGED <<units, binMap, pool>>
    BY <1>2, <1>8, <2>1 DEF Find
  <2>3. w \in DOMAIN units /\ w \in Nat /\ units[w].time = time /\ Used(w)
    BY <1>1, <1>8, <2>1, UnitTypes DEF VortexType, UnitInv, Used
  <2>4. UnitInv' /\ (Used(w))'
    BY <1>1, <1>3, <2>2, <2>3, UnitsStay
  <2>5. Contents' = Contents
    BY <1>3, <2>2 DEF Contents
  <2>6. /\ units' \in Seq(Units) /\ pool' \in Seq(Nat) /\ current \in DOMAIN units' /\ w \in DOMAIN units'
        /\ DOMAIN binMap' \subseteq Nat /\ \A t \in DOMAIN binMap' : binMap'[t] \in DOMAIN units'
        /\ units'[w].time = time /\ units'[current].time = units[current].time
    BY <1>1, <1>6, <2>2, <2>3 DEF VortexType
  <2>. QED  BY <1>7, <2>2, <2>3, <2>4, <2>5, <2>6
<1>9. CASE time \notin DOMAIN binMap
  <2>1. PICK w : w = IF pool = <<>> THEN Len(units) + 1 ELSE Last(pool)
    OBVIOUS
  <2>2. /\ target' = [target EXCEPT !["me"] = w] /\ Taking(w, time)
        /\ binMap' = [s \in DOMAIN binMap \cup {time} |-> IF s = time THEN w ELSE binMap[s]]
    BY <1>2, <1>9, <2>1 DEF Find, Taking
  <2>3. /\ units' \in Seq(Units) /\ pool' \in Seq(Nat) /\ ~Used(w)
        /\ DOMAIN units' = DOMAIN units \cup {w} /\ units'[w].acts = <<>> /\ units'[w].time = time
        /\ \A u \in DOMAIN units : u # w => units'[u] = units[u]
        /\ w \in DOMAIN units => units[w].acts = <<>>
        /\ \A i \in DOMAIN pool' : i \in DOMAIN pool /\ pool'[i] = pool[i] /\ pool[i] # w
    BY <1>1, <1>6, <2>2, UnitTaken
  <2>4. /\ DOMAIN binMap' = DOMAIN binMap \cup {time} /\ binMap'[time] = w
        /\ \A t \in DOMAIN binMap : t # time => binMap'[t] = binMap[t]
    BY <2>2
  <2>5. \A u : Used(u)' <=> Used(u) \/ u = w
    BY <1>3, <1>9, <2>4 DEF Used
  <2>6. \A u : Used(u) => u \in DOMAIN units /\ u # w /\ units'[u] = units[u]
    BY <1>1, <2>3 DEF Used, VortexType
  <2>7. Used(current) /\ \A t \in DOMAIN binMap : Used(binMap[t])
    BY DEF Used
  <2>8. UnitInv'
    <3>1. \A t \in DOMAIN binMap' :
             /\ binMap'[t] # current' /\ units'[binMap'[t]].time = t /\ t > units'[current'].time
             /\ units'[binMap'[t]].acts # <<>> \/ (pc'["me"] = "push" /\ target'["me"] = binMap'[t])
      <4>. TAKE t \in DOMAIN binMap'
      <4>1. CASE t = time
        <5>1. target'["me"] = w
          BY <1>1, <2>2 DEF VortexType, Threads
        <5>. QED  BY <1>3, <1>4, <1>6, <2>3, <2>4, <2>6, <2>7, <4>1, <5>1
      <4>2. CASE t # time
        <5>1. t \in DOMAIN binMap /\ binMap'[t] = binMap[t] /\ units'[binMap[t]] = units[binMap[t]]
              /\ units'[current] = units[current]
          BY <2>4, <2>6, <2>7, <4>2
        <5>2. /\ binMap[t] # current /\ units[binMap[t]].time = t /\ t > units[current].time
              /\ units[binMap[t]].acts # <<>>
          BY <1>1, <5>1 DEF UnitInv
        <5>. QED  BY <1>3, <5>1, <5>2
      <4>. QED  BY <4>1, <4>2
    <3>2. \A i \in DOMAIN pool' :
             /\ pool'[i] \in DOMAIN units' /\ units'[pool'[i]].acts = <<>> /\ ~Used(pool[i])'
             /\ \A j \in DOMAIN pool' : pool'[i] = pool'[j] => i = j
      <4>. TAKE i \in DOMAIN pool'
      <4>1. i \in DOMAIN pool /\ pool'[i] = pool[i] /\ pool[i] # w
        BY <2>3
      <4>2. /\ pool[i] \in DOMAIN units /\ units[pool[i]].acts = <<>> /\ ~Used(pool[i])
            /\ \A j \in DOMAIN pool : pool[i] = pool[j] => i = j
        BY <1>1, <4>1 DEF UnitInv
      <4>. QED  BY <2>3, <2>5, <4>1, <4>2
    <3>3. \A u \in DOMAIN units' : Used(u)' => \A i \in DOMAIN units'[u].acts :
             units'[u].acts[i].time = units'[u].time
      <4>1. \A u : u # w /\ Used(u)' => Used(u) /\ u \in DOMAIN units /\ units'[u] = units[u]
        BY <2>5, <2>6
      <4>2. \A u \in DOMAIN units : Used(u) => \A i \in DOMAIN units[u].acts :
               units[u].acts[i].time = units[u].time
        BY <1>1 DEF UnitInv
      <4>3. DOMAIN units'[w].acts = {}
        BY <2>3
      <4>. QED  BY <4>1, <4>2, <4>3
    <3>4. \A u \in DOMAIN units' : \A i, j \in DOMAIN units'[u].acts :
             /\ units'[u].acts[i] = units'[u].acts[j] => i = j
             /\ units'[u].sorted /\ i < j => Less(units'[u].acts[j], units'[u].acts[i])
      <4>1. \A u \in DOMAIN units' : u # w => u \in DOMAIN units /\ units'[u] = units[u]
        BY <2>3
      <4>2. \A u \in DOMAIN units : \A i, j \in DOMAIN units[u].acts :
               /\ units[u].acts[i] = units[u].acts[j] => i = j
               /\ units[u].sorted /\ i < j => Less(units[u].acts[j], units[u].acts[i])
        BY <1>1 DEF UnitInv
      <4>3. DOMAIN units'[w].acts = {}
        BY <2>3
      <4>. QED  BY <4>1, <4>2, <4>3
    <3>. QED  BY <3>1, <3>2, <3>3, <3>4 DEF UnitInv
  <2>9. Contents' = Contents
    <3>1. Contents' = data' \cup UNION {Range(units'[u].acts) : u \in {current'} \cup {binMap'[t] : t \in DOMAIN binMap'}}
      BY DEF Contents
    <3>2. \A x : x \in Contents' <=> x \in data' \/ \E u : Used(u)' /\ x \in Range(units'[u].acts)
      BY <3>1 DEF Used
    <3>3. \A x : x \in Contents <=> x \in data \/ \E u : Used(u) /\ x \in Range(units[u].acts)
      BY DEF Contents, Used
    <3>4. Range(units'[w].acts) = {}
      <4>1. DOMAIN units'[w].acts = {}
        BY <2>3
      <4>. QED  BY <4>1 DEF Range
    <3>. QED  BY <1>3, <2>5, <2>6, <3>2, <3>3, <3>4
  <2>10. /\ current \in DOMAIN units' /\ w \in DOMAIN units' /\ Used(w)' /\ w \in Nat
         /\ DOMAIN binMap' \subseteq Nat /\ \A t \in DOMAIN binMap' : binMap'[t] \in DOMAIN units'
         /\ units'[w].time = time /\ units'[current].time = units[current].time
    <3>1. w \in Nat
      <4>1. DOMAIN units' \subseteq Nat
        BY <2>3, ListDomain
      <4>. QED  BY <2>3, <4>1
    <3>2. DOMAIN binMap' \subseteq Nat
      BY <1>1, <1>6, <2>4 DEF VortexType
    <3>3. \A t \in DOMAIN binMap' : binMap'[t] \in DOMAIN units'
      BY <1>1, <2>3, <2>4 DEF VortexType
    <3>. QED  BY <1>6, <2>3, <2>5, <2>6, <2>7, <3>1, <3>2, <3>3
  <2>. QED  BY <1>7, <2>2, <2>3, <2>8, <2>9, <2>10
<1>. QED  BY <1>8, <1>9

(* What is in a unit: the activities of others have another time. *)
LEMMA UnitsOverlapNot ==
    ASSUME VortexType, UnitInv, NEW u, NEW v, Used(u), Used(v), u # v
    PROVE  units[u].time # units[v].time
<1>1. \A t \in DOMAIN binMap : binMap[t] # current /\ units[binMap[t]].time = t /\ t > units[current].time
  BY DEF UnitInv
<1>2. \A t \in DOMAIN binMap : t \in Nat
  BY DEF VortexType
<1>3. units[current].time \in Nat
  BY UnitTypes DEF VortexType, Units
<1>. QED  BY <1>1, <1>2, <1>3 DEF Used

LEMMA UnitFields ==
    ASSUME NEW u \in Units, NEW acts, NEW b
    PROVE  [[u EXCEPT !.acts = acts] EXCEPT !.sorted = b] = [time |-> u.time, acts |-> acts, sorted |-> b]
<1>1. PICK v : v = [u EXCEPT !.acts = acts]
  OBVIOUS
<1>2. v = [time |-> u.time, acts |-> acts, sorted |-> u.sorted]
  BY <1>1 DEF Units
<1>3. [v EXCEPT !.sorted = b] = [time |-> u.time, acts |-> acts, sorted |-> b]
  BY <1>2
<1>. QED  BY <1>1, <1>3

LEMMA BinnedUnitInsert ==
    ASSUME VortexInd, kind.binned, UnitInsert("me")
    PROVE  VortexInd'
<1>1. /\ VortexType /\ KindInv /\ UnitInv /\ OwnerInv /\ PendingInv /\ PoppedInv /\ DepthInv /\ SavedInv
      /\ pc["me"] = "push"
  BY DEF VortexInd, UnitInsert
<1>2. PICK w, b : w = target["me"] /\ b = act["me"]
  OBVIOUS
<1>3. /\ pc' = [pc EXCEPT !["me"] = "idle"]
      /\ act' = [act EXCEPT !["me"] = NoActivity] /\ target' = [target EXCEPT !["me"] = 0]
      /\ UNCHANGED <<kind, insertOrder, depth, data, current, binMap, pool, popped, syncAt, events, gone, saved>>
  BY DEF UnitInsert, Goto, history
<1>4. pc'["me"] = "idle" /\ pc'["other"] = "idle"
  BY <1>1, <1>3 DEF KindInv, VortexType, Threads
<1>5. Inserting /\ ~Inserting' /\ ~Popping /\ ~Popping'
  BY <1>1, <1>4 DEF Inserting, Popping
<1>6. w \in DOMAIN units /\ Used(w) /\ units[w].time = b.time /\ b \in Activities /\ w \in Nat
  BY <1>1, <1>2, UnitTypes DEF OwnerInv, VortexType, Threads
<1>7. units[w] \in Units /\ units[w].acts \in Seq(Activities)
  BY <1>1, <1>6, UnitTypes
<1>8. PICK l : l = units[w].acts
  OBVIOUS
<1>9. PICK m : m = Append(l, b)
  OBVIOUS
<1>10. /\ m \in Seq(Activities) /\ DOMAIN m = DOMAIN l \cup {Len(l) + 1} /\ m[Len(l) + 1] = b
       /\ Len(l) + 1 \notin DOMAIN l /\ \A i \in DOMAIN l : m[i] = l[i]
  BY <1>6, <1>7, <1>8, <1>9, Appended
<1>11. PICK x : x = [time |-> units[w].time, acts |-> m, sorted |-> FALSE]
  OBVIOUS
<1>12. x \in Units /\ x.acts = m /\ x.time = units[w].time /\ x.sorted = FALSE
  BY <1>7, <1>10, <1>11 DEF Units
<1>13. units' = [units EXCEPT ![w] = x]
  <2>1. units' = [units EXCEPT ![w].acts = Append(@, b), ![w].sorted = FALSE]
    BY <1>2 DEF UnitInsert
  <2>2. units' = [units EXCEPT ![w] = [[units[w] EXCEPT !.acts = m] EXCEPT !.sorted = FALSE]]
    BY <1>6, <1>8, <1>9, <2>1
  <2>3. [[units[w] EXCEPT !.acts = m] EXCEPT !.sorted = FALSE] = x
    BY <1>7, <1>11, UnitFields
  <2>. QED  BY <2>2, <2>3
<1>14. /\ units' \in Seq(Units) /\ DOMAIN units' = DOMAIN units /\ units'[w] = x
       /\ \A u \in DOMAIN units : u # w => units'[u] = units[u]
  BY <1>1, <1>6, <1>12, <1>13, Changed DEF VortexType
<1>15. \A u : Used(u)' <=> Used(u)
  BY <1>3 DEF Used
<1>16. \A u : Used(u) => u \in DOMAIN units
  BY <1>1 DEF Used, VortexType
<1>17. VortexType'
  <2>1. pc' \in [Threads -> {"idle", "test", "find", "push", "unit", "next", "sync"}]
    BY <1>1, <1>3 DEF VortexType
  <2>2. target' \in [Threads -> Nat]
    BY <1>1, <1>3 DEF VortexType
  <2>3. act' \in [Threads -> Activities]
    <3>1. NoActivity \in Activities
      BY DEF NoActivity, Activity, Activities
    <3>. QED  BY <1>1, <1>3, <3>1 DEF VortexType
  <2>4. current' \in DOMAIN units' /\ \A t \in DOMAIN binMap' : binMap'[t] \in DOMAIN units'
    BY <1>1, <1>3, <1>14 DEF VortexType
  <2>. QED  BY <1>1, <1>3, <1>14, <2>1, <2>2, <2>3, <2>4 DEF VortexType
<1>18. KindInv'
  BY <1>1, <1>3, <1>4 DEF KindInv
<1>19. Contents' = Contents \cup {b} /\ b \notin Contents
  <2>1. \A y : Held(y)' <=> Held(y) \/ y = b
    <3>1. \A y : Held(y)' => Held(y) \/ y = b
      <4>. SUFFICES ASSUME NEW y, Held(y)' PROVE Held(y) \/ y = b
        OBVIOUS
      <4>3. PICK u \in DOMAIN units' : Used(u)' /\ \E i \in DOMAIN units'[u].acts : units'[u].acts[i] = y
        BY DEF Held
      <4>4. PICK i \in DOMAIN units'[u].acts : units'[u].acts[i] = y
        BY <4>3
      <4>5. u \in DOMAIN units /\ Used(u)
        BY <1>14, <1>15, <4>3
      <4>1. CASE u = w
        BY <1>8, <1>10, <1>12, <1>14, <4>1, <4>4, <4>5 DEF Held
      <4>2. CASE u # w
        BY <1>14, <4>2, <4>4, <4>5 DEF Held
      <4>. QED  BY <4>1, <4>2
    <3>2. \A y : Held(y) => Held(y)'
      <4>. SUFFICES ASSUME NEW y, NEW u \in DOMAIN units, Used(u), NEW i \in DOMAIN units[u].acts, units[u].acts[i] = y
                    PROVE  \E v \in DOMAIN units' : Used(v)' /\ \E j \in DOMAIN units'[v].acts : units'[v].acts[j] = y
        BY DEF Held
      <4>1. i \in DOMAIN units'[u].acts /\ units'[u].acts[i] = y
        BY <1>8, <1>10, <1>12, <1>14
      <4>. QED  BY <1>14, <1>15, <4>1
    <3>3. Held(b)'
      <4>1. Len(l) + 1 \in DOMAIN units'[w].acts /\ units'[w].acts[Len(l) + 1] = b
        BY <1>10, <1>12, <1>14
      <4>2. w \in DOMAIN units' /\ Used(w)'
        BY <1>6, <1>14, <1>15
      <4>. QED  BY <4>1, <4>2 DEF Held
    <3>. QED  BY <3>1, <3>2, <3>3
  <2>2. \A y : y \in Contents <=> y \in data \/ Held(y)
    BY <1>1, ContentsOf
  <2>3. \A y : y \in Contents' <=> y \in data' \/ Held(y)'
    BY <1>17, ContentsOfNext
  <2>4. b \notin Contents
    BY <1>1, <1>2, <1>5, InFlightOf DEF DepthInv
  <2>. QED  BY <1>3, <2>1, <2>2, <2>3, <2>4
<1>20. UnitInv'
  <2>1. \A t \in DOMAIN binMap' :
           /\ binMap'[t] # current' /\ units'[binMap'[t]].time = t /\ t > units'[current'].time
           /\ units'[binMap'[t]].acts # <<>> \/ (pc'["me"] = "push" /\ target'["me"] = binMap'[t])
    <3>. TAKE t \in DOMAIN binMap'
    <3>1. t \in DOMAIN binMap /\ binMap[t] # current /\ units[binMap[t]].time = t /\ t > units[current].time
          /\ (units[binMap[t]].acts # <<>> \/ binMap[t] = w)
      BY <1>1, <1>2, <1>3 DEF UnitInv
    <3>2. binMap[t] \in DOMAIN units /\ current \in DOMAIN units
      BY <1>1, <3>1 DEF VortexType
    <3>3. \A u \in DOMAIN units : units'[u].time = units[u].time
      BY <1>12, <1>14
    <3>4. m # <<>>
      BY <1>7, <1>8, <1>10, ListDomain
    <3>5. units'[binMap[t]].acts # <<>>
      BY <1>12, <1>14, <3>1, <3>2, <3>4
    <3>. QED  BY <1>3, <3>1, <3>2, <3>3, <3>5
  <2>2. \A i \in DOMAIN pool' :
           /\ pool'[i] \in DOMAIN units' /\ units'[pool'[i]].acts = <<>> /\ ~Used(pool[i])'
           /\ \A j \in DOMAIN pool' : pool'[i] = pool'[j] => i = j
    <3>. TAKE i \in DOMAIN pool'
    <3>1. /\ i \in DOMAIN pool /\ pool[i] \in DOMAIN units /\ units[pool[i]].acts = <<>> /\ ~Used(pool[i])
          /\ \A j \in DOMAIN pool : pool[i] = pool[j] => i = j
      BY <1>1, <1>3 DEF UnitInv
    <3>2. pool[i] # w
      BY <1>6, <3>1
    <3>. QED  BY <1>3, <1>14, <1>15, <3>1, <3>2
  <2>3. \A u \in DOMAIN units' : Used(u)' => \A i \in DOMAIN units'[u].acts :
           units'[u].acts[i].time = units'[u].time
    <3>. TAKE u \in DOMAIN units'
    <3>1. Used(u) => \A i \in DOMAIN units[u].acts : units[u].acts[i].time = units[u].time
      BY <1>1, <1>14 DEF UnitInv
    <3>2. CASE u # w
      BY <1>14, <1>15, <3>1, <3>2
    <3>3. CASE u = w
      BY <1>6, <1>8, <1>10, <1>12, <1>14, <3>1, <3>3
    <3>. QED  BY <3>2, <3>3
  <2>4. \A u \in DOMAIN units' : \A i, j \in DOMAIN units'[u].acts :
           /\ units'[u].acts[i] = units'[u].acts[j] => i = j
           /\ units'[u].sorted /\ i < j => Less(units'[u].acts[j], units'[u].acts[i])
    <3>. TAKE u \in DOMAIN units'
    <3>1. \A i, j \in DOMAIN units[u].acts :
             /\ units[u].acts[i] = units[u].acts[j] => i = j
             /\ units[u].sorted /\ i < j => Less(units[u].acts[j], units[u].acts[i])
      BY <1>1, <1>14 DEF UnitInv
    <3>2. CASE u # w
      BY <1>14, <3>1, <3>2
    <3>3. CASE u = w
      <4>1. \A i \in DOMAIN l : l[i] # b
        <5>1. \A i \in DOMAIN l : l[i] \in Contents
          BY <1>1, <1>6, <1>8, ContentsOf DEF Held
        <5>. QED  BY <1>19, <5>1
      <4>2. \A i, j \in DOMAIN m : m[i] = m[j] => i = j
        BY <1>8, <1>10, <3>1, <3>3, <4>1
      <4>. QED  BY <1>12, <1>14, <3>3, <4>2
    <3>. QED  BY <3>2, <3>3
  <2>. QED  BY <2>1, <2>2, <2>3, <2>4 DEF UnitInv
<1>21. OwnerInv'
  <2>1. units[current].time <= popped.time
    BY <1>1, <1>5 DEF OwnerInv
  <2>2. units'[current].time = units[current].time
    BY <1>1, <1>12, <1>14 DEF VortexType
  <2>. QED  BY <1>3, <1>4, <1>5, <2>1, <2>2 DEF OwnerInv
<1>22. InFlight = {b} /\ InFlight' = {} /\ Pending' = Pending
  <2>1. InFlight = {b} /\ InFlight' = {}
    BY <1>1, <1>2, <1>5, <1>18, InFlightOf, InFlightOfNext
  <2>. QED  BY <1>19, <2>1 DEF Pending
<1>23. PendingInv' /\ PoppedInv'
  BY <1>1, <1>3, <1>4, <1>22, AllStay
<1>24. DepthInv' /\ SavedInv'
  <2>1. Cardinality(Contents \cup {b}) = Cardinality(Contents) + 1 /\ IsFiniteSet(Contents \cup {b})
    BY <1>1, <1>19, FS_AddElement DEF DepthInv
  <2>2. DepthInv'
    BY <1>1, <1>3, <1>5, <1>19, <1>22, <2>1 DEF DepthInv
  <2>. QED  BY <1>1, <1>3, <2>2 DEF KindInv, SavedInv, RestartKeepsEvents
<1>. QED  BY <1>17, <1>18, <1>20, <1>21, <1>23, <1>24 DEF VortexInd

(* A sorted unit. *)
InOrder(l) == \A i, j \in DOMAIN l : /\ l[i] = l[j] => i = j
                                     /\ i < j => Less(l[j], l[i])
Among(l, k) == \A i \in DOMAIN l : \E j \in DOMAIN k : l[i] = k[j]

SortedFrom(x, u) ==
    /\ x \in Units /\ x.time = u.time /\ x.sorted = TRUE
    /\ x.acts \in Seq(Activities) /\ Len(x.acts) = Len(u.acts)
    /\ Among(x.acts, u.acts) /\ Among(u.acts, x.acts) /\ InOrder(x.acts)

LEMMA SortedOf ==
    ASSUME VortexInd, NEW w, Used(w), NEW x, x = Sorted(units[w])
    PROVE  w \in DOMAIN units /\ SortedFrom(x, units[w])
<1>1. VortexType /\ UnitInv /\ PendingInv
  BY DEF VortexInd
<1>2. w \in DOMAIN units
  BY <1>1 DEF Used, VortexType
<1>3. PICK v : v = units[w]
  OBVIOUS
<1>4. v \in Units /\ v.acts \in Seq(Activities) /\ v.time \in Nat
  BY <1>1, <1>2, <1>3, UnitTypes DEF Units
<1>5. \A i, j \in DOMAIN v.acts : /\ v.acts[i] = v.acts[j] => i = j
                                  /\ v.sorted /\ i < j => Less(v.acts[j], v.acts[i])
  BY <1>1, <1>2, <1>3 DEF UnitInv
<1>6. CASE v.sorted
  <2>1. x = v /\ v.sorted = TRUE
    BY <1>3, <1>4, <1>6 DEF Sorted, Units
  <2>2. Among(v.acts, v.acts) /\ InOrder(v.acts)
    BY <1>5, <1>6 DEF Among, InOrder
  <2>. QED  BY <1>2, <1>3, <1>4, <2>1, <2>2 DEF SortedFrom
<1>7. CASE ~v.sorted
  <2>1. PICK l : l = v.acts
    OBVIOUS
  <2>2. PICK e : e = EarliestLast(l)
    OBVIOUS
  <2>3. x = [time |-> v.time, acts |-> e, sorted |-> TRUE]
    <3>1. x = [v EXCEPT !.acts = EarliestLast(@), !.sorted = TRUE]
      BY <1>3, <1>7 DEF Sorted
    <3>2. x = [[v EXCEPT !.acts = e] EXCEPT !.sorted = TRUE]
      BY <2>1, <2>2, <3>1
    <3>. QED  BY <1>4, <3>2, UnitFields
  <2>4. Listing(l)
    <3>1. \A i \in DOMAIN l : l[i] \in Pending
      BY <1>1, <1>2, <1>3, <2>1, ContentsOf DEF Held, Pending
    <3>2. Distinct(Range(l))
      BY <1>1, <3>1 DEF Distinct, Range, PendingInv
    <3>. QED  BY <1>4, <1>5, <2>1, <3>2 DEF Listing
  <2>5. /\ e \in Seq(Activities) /\ Len(e) = Len(l) /\ DOMAIN e = DOMAIN l /\ Range(e) = Range(l)
        /\ \A i, j \in DOMAIN e : e[i] = e[j] => i = j
        /\ \A i, j \in DOMAIN e : i < j => Less(e[j], e[i])
    BY <2>2, <2>4, EarliestLastSorts
  <2>6. Among(e, l) /\ Among(l, e) /\ InOrder(e)
    <3>1. \A i \in DOMAIN e : e[i] \in Range(l)
      BY <2>5 DEF Range
    <3>2. \A i \in DOMAIN l : l[i] \in Range(e)
      BY <2>5 DEF Range
    <3>. QED  BY <2>5, <3>1, <3>2 DEF Range, Among, InOrder
  <2>7. x \in Units /\ x.acts = e /\ x.time = v.time /\ x.sorted = TRUE
    BY <1>4, <2>3, <2>5 DEF Units
  <2>. QED  BY <1>2, <1>3, <2>1, <2>5, <2>6, <2>7 DEF SortedFrom
<1>. QED  BY <1>6, <1>7

In(l, y) == \E i \in DOMAIN l : l[i] = y
Elsewhere(w, y) == \E u \in DOMAIN units : u # w /\ Used(u) /\ In(units[u].acts, y)
UnitsTyped ==
    units \in Seq(Units) /\ current \in DOMAIN units /\ \A t \in DOMAIN binMap : binMap[t] \in DOMAIN units
SameTimes == DOMAIN units' = DOMAIN units /\ \A u \in DOMAIN units : units'[u].time = units[u].time

(* A unit that is sorted, or loses an activity. *)
LEMMA UnitReplaced ==
    ASSUME VortexInd, ~Inserting, ~Inserting', NEW w, Used(w), NEW x \in Units, x.time = units[w].time,
           units' = [units EXCEPT ![w] = x], UNCHANGED <<current, binMap, pool>>,
           w = current \/ x.acts # <<>>, InOrder(x.acts), Among(x.acts, units[w].acts)
    PROVE  /\ UnitInv' /\ UnitsTyped' /\ SameTimes
           /\ \A y : Held(y)' <=> Elsewhere(w, y) \/ In(x.acts, y)
<1>1. VortexType /\ UnitInv /\ pc["me"] # "push" /\ pc'["me"] # "push"
  BY DEF VortexInd, Inserting
<1>2. w \in DOMAIN units
  BY <1>1 DEF Used, VortexType
<1>3. /\ units' \in Seq(Units) /\ DOMAIN units' = DOMAIN units /\ units'[w] = x
      /\ \A u \in DOMAIN units : u # w => units'[u] = units[u]
  BY <1>1, <1>2, Changed DEF VortexType
<1>4. \A u : Used(u)' <=> Used(u)
  BY DEF Used
<1>5. \A u \in DOMAIN units : units'[u].time = units[u].time
  BY <1>3
<1>6. current' \in DOMAIN units' /\ \A t \in DOMAIN binMap' : binMap'[t] \in DOMAIN units'
  BY <1>1, <1>3 DEF VortexType
<1>7. \A y : Held(y)' <=> Elsewhere(w, y) \/ In(x.acts, y)
  <2>1. \A y : Held(y)' <=> \E u \in DOMAIN units' : Used(u)' /\ \E i \in DOMAIN units'[u].acts : units'[u].acts[i] = y
    BY DEF Held
  <2>2. \A y : Held(y)' <=> \E u \in DOMAIN units : Used(u) /\ \E i \in DOMAIN units'[u].acts : units'[u].acts[i] = y
    BY <1>3, <1>4, <2>1
  <2>. QED  BY <1>2, <1>3, <2>2 DEF Elsewhere, In
<1>8. UnitInv'
  <2>1. \A t \in DOMAIN binMap' :
           /\ binMap'[t] # current' /\ units'[binMap'[t]].time = t /\ t > units'[current'].time
           /\ units'[binMap'[t]].acts # <<>> \/ (pc'["me"] = "push" /\ target'["me"] = binMap'[t])
    <3>. TAKE t \in DOMAIN binMap'
    <3>1. t \in DOMAIN binMap /\ binMap[t] # current /\ units[binMap[t]].time = t /\ t > units[current].time
          /\ units[binMap[t]].acts # <<>>
      BY <1>1 DEF UnitInv
    <3>2. binMap[t] \in DOMAIN units /\ current \in DOMAIN units
      BY <1>1, <3>1 DEF VortexType
    <3>3. units'[binMap[t]].acts # <<>>
      BY <1>3, <3>1, <3>2
    <3>. QED  BY <1>5, <3>1, <3>2, <3>3
  <2>2. \A i \in DOMAIN pool' :
           /\ pool'[i] \in DOMAIN units' /\ units'[pool'[i]].acts = <<>> /\ ~Used(pool[i])'
           /\ \A j \in DOMAIN pool' : pool'[i] = pool'[j] => i = j
    <3>. TAKE i \in DOMAIN pool'
    <3>1. /\ i \in DOMAIN pool /\ pool[i] \in DOMAIN units /\ units[pool[i]].acts = <<>> /\ ~Used(pool[i])
          /\ \A j \in DOMAIN pool : pool[i] = pool[j] => i = j
      BY <1>1 DEF UnitInv
    <3>2. pool[i] # w
      BY <3>1
    <3>. QED  BY <1>3, <1>4, <3>1, <3>2
  <2>3. \A u \in DOMAIN units' : Used(u)' => \A i \in DOMAIN units'[u].acts :
           units'[u].acts[i].time = units'[u].time
    <3>. TAKE u \in DOMAIN units'
    <3>1. Used(u) => \A i \in DOMAIN units[u].acts : units[u].acts[i].time = units[u].time
      BY <1>1, <1>3 DEF UnitInv
    <3>2. CASE u # w
      BY <1>3, <1>4, <3>1, <3>2
    <3>3. CASE u = w
      BY <1>3, <3>1, <3>3 DEF Among
    <3>. QED  BY <3>2, <3>3
  <2>4. \A u \in DOMAIN units' : \A i, j \in DOMAIN units'[u].acts :
           /\ units'[u].acts[i] = units'[u].acts[j] => i = j
           /\ units'[u].sorted /\ i < j => Less(units'[u].acts[j], units'[u].acts[i])
    <3>. TAKE u \in DOMAIN units'
    <3>1. \A i, j \in DOMAIN units[u].acts :
             /\ units[u].acts[i] = units[u].acts[j] => i = j
             /\ units[u].sorted /\ i < j => Less(units[u].acts[j], units[u].acts[i])
      BY <1>1, <1>3 DEF UnitInv
    <3>2. CASE u # w
      BY <1>3, <3>1, <3>2
    <3>3. CASE u = w
      BY <1>3, <3>3 DEF InOrder
    <3>. QED  BY <3>2, <3>3
  <2>. QED  BY <2>1, <2>2, <2>3, <2>4 DEF UnitInv
<1>. QED  BY <1>3, <1>5, <1>6, <1>7, <1>8 DEF UnitsTyped, SameTimes

LEMMA BinnedPopUnit ==
    ASSUME VortexInd, kind.binned, PopUnit
    PROVE  VortexInd'
<1>1. /\ VortexType /\ KindInv /\ UnitInv /\ OwnerInv /\ PendingInv /\ PoppedInv /\ DepthInv /\ SavedInv
      /\ pc["me"] = "unit"
  BY DEF VortexInd, PopUnit
<1>2. PICK x : x = Sorted(units[current])
  OBVIOUS
<1>3. UNCHANGED <<kind, insertOrder, depth, data, current, binMap, pool, act, target, syncAt, events, saved>>
  BY DEF PopUnit
<1>4. Used(current) /\ ~Inserting /\ Popping
  BY <1>1 DEF Used, Inserting, Popping
<1>9. current \in DOMAIN units /\ SortedFrom(x, units[current])
  BY <1>2, <1>4, SortedOf
<1>10. PICK l, k : l = x.acts /\ k = units[current].acts
  OBVIOUS
<1>5. /\ current \in DOMAIN units /\ x \in Units /\ x.time = units[current].time /\ x.sorted = TRUE
      /\ l \in Seq(Activities) /\ Len(l) = Len(k) /\ Among(l, k) /\ Among(k, l) /\ InOrder(l)
  BY <1>9, <1>10 DEF SortedFrom
<1>6. k \in Seq(Activities)
  BY <1>1, <1>5, <1>10, UnitTypes
<1>7. CASE l = <<>>
  <2>1. pc' = [pc EXCEPT !["me"] = "next"] /\ UNCHANGED <<units, popped, gone>>
    BY <1>2, <1>7, <1>10 DEF PopUnit, Goto
  <2>2. pc'["me"] = "next" /\ pc'["other"] = "idle"
    BY <1>1, <2>1 DEF KindInv, VortexType, Threads
  <2>3. ~Inserting' /\ Popping'
    BY <2>2 DEF Inserting, Popping
  <2>4. VortexType'
    <3>1. pc' \in [Threads -> {"idle", "test", "find", "push", "unit", "next", "sync"}]
      BY <1>1, <2>1 DEF VortexType
    <3>. QED  BY <1>1, <1>3, <2>1, <3>1 DEF VortexType
  <2>5. KindInv'
    BY <1>1, <1>3, <2>2 DEF KindInv
  <2>6. UnitInv'
    BY <1>1, <1>3, <2>1, UnitsStay
  <2>7. OwnerInv'
    <3>1. Len(k) = 0
      BY <1>5, <1>7
    <3>2. units[current].acts = <<>>
      BY <1>6, <1>10, <3>1
    <3>3. units'[current'].acts = <<>>
      BY <1>3, <2>1, <3>2
    <3>. QED  BY <2>2, <2>3, <3>3 DEF OwnerInv
  <2>8. Contents' = Contents /\ InFlight' = InFlight /\ Pending' = Pending
    <3>1. Contents' = Contents
      BY <1>3, <2>1 DEF Contents
    <3>2. InFlight = {} /\ InFlight' = {}
      BY <1>1, <1>4, <2>3, <2>5, InFlightOf, InFlightOfNext
    <3>. QED  BY <3>1, <3>2 DEF Pending
  <2>9. PendingInv' /\ PoppedInv'
    BY <1>1, <1>3, <2>1, <2>2, <2>8, AllStay
  <2>10. DepthInv' /\ SavedInv'
    BY <1>1, <1>3, <1>4, <2>3, <2>8 DEF DepthInv, KindInv, SavedInv, RestartKeepsEvents
  <2>. QED  BY <2>4, <2>5, <2>6, <2>7, <2>9, <2>10 DEF VortexInd
<1>8. CASE l # <<>>
  <2>1. PICK a, f : a = Last(l) /\ f = Front(l)
    OBVIOUS
  <2>2. PICK z : z = [x EXCEPT !.acts = f]
    OBVIOUS
  <2>3. /\ units' = [units EXCEPT ![current] = z] /\ popped' = a
        /\ gone' = IF a.handler = 0 THEN gone ELSE gone \cup {a.id}
        /\ pc' = [pc EXCEPT !["me"] = IF a.handler = 0 THEN "sync" ELSE "idle"]
    BY <1>2, <1>8, <1>10, <2>1, <2>2 DEF PopUnit, Execute, Goto
  <2>4. /\ f \in Seq(Activities) /\ a = l[Len(l)] /\ Len(l) \in DOMAIN l /\ a \in Activities
        /\ \A i : i \in DOMAIN f <=> i \in DOMAIN l /\ i # Len(l)
        /\ \A i \in DOMAIN f : f[i] = l[i] /\ i < Len(l)
        /\ \A i \in DOMAIN l : i < Len(l) \/ i = Len(l)
    BY <1>5, <1>8, <2>1, Shortened
  <2>5. z \in Units /\ z.acts = f /\ z.time = units[current].time
    BY <1>5, <2>2, <2>4 DEF Units
  <2>6. /\ pc'["me"] = (IF a.handler = 0 THEN "sync" ELSE "idle") /\ pc'["other"] = "idle"
    BY <1>1, <2>3 DEF KindInv, VortexType, Threads
  <2>7. ~Inserting' /\ ~Popping'
    BY <2>6 DEF Inserting, Popping
  <2>8. InOrder(f) /\ Among(f, k)
    <3>1. InOrder(f)
      BY <1>5, <2>4 DEF InOrder
    <3>. QED  BY <1>5, <2>4, <3>1 DEF Among
  <2>9. /\ UnitInv' /\ UnitsTyped' /\ SameTimes
        /\ \A y : Held(y)' <=> Elsewhere(current, y) \/ In(f, y)
    <3>1. InOrder(z.acts) /\ Among(z.acts, units[current].acts) /\ UNCHANGED <<current, binMap, pool>>
      BY <1>3, <1>10, <2>5, <2>8
    <3>2. /\ UnitInv' /\ UnitsTyped' /\ SameTimes
          /\ \A y : Held(y)' <=> Elsewhere(current, y) \/ In(z.acts, y)
      BY <1>4, <2>3, <2>5, <2>7, <3>1, UnitReplaced
    <3>. QED  BY <2>5, <3>2
  <2>10. a.time = units[current].time
    <3>1. PICK i \in DOMAIN units[current].acts : a = units[current].acts[i]
      BY <1>5, <1>10, <2>4 DEF Among
    <3>. QED  BY <1>1, <1>4, <1>5, <3>1 DEF UnitInv
  <2>11. \A y : Held(y) <=> Elsewhere(current, y) \/ In(l, y)
    <3>1. \A y : In(k, y) <=> In(l, y)
      BY <1>5 DEF Among, In
    <3>2. \A y : Held(y) <=> Elsewhere(current, y) \/ In(k, y)
      BY <1>4, <1>5, <1>10 DEF Held, Elsewhere, In
    <3>. QED  BY <3>1, <3>2
  <2>12. \A y : Elsewhere(current, y) => y \in Activities /\ y.time > a.time
    <3>. SUFFICES ASSUME NEW y, NEW u \in DOMAIN units, u # current, Used(u),
                         NEW i \in DOMAIN units[u].acts, units[u].acts[i] = y
                  PROVE  y \in Activities /\ y.time > a.time
      BY DEF Elsewhere, In
    <3>1. PICK t \in DOMAIN binMap : u = binMap[t]
      BY DEF Used
    <3>2. units[u].time = t /\ t > units[current].time
      BY <1>1, <3>1 DEF UnitInv
    <3>3. y.time = units[u].time
      BY <1>1 DEF UnitInv
    <3>4. y \in Activities
      BY <1>1, UnitTypes
    <3>. QED  BY <2>10, <3>2, <3>3, <3>4
  <2>13. \A y : In(l, y) <=> In(f, y) \/ y = a
    BY <2>4 DEF In
  <2>14. \A y : In(f, y) => y # a /\ Less(a, y) /\ y \in Activities
    <3>. SUFFICES ASSUME NEW i \in DOMAIN f PROVE f[i] # a /\ Less(a, f[i]) /\ f[i] \in Activities
      BY DEF In
    <3>1. i \in DOMAIN l /\ f[i] = l[i] /\ i < Len(l) /\ i # Len(l)
      BY <2>4
    <3>2. f[i] # a /\ Less(a, f[i])
      BY <1>5, <2>4, <3>1 DEF InOrder
    <3>. QED  BY <1>5, <3>1, <3>2
  <2>15. \A y : Held(y)' <=> Held(y) /\ y # a
    <3>1. a.time \in Nat
      BY <2>4 DEF Activities
    <3>2. \A y : y.time > a.time => y # a
      BY <3>1
    <3>. QED  BY <2>9, <2>11, <2>12, <2>13, <2>14, <3>2
  <2>16. Held(a) /\ \A y : Held(y) => ~Less(y, a)
    <3>1. Held(a)
      BY <2>13, <2>11
    <3>2. \A y : Held(y) => y = a \/ (y \in Activities /\ y.time > a.time) \/ (y \in Activities /\ Less(a, y))
      BY <2>11, <2>12, <2>13, <2>14
    <3>3. \A y \in Activities : y.time > a.time => ~Less(y, a)
      BY <2>4 DEF Less, Activities
    <3>4. \A y \in Activities : Less(a, y) => ~Less(y, a)
      BY <2>4, LessIsOrder
    <3>5. ~Less(a, a)
      BY <2>4, LessIsOrder
    <3>. QED  BY <3>1, <3>2, <3>3, <3>4, <3>5
  <2>17. a \in Pending /\ Contents = Pending
    <3>1. InFlight = {}
      BY <1>1, <1>4, InFlightOf
    <3>. QED  BY <1>1, <2>16, <3>1, ContentsOf DEF Pending
  <2>18. (a.handler # 0 => a.id \in 1 .. events) /\ events \in Nat
    BY <1>1, <2>17 DEF PendingInv, VortexType
  <2>19. VortexType'
    <3>1. pc' \in [Threads -> {"idle", "test", "find", "push", "unit", "next", "sync"}]
      BY <1>1, <2>3 DEF VortexType
    <3>2. gone' \in SUBSET (1 .. events')
      BY <1>1, <1>3, <2>3, <2>18 DEF VortexType
    <3>. QED  BY <1>1, <1>3, <2>3, <2>4, <2>9, <3>1, <3>2 DEF VortexType, UnitsTyped
  <2>20. KindInv'
    BY <1>1, <1>3, <2>6 DEF KindInv
  <2>21. OwnerInv'
    <3>1. units'[current'].time <= popped'.time
      <4>1. units'[current'].time = a.time /\ a.time \in Nat
        BY <1>3, <1>5, <2>4, <2>9, <2>10 DEF Activities, SameTimes
      <4>. QED  BY <2>3, <4>1
    <3>. QED  BY <2>6, <2>7, <3>1 DEF OwnerInv
  <2>22. Contents' = Contents \ {a} /\ InFlight' = {} /\ Pending' = Pending \ {a}
    <3>1. InFlight' = {}
      BY <2>7, <2>20, InFlightOfNext
    <3>2. data = {} /\ data' = {}
      BY <1>1, <1>3 DEF KindInv
    <3>3. \A y : y \in Contents <=> y \in data \/ Held(y)
      BY <1>1, ContentsOf
    <3>4. \A y : y \in Contents' <=> y \in data' \/ Held(y)'
      BY <2>19, ContentsOfNext
    <3>5. Contents' = Contents \ {a}
      BY <2>15, <3>2, <3>3, <3>4
    <3>. QED  BY <2>17, <3>1, <3>5 DEF Pending
  <2>23. PendingInv' /\ PoppedInv'
    <3>1. Pending \in SUBSET Activities
      BY <1>1, PendingType DEF Pending
    <3>2. \A b \in Pending : ~Less(b, a)
      <4>1. data = {} /\ \A y : y \in Contents <=> y \in data \/ Held(y)
        BY <1>1, ContentsOf DEF KindInv
      <4>. QED  BY <2>16, <2>17, <4>1
    <3>3. insertOrder' = insertOrder /\ events' = events /\ syncAt' = syncAt /\ pc["me"] # "sync"
      BY <1>1, <1>3
    <3>. QED  BY <1>1, <2>3, <2>6, <2>17, <2>22, <3>1, <3>2, <3>3, FirstGoes
  <2>24. DepthInv'
    <3>1. a \in Contents /\ IsFiniteSet(Contents) /\ depth = Cardinality(Contents) - 1
      BY <1>1, <1>4, <2>17 DEF DepthInv
    <3>2. Cardinality(Contents \ {a}) = Cardinality(Contents) - 1 /\ IsFiniteSet(Contents \ {a})
      BY <3>1, FS_RemoveElement
    <3>. QED  BY <1>3, <2>7, <2>22, <3>1, <3>2 DEF DepthInv
  <2>25. SavedInv'
    BY <1>1, <1>3 DEF KindInv, SavedInv, RestartKeepsEvents
  <2>. QED  BY <2>9, <2>19, <2>20, <2>21, <2>23, <2>24, <2>25 DEF VortexInd
<1>. QED  BY <1>7, <1>8

(* When the current unit is empty and something is left there is a next one. *)
LEMMA NextUnit ==
    ASSUME VortexType, KindInv, kind.binned, Contents # {}, units[current].acts = <<>>, NEW first, first = Min(DOMAIN binMap)
    PROVE  first \in DOMAIN binMap /\ \A t \in DOMAIN binMap : first <= t
<1>1. PICK y : Held(y)
  <2>1. data = {} /\ \A y : y \in Contents <=> y \in data \/ Held(y)
    BY ContentsOf DEF KindInv
  <2>. QED  BY <2>1
<1>2. DOMAIN units[current].acts = {}
  OBVIOUS
<1>3. DOMAIN binMap # {}
  BY <1>1, <1>2 DEF Held, Used
<1>4. DOMAIN binMap \in SUBSET Nat
  BY DEF VortexType
<1>5. \E n \in DOMAIN binMap : \A t \in DOMAIN binMap : n <= t
  <2>1. PICK B : B = DOMAIN binMap
    OBVIOUS
  <2>. QED  BY <1>3, <1>4, <2>1, LeastNat
<1>. QED  BY <1>5 DEF Min

LEMMA BinnedPopNext ==
    ASSUME VortexInd, kind.binned, PopNext
    PROVE  VortexInd'
<1>1. /\ VortexType /\ KindInv /\ UnitInv /\ OwnerInv /\ PendingInv /\ PoppedInv /\ DepthInv /\ SavedInv
      /\ pc["me"] = "next"
  BY DEF VortexInd, PopNext
<1>2. PICK first : first = Min(DOMAIN binMap)
  OBVIOUS
<1>3. /\ pool' = Append(pool, current) /\ current' = binMap[first]
      /\ binMap' = [s \in DOMAIN binMap \ {first} |-> binMap[s]] /\ pc' = [pc EXCEPT !["me"] = "unit"]
      /\ UNCHANGED <<kind, insertOrder, depth, data, units, act, target, popped, syncAt, events, gone, saved>>
  BY <1>2 DEF PopNext, Goto, history
<1>4. pc'["me"] = "unit" /\ pc'["other"] = "idle"
  BY <1>1, <1>3 DEF KindInv, VortexType, Threads
<1>5. ~Inserting /\ ~Inserting' /\ Popping /\ Popping'
  BY <1>1, <1>4 DEF Inserting, Popping
<1>6. units[current].acts = <<>> /\ Contents # {}
  <2>1. Contents # {}
    <3>1. depth = Cardinality(Contents) - 1 /\ depth \in Nat
      BY <1>1, <1>5 DEF DepthInv, VortexType
    <3>2. Cardinality({}) = 0
      BY FS_EmptySet
    <3>. QED  BY <3>1, <3>2
  <2>. QED  BY <1>1, <2>1 DEF OwnerInv
<1>7. first \in DOMAIN binMap /\ \A t \in DOMAIN binMap : first <= t
  BY <1>1, <1>2, <1>6, NextUnit
<1>8. /\ DOMAIN binMap' = DOMAIN binMap \ {first} /\ \A t \in DOMAIN binMap' : binMap'[t] = binMap[t]
      /\ \A t \in DOMAIN binMap : t \in Nat /\ binMap[t] \in DOMAIN units
      /\ current \in DOMAIN units /\ current \in Nat
  BY <1>1, <1>3, UnitTypes DEF VortexType
<1>9. \A t \in DOMAIN binMap :
         /\ binMap[t] # current /\ units[binMap[t]].time = t /\ t > units[current].time
         /\ units[binMap[t]].acts # <<>>
  BY <1>1 DEF UnitInv
<1>10. \A t \in DOMAIN binMap' : t \in DOMAIN binMap /\ binMap[t] # binMap[first] /\ t > first
  <2>. TAKE t \in DOMAIN binMap'
  <2>1. t \in DOMAIN binMap /\ t # first /\ first <= t /\ t \in Nat /\ first \in Nat
    BY <1>7, <1>8
  <2>. QED  BY <1>7, <1>9, <2>1
<1>11. \A u : Used(u)' <=> Used(u) /\ u # current
  <2>1. \A u : Used(u)' => Used(u) /\ u # current
    BY <1>3, <1>7, <1>8, <1>9, <1>10 DEF Used
  <2>2. \A u : Used(u) /\ u # current => Used(u)'
    <3>. SUFFICES ASSUME NEW u, NEW t \in DOMAIN binMap, u = binMap[t] PROVE Used(u)'
      BY DEF Used
    <3>1. CASE t = first
      BY <1>3, <3>1 DEF Used
    <3>2. CASE t # first
      <4>1. t \in DOMAIN binMap' /\ u = binMap'[t]
        BY <1>8, <3>2
      <4>. QED  BY <4>1 DEF Used
    <3>. QED  BY <3>1, <3>2
  <2>. QED  BY <2>1, <2>2
<1>12. /\ pool' \in Seq(Nat) /\ DOMAIN pool' = DOMAIN pool \cup {Len(pool) + 1} /\ pool'[Len(pool) + 1] = current
       /\ Len(pool) + 1 \notin DOMAIN pool /\ \A i \in DOMAIN pool : pool'[i] = pool[i]
  BY <1>1, <1>3, <1>8, Appended DEF VortexType
<1>13. VortexType'
  <2>1. pc' \in [Threads -> {"idle", "test", "find", "push", "unit", "next", "sync"}]
    BY <1>1, <1>3 DEF VortexType
  <2>2. current' \in DOMAIN units' /\ DOMAIN binMap' \subseteq Nat /\ \A t \in DOMAIN binMap' : binMap'[t] \in DOMAIN units'
    BY <1>3, <1>7, <1>8
  <2>. QED  BY <1>1, <1>3, <1>12, <2>1, <2>2 DEF VortexType
<1>14. KindInv'
  BY <1>1, <1>3, <1>4 DEF KindInv
<1>15. Contents' = Contents
  <2>1. \A y : Held(y)' <=> \E u \in DOMAIN units' : Used(u)' /\ In(units'[u].acts, y)
    BY DEF Held, In
  <2>2. \A y : Held(y) <=> \E u \in DOMAIN units : Used(u) /\ In(units[u].acts, y)
    BY DEF Held, In
  <2>3. \A y : ~In(units[current].acts, y)
    <3>1. DOMAIN units[current].acts = {}
      BY <1>6
    <3>. QED  BY <3>1 DEF In
  <2>4. \A y : Held(y)' <=> Held(y)
    BY <1>3, <1>11, <2>1, <2>2, <2>3
  <2>5. \A y : y \in Contents <=> y \in data \/ Held(y)
    BY <1>1, ContentsOf
  <2>6. \A y : y \in Contents' <=> y \in data' \/ Held(y)'
    BY <1>13, ContentsOfNext
  <2>. QED  BY <1>3, <2>4, <2>5, <2>6
<1>16. UnitInv'
  <2>1. \A t \in DOMAIN binMap' :
           /\ binMap'[t] # current' /\ units'[binMap'[t]].time = t /\ t > units'[current'].time
           /\ units'[binMap'[t]].acts # <<>> \/ (pc'["me"] = "push" /\ target'["me"] = binMap'[t])
    <3>. TAKE t \in DOMAIN binMap'
    <3>1. binMap'[t] = binMap[t] /\ t \in DOMAIN binMap /\ binMap[t] # binMap[first] /\ t > first
      BY <1>8, <1>10
    <3>2. units[binMap[t]].time = t /\ units[binMap[t]].acts # <<>> /\ units[binMap[first]].time = first
      BY <1>7, <1>9, <3>1
    <3>. QED  BY <1>3, <3>1, <3>2
  <2>2. \A i \in DOMAIN pool' :
           /\ pool'[i] \in DOMAIN units' /\ units'[pool'[i]].acts = <<>> /\ ~Used(pool[i])'
           /\ \A j \in DOMAIN pool' : pool'[i] = pool'[j] => i = j
    <3>1. \A i \in DOMAIN pool : /\ pool[i] \in DOMAIN units /\ units[pool[i]].acts = <<>> /\ ~Used(pool[i])
                                 /\ \A j \in DOMAIN pool : pool[i] = pool[j] => i = j
      BY <1>1 DEF UnitInv
    <3>2. \A i \in DOMAIN pool : pool[i] # current
      BY <3>1 DEF Used
    <3>. TAKE i \in DOMAIN pool'
    <3>3. CASE i \in DOMAIN pool
      BY <1>3, <1>11, <1>12, <3>1, <3>2, <3>3
    <3>4. CASE i = Len(pool) + 1
      BY <1>3, <1>6, <1>8, <1>11, <1>12, <3>2, <3>4
    <3>. QED  BY <1>12, <3>3, <3>4
  <2>3. \A u \in DOMAIN units' : Used(u)' => \A i \in DOMAIN units'[u].acts :
           units'[u].acts[i].time = units'[u].time
    BY <1>1, <1>3, <1>11 DEF UnitInv
  <2>4. \A u \in DOMAIN units' : \A i, j \in DOMAIN units'[u].acts :
           /\ units'[u].acts[i] = units'[u].acts[j] => i = j
           /\ units'[u].sorted /\ i < j => Less(units'[u].acts[j], units'[u].acts[i])
    BY <1>1, <1>3 DEF UnitInv
  <2>. QED  BY <2>1, <2>2, <2>3, <2>4 DEF UnitInv
<1>17. OwnerInv'
  BY <1>4, <1>5 DEF OwnerInv
<1>18. InFlight' = InFlight /\ Pending' = Pending
  <2>1. InFlight = {} /\ InFlight' = {}
    BY <1>1, <1>5, <1>14, InFlightOf, InFlightOfNext
  <2>. QED  BY <1>15, <2>1 DEF Pending
<1>19. PendingInv' /\ PoppedInv'
  BY <1>1, <1>3, <1>4, <1>18, AllStay
<1>20. DepthInv' /\ SavedInv'
  BY <1>1, <1>3, <1>5, <1>15, <1>18 DEF DepthInv, KindInv, SavedInv, RestartKeepsEvents
<1>. QED  BY <1>13, <1>14, <1>16, <1>17, <1>19, <1>20 DEF VortexInd

LEMMA BinnedLookAtFront ==
    ASSUME VortexInd, kind.binned, LookAtFront
    PROVE  VortexInd'
<1>1. /\ VortexType /\ KindInv /\ UnitInv /\ OwnerInv /\ PendingInv /\ PoppedInv /\ DepthInv /\ SavedInv
      /\ pc["me"] = "idle" /\ depth # 0
  BY DEF VortexInd, LookAtFront
<1>2. PICK w : w = FrontUnit
  OBVIOUS
<1>3. PICK x : x = Sorted(units[w])
  OBVIOUS
<1>4. /\ units' = [units EXCEPT ![w] = x]
      /\ UNCHANGED <<kind, insertOrder, depth, data, current, binMap, pool, pc, act, target, popped,
                     syncAt, events, gone, saved>>
  <2>1. units' = [units EXCEPT ![w] = Sorted(@)]
    BY <1>2 DEF LookAtFront
  <2>2. [units EXCEPT ![w] = Sorted(@)] = [units EXCEPT ![w] = x]
    BY <1>3
  <2>. QED  BY <2>1, <2>2 DEF LookAtFront, history
<1>5. ~Inserting /\ ~Inserting' /\ ~Popping /\ ~Popping'
  BY <1>1, <1>4 DEF Inserting, Popping
<1>6. Used(w)
  <2>1. CASE units[current].acts # <<>>
    BY <1>2, <2>1 DEF FrontUnit, Used
  <2>2. CASE units[current].acts = <<>>
    <3>1. PICK first : first = Min(DOMAIN binMap)
      OBVIOUS
    <3>2. Contents # {}
      <4>1. depth = Cardinality(Contents) /\ Cardinality({}) = 0
        BY <1>1, <1>5, FS_EmptySet DEF DepthInv
      <4>. QED  BY <1>1, <4>1
    <3>3. first \in DOMAIN binMap
      BY <1>1, <2>2, <3>1, <3>2, NextUnit
    <3>. QED  BY <1>2, <2>2, <3>1, <3>3 DEF FrontUnit, Used
  <2>. QED  BY <2>1, <2>2
<1>7. w \in DOMAIN units /\ SortedFrom(x, units[w])
  BY <1>3, <1>6, SortedOf
<1>8. PICK l, k : l = x.acts /\ k = units[w].acts
  OBVIOUS
<1>9. /\ x \in Units /\ x.time = units[w].time /\ l \in Seq(Activities) /\ Len(l) = Len(k) /\ k \in Seq(Activities)
      /\ Among(l, k) /\ Among(k, l) /\ InOrder(l)
  BY <1>1, <1>7, <1>8, UnitTypes DEF SortedFrom
<1>10. w = current \/ l # <<>>
  <2>1. w # current => k # <<>>
    BY <1>1, <1>6, <1>8 DEF Used, UnitInv
  <2>2. l = <<>> => Len(k) = 0
    BY <1>9
  <2>3. Len(k) = 0 => k = <<>>
    BY <1>9
  <2>. QED  BY <2>1, <2>2, <2>3
<1>11. UnitInv' /\ UnitsTyped' /\ SameTimes /\ \A y : Held(y)' <=> Elsewhere(w, y) \/ In(l, y)
  <2>1. InOrder(x.acts) /\ Among(x.acts, units[w].acts) /\ UNCHANGED <<current, binMap, pool>>
        /\ (w = current \/ x.acts # <<>>)
    BY <1>4, <1>8, <1>9, <1>10
  <2>2. UnitInv' /\ UnitsTyped' /\ SameTimes /\ \A y : Held(y)' <=> Elsewhere(w, y) \/ In(x.acts, y)
    BY <1>4, <1>5, <1>6, <1>9, <2>1, UnitReplaced
  <2>. QED  BY <1>8, <2>2
<1>12. \A y : Held(y)' <=> Held(y)
  <2>1. \A y : In(k, y) <=> In(l, y)
    BY <1>9 DEF Among, In
  <2>2. \A y : Held(y) <=> Elsewhere(w, y) \/ In(k, y)
    BY <1>6, <1>7, <1>8 DEF Held, Elsewhere, In
  <2>. QED  BY <1>11, <2>1, <2>2
<1>13. VortexType'
  BY <1>1, <1>4, <1>11 DEF VortexType, UnitsTyped
<1>14. KindInv'
  BY <1>1, <1>4 DEF KindInv
<1>15. Contents' = Contents /\ InFlight' = InFlight /\ Pending' = Pending
  <2>1. \A y : y \in Contents <=> y \in data \/ Held(y)
    BY <1>1, ContentsOf
  <2>2. \A y : y \in Contents' <=> y \in data' \/ Held(y)'
    BY <1>13, ContentsOfNext
  <2>3. Contents' = Contents
    BY <1>4, <1>12, <2>1, <2>2
  <2>4. InFlight = {} /\ InFlight' = {}
    BY <1>1, <1>5, <1>14, InFlightOf, InFlightOfNext
  <2>. QED  BY <2>3, <2>4 DEF Pending
<1>16. OwnerInv'
  <2>1. units[current].time <= popped.time /\ units'[current'].time = units[current].time
    BY <1>1, <1>4, <1>5, <1>11 DEF OwnerInv, SameTimes, VortexType
  <2>. QED  BY <1>1, <1>4, <1>5, <2>1 DEF OwnerInv
<1>17. PendingInv' /\ PoppedInv'
  BY <1>1, <1>4, <1>15, AllStay
<1>18. DepthInv' /\ SavedInv'
  BY <1>1, <1>4, <1>5, <1>15 DEF DepthInv, KindInv, SavedInv, RestartKeepsEvents
<1>. QED  BY <1>11, <1>13, <1>14, <1>16, <1>17, <1>18 DEF VortexInd

-----------------------------------------------------------------------------
(* The theorem. *)

LEMMA VortexStutter ==
    ASSUME VortexInd, UNCHANGED vortexVars PROVE VortexInd'
<1>1. UNCHANGED <<kind, insertOrder, depth, data, units, current, binMap, pool, pc, act, target, popped,
                  syncAt, events, gone, saved>>
  BY DEF vortexVars
<1>2. Contents' = Contents /\ InFlight' = InFlight /\ (\A u : Used(u)' <=> Used(u))
      /\ (Inserting' <=> Inserting) /\ (Popping' <=> Popping)
  BY <1>1 DEF Contents, InFlight, Used, Inserting, Popping
<1>3. Pending' = Pending
  BY <1>2 DEF Pending
<1>4. VortexType' /\ KindInv' /\ UnitInv' /\ OwnerInv'
  BY <1>1, <1>2 DEF VortexInd, VortexType, KindInv, UnitInv, OwnerInv
<1>5. PendingInv' /\ PoppedInv'
  BY <1>1, <1>3, AllStay DEF VortexInd
<1>6. DepthInv' /\ SavedInv'
  BY <1>1, <1>2 DEF VortexInd, DepthInv, SavedInv, RestartKeepsEvents
<1>. QED  BY <1>4, <1>5, <1>6 DEF VortexInd

LEMMA VortexNextInd ==
    ASSUME KindsHandled, VortexInd, [VortexNext]_vortexVars PROVE VortexInd'
<1>1. pc["other"] = "idle" /\ (~kind.binned => pc["me"] \in {"idle", "sync"}) /\ kind \in Kinds
  BY DEF VortexInd, KindInv, VortexType
<1>2. ASSUME NEW t \in Threads, NEW h \in EventHandlers, NEW time \in 0 .. LastSync, Send(t, h, time)
      PROVE  VortexInd'
  BY <1>2, QueueSend, BinnedSend
<1>3. ASSUME NEW t \in Threads, TestCurrent(t) \/ Find(t) \/ UnitInsert(t) PROVE VortexInd'
  <2>1. t = "me" /\ kind.binned
    BY <1>1, <1>3 DEF TestCurrent, Find, UnitInsert, Threads
  <2>. QED  BY <1>3, <2>1, BinnedTest, BinnedFind, BinnedUnitInsert
<1>4. CASE Pop
  BY <1>4, QueuePop, BinnedPop
<1>5. CASE PopUnit
  <2>1. kind.binned
    BY <1>1, <1>5 DEF PopUnit
  <2>. QED  BY <1>5, <2>1, BinnedPopUnit
<1>6. CASE PopNext
  <2>1. kind.binned
    BY <1>1, <1>6 DEF PopNext
  <2>. QED  BY <1>6, <2>1, BinnedPopNext
<1>7. CASE LookAtFront
  <2>1. kind.binned
    BY <1>7 DEF LookAtFront
  <2>. QED  BY <1>7, <2>1, BinnedLookAtFront
<1>8. CASE LeaveSync
  BY <1>8, QueueLeaveSync, BinnedLeaveSync
<1>9. CASE VortexRestart
  <2>1. ~kind.binned
    BY <1>9 DEF VortexRestart, KindsHandled
  <2>. QED  BY <1>9, <2>1, QueueRestart
<1>10. CASE VortexOver \/ UNCHANGED vortexVars
  BY <1>10, VortexStutter DEF VortexOver
<1>. QED  BY <1>2, <1>3, <1>4, <1>5, <1>6, <1>7, <1>8, <1>9, <1>10 DEF VortexNext

LEMMA VortexIndImplies == ASSUME VortexInd PROVE VortexKept
<1>1. VortexType /\ KindInv /\ PendingInv /\ DepthInv /\ SavedInv
  BY DEF VortexInd
<1>2. \A a \in Contents \cup InFlight : ~Less(a, popped)
  BY <1>1 DEF PendingInv, Pending
<1>3. Ids(Contents \cup InFlight) = (1 .. events) \ gone
  <2>1. \A a \in Pending : a.id = 0 \/ a.id \in (1 .. events) \ gone
    BY <1>1 DEF PendingInv
  <2>2. \A i \in (1 .. events) \ gone : i # 0 /\ \E a \in Pending : a.id = i
    BY <1>1 DEF PendingInv, VortexType
  <2>. QED  BY <2>1, <2>2 DEF Ids, Pending
<1>4. pc["me"] \notin {"unit", "next"} => depth = Cardinality(Contents) + Cardinality(InFlight)
  <2>. SUFFICES ASSUME ~Popping PROVE depth = Cardinality(Contents) + Cardinality(InFlight)
    BY DEF Popping
  <2>1. CASE Inserting
    <3>1. Cardinality(InFlight) = 1
      BY <1>1, <2>1, InFlightOf, FS_Singleton
    <3>. QED  BY <1>1, <2>1, <3>1 DEF DepthInv
  <2>2. CASE ~Inserting
    <3>1. Cardinality(InFlight) = 0
      BY <1>1, <2>2, InFlightOf, FS_EmptySet
    <3>2. Cardinality(Contents) \in Nat
      BY <1>1, FS_CardinalityType DEF DepthInv
    <3>. QED  BY <1>1, <2>2, <3>1, <3>2 DEF DepthInv
  <2>. QED  BY <2>1, <2>2
<1>5. UnitIsOwned
  BY <1>1 DEF KindInv, UnitIsOwned
<1>6. RestartKeepsEvents
  BY <1>1 DEF SavedInv
<1>. QED  BY <1>2, <1>3, <1>4, <1>5, <1>6 DEF VortexKept, ExecutedInOrder

(***************************************************************************)
(* insert() and pop() of both forms, front(), and a restart of the         *)
(* priority queue: activities are executed in order of time, priority and  *)
(* insertion, each once, and none is lost.                                 *)
(***************************************************************************)
THEOREM ExecutionIsOrdered ==
    ASSUME KindsHandled PROVE VortexSpec => []VortexKept
<1>1. VortexInit => VortexInd
  BY VortexInitInd
<1>2. VortexInd /\ [VortexNext]_vortexVars => VortexInd'
  BY VortexNextInd
<1>3. VortexInd => VortexKept
  BY VortexIndImplies
<1>. QED  BY <1>1, <1>2, <1>3, PTL DEF VortexSpec

-----------------------------------------------------------------------------
(* Part 2: the statistics. *)

-----------------------------------------------------------------------------
(* Types. *)

(* The functions from a part of A to B. *)
PartialMaps(A, B) == UNION {[T -> B] : T \in SUBSET A}

LEMMA WithType ==
    ASSUME NEW A, NEW B, NEW x \in A, NEW y \in B, NEW m \in PartialMaps(A, B)
    PROVE  /\ With(m, x, y) \in PartialMaps(A, B)
           /\ DOMAIN With(m, x, y) = {x} \cup DOMAIN m
           /\ With(m, x, y)[x] = y
           /\ \A z \in DOMAIN m : z # x => With(m, x, y)[z] = m[z]
<1>1. PICK T \in SUBSET A : m \in [T -> B]
  BY DEF PartialMaps
<1>2. DOMAIN m = T /\ T \cup {x} \in SUBSET A
  BY <1>1
<1>3. With(m, x, y) \in [T \cup {x} -> B]
  BY <1>1, <1>2 DEF With
<1>. QED  BY <1>1, <1>2, <1>3 DEF PartialMaps, With

LEMMA NothingMapped == \A A, B : <<>> \in PartialMaps(A, B)
<1>. SUFFICES ASSUME NEW A, NEW B PROVE <<>> \in PartialMaps(A, B)
  OBVIOUS
<1>1. <<>> \in Seq(B) /\ Len(<<>>) = 0
  OBVIOUS
<1>2. <<>> \in [1 .. 0 -> B]
  BY <1>1, LenProperties
<1>3. 1 .. 0 = {}
  OBVIOUS
<1>. QED  BY <1>2, <1>3 DEF PartialMaps

LEMMA DropType ==
    ASSUME NEW A, NEW B, NEW x, NEW m \in PartialMaps(A, B)
    PROVE  Drop(m, x) \in PartialMaps(A, B)
<1>1. PICK T \in SUBSET A : m \in [T -> B]
  BY DEF PartialMaps
<1>2. Drop(m, x) \in [T \ {x} -> B] /\ T \ {x} \in SUBSET A
  BY <1>1 DEF Drop, Restrict
<1>. QED  BY <1>2 DEF PartialMaps

LEMMA Multiples ==
    ASSUME NEW q \in Int, NEW p \in Int, NEW f \in Nat, p > q
    PROVE  p * f >= q * f + f /\ p * f \in Int /\ q * f \in Int
<1>1. PICK d \in Nat : p = q + 1 + d
  <2>1. p = q + 1 + (p - q - 1) /\ p - q - 1 \in Nat
    OBVIOUS
  <2>. QED  BY <2>1
<1>2. p * f = q * f + f + d * f /\ d * f \in Nat /\ q * f \in Int
  BY <1>1
<1>. QED  BY <1>2

LEMMA Remainder ==
    ASSUME NEW q \in Int, NEW f \in Nat \ {0}, NEW r \in 0 .. (f - 1), NEW n \in Nat, n = q * f + r
    PROVE  n % f = r
<1>. DEFINE p == n \div f
            m == n % f
<1>1. p \in Int /\ m \in 0 .. (f - 1) /\ n = p * f + m /\ p * f \in Int /\ q * f \in Int
  OBVIOUS
<1>. HIDE DEF p, m
<1>2. ~(p > q)
  <2>1. p > q => p * f >= q * f + f
    BY <1>1, Multiples
  <2>. QED  BY <1>1, <2>1
<1>3. ~(q > p)
  <2>1. q > p => q * f >= p * f + f
    BY <1>1, Multiples
  <2>. QED  BY <1>1, <2>1
<1>4. p = q
  BY <1>1, <1>2, <1>3
<1>. QED  BY <1>1, <1>4 DEF m

LEMMA DivMod ==
    ASSUME NEW n \in Nat, NEW f \in Nat \ {0}
    PROVE  /\ n % f \in 0 .. (f - 1)
           /\ (n \div f) * f = n - (n % f)
           /\ (n + 1) % f = IF n % f = f - 1 THEN 0 ELSE (n % f) + 1
<1>1. n % f \in 0 .. (f - 1) /\ n = (n \div f) * f + (n % f) /\ n \div f \in Int
  OBVIOUS
<1>2. (n \div f) * f \in Int
  OBVIOUS
<1>3. CASE n % f = f - 1
  <2>1. n + 1 = ((n \div f) + 1) * f + 0
    BY <1>1, <1>3
  <2>2. (n + 1) % f = 0
    <3>. DEFINE q == (n \div f) + 1
                k == n + 1
    <3>1. q \in Int /\ k = q * f + 0 /\ 0 \in 0 .. (f - 1) /\ k \in Nat
      BY <1>1, <2>1
    <3>. HIDE DEF q, k
    <3>2. k % f = 0
      BY <3>1, Remainder
    <3>. QED  BY <3>2 DEF k
  <2>. QED  BY <2>2, <1>1, <1>2, <1>3
<1>4. CASE n % f # f - 1
  <2>1. n + 1 = (n \div f) * f + ((n % f) + 1) /\ (n % f) + 1 \in 0 .. (f - 1) /\ n + 1 \in Nat
    BY <1>1, <1>4
  <2>2. (n + 1) % f = (n % f) + 1
    <3>. DEFINE q == n \div f
                r == (n % f) + 1
                k == n + 1
    <3>1. q \in Int /\ k = q * f + r /\ r \in 0 .. (f - 1) /\ k \in Nat
      BY <1>1, <2>1
    <3>. HIDE DEF q, r, k
    <3>2. k % f = r
      BY <3>1, Remainder
    <3>. QED  BY <3>2 DEF k, r
  <2>. QED  BY <2>2, <1>1, <1>2, <1>4
<1>. QED  BY <1>1, <1>2, <1>3, <1>4

-----------------------------------------------------------------------------
(* The inductive invariant. *)

Shots == [handlers : Seq({"start", "stop"}), scheduled : BOOLEAN]

(* Statistics whose data are values of V, and engines with them. *)
Collectors(V) ==
    [enabled : BOOLEAN, current : Nat, output : Nat, limit : Nat,
     startAtFlag : BOOLEAN, stopAtFlag : BOOLEAN, data : V]
Engines(V) ==
    [stat : [Stats -> Collectors(V)], clocks : PartialMaps(Nat \ {0}, Nat), groupClock : Nat,
     starts : PartialMaps(Nat, SUBSET Stats), stops : PartialMaps(Nat, SUBSET Stats),
     oneshots : PartialMaps(Nat, Shots)]

StatType ==
    /\ config \in [Stats -> Configs]
    /\ order \in Seq(Stats)
    /\ \E V : engine \in Engines(V)
    /\ \E R : rows \in [Stats -> Seq(R)]
    /\ phase \in {"build", "init", "run", "finish", "over"}
    /\ now \in Nat /\ prio \in {0, SYNC, EVENT, STATISTICCLOCK, EXIT}
    /\ started \in BOOLEAN
    /\ regAt \in [Stats -> Nat]

StatPhase ==
    /\ \A s \in Stats : config[s].group => config[s].mode = "time"
    /\ phase \in {"build", "init"} => /\ now = 0 /\ prio = 0 /\ ~started
                                     /\ \A s \in Stats : rows[s] = <<>>
    /\ phase = "run" => prio # 0 /\ started
    /\ phase \in {"finish", "over"} => prio \in {SYNC, EXIT}

(* When a clock of period f fires next: at now if it has not been its turn. *)
TickFrom(f) == IF now # 0 /\ now % f = 0 THEN now ELSE now - (now % f) + f
TickAfter(f) == now - (now % f) + f
TickKept(f, c) ==
    /\ c \in {TickFrom(f), TickAfter(f)}
    /\ prio < STATISTICCLOCK => c = TickFrom(f)
    /\ prio = EXIT => c = TickAfter(f)

Timed(s) == config[s].mode = "time" /\ RateOf(s) # 0

StatClocks ==
    /\ \A f \in DOMAIN engine.clocks : TickKept(f, engine.clocks[f])
    /\ GroupRate # 0 /\ phase # "build" => TickKept(GroupRate, engine.groupClock)
    /\ \A s \in Registered : Timed(s) /\ ~config[s].group => RateOf(s) \in DOMAIN engine.clocks

TickOf(s) == IF config[s].group THEN engine.groupClock ELSE engine.clocks[RateOf(s)]

OnceEach(s) == \A i, j \in ClockRows(s) : rows[s][i].at = rows[s][j].at => i = j

(* What is due before now is written, and now unless the clock is to fire. *)
WrittenSoFar(s) ==
    /\ Written(s) \subseteq Due(s)
    /\ OnceEach(s)
    /\ \A t \in Due(s) : t < now => t \in Written(s)
    /\ now \in Due(s) => (now \in Written(s) <=> TickOf(s) # now)

StatRows ==
    /\ \A s \in Stats \ Registered : rows[s] = <<>>
    /\ \A s \in Registered : /\ regAt[s] <= now
                             /\ IF Timed(s) THEN WrittenSoFar(s) ELSE ClockRows(s) = {}

StatInd == StatType /\ StatPhase /\ StatClocks /\ StatRows

-----------------------------------------------------------------------------
(* The operators of the engine. *)

LEMMA ScheduleTick ==
    ASSUME now \in Nat, prio \in Nat, NEW f \in Nat \ {0}
    PROVE  /\ FirstTick(f) = IF prio < STATISTICCLOCK THEN TickFrom(f) ELSE TickAfter(f)
           /\ FirstTick(f) \in Nat /\ TickFrom(f) \in Nat /\ TickAfter(f) \in Nat
           /\ TickAfter(f) > now /\ TickFrom(f) >= now
<1>1. now % f \in 0 .. (f - 1) /\ (now \div f) * f = now - (now % f)
  BY DivMod
<1>2. now % f <= now
  OBVIOUS
<1>. QED  BY <1>1, <1>2 DEF FirstTick, TickFrom, TickAfter, STATISTICCLOCK

LEMMA NextType ==
    ASSUME NEW o \in PartialMaps(Nat, Shots)
    PROVE  ScheduleNext(o) \in PartialMaps(Nat, Shots)
<1>1. PICK T \in SUBSET Nat : o \in [T -> Shots]
  BY DEF PartialMaps
<1>. DEFINE x == Min(DOMAIN o)
            p == [o EXCEPT ![x].scheduled = TRUE]
<1>2. p \in [T -> Shots]
  <2>. HIDE DEF x
  <2>1. ASSUME NEW y \in T PROVE p[y] \in Shots
    BY <1>1 DEF Shots
  <2>2. DOMAIN p = T
    BY <1>1
  <2>. QED  BY <1>1, <2>1, <2>2
<1>3. p \in PartialMaps(Nat, Shots)
  BY <1>2 DEF PartialMaps
<1>. QED  BY <1>3 DEF ScheduleNext

LEMMA HandlerType ==
    ASSUME NEW o \in PartialMaps(Nat, Shots), NEW t \in Nat, NEW h \in {"start", "stop"}
    PROVE  RegisterOneShot(o, t, h) \in PartialMaps(Nat, Shots)
<1>. DEFINE list == IF t \in DOMAIN o THEN o[t] ELSE [handlers |-> <<>>, scheduled |-> FALSE]
            added == [list EXCEPT !.handlers = Append(@, h)]
            w == With(o, t, added)
<1>1. list \in Shots
  BY DEF Shots, PartialMaps
<1>2. added \in Shots
  <2>. HIDE DEF list
  <2>. QED  BY <1>1 DEF Shots
<1>. HIDE DEF list, added
<1>3. w \in PartialMaps(Nat, Shots)
  BY <1>2, WithType
<1>. HIDE DEF w
<1>4. ScheduleNext(w) \in PartialMaps(Nat, Shots)
  BY <1>3, NextType
<1>. QED  BY <1>4 DEF RegisterOneShot, w, added, list

LEMMA EngineFields ==
    ASSUME NEW V, NEW e \in Engines(V)
    PROVE  /\ e.stat \in [Stats -> Collectors(V)] /\ e.groupClock \in Nat
           /\ e.clocks \in PartialMaps(Nat \ {0}, Nat)
           /\ e.starts \in PartialMaps(Nat, SUBSET Stats)
           /\ e.stops \in PartialMaps(Nat, SUBSET Stats)
           /\ e.oneshots \in PartialMaps(Nat, Shots)
BY DEF Engines

LEMMA AddToType ==
    ASSUME NEW m \in PartialMaps(Nat, SUBSET Stats), NEW t \in Nat, NEW s \in Stats
    PROVE  AddTo(m, t, s) \in PartialMaps(Nat, SUBSET Stats)
<1>. DEFINE new == {s} \cup IF t \in DOMAIN m THEN m[t] ELSE {}
<1>1. new \in SUBSET Stats
  BY DEF PartialMaps
<1>. HIDE DEF new
<1>2. With(m, t, new) \in PartialMaps(Nat, SUBSET Stats)
  BY <1>1, WithType
<1>. QED  BY <1>2 DEF AddTo, new

(* The clocks are left alone. *)
ClocksKept(e, u) == u.clocks = e.clocks /\ u.groupClock = e.groupClock

LEMMA SetStartType ==
    ASSUME NEW V, NEW e \in Engines(V), NEW s \in Stats, NEW t \in Nat, now \in Nat
    PROVE  SetStartTime(e, s, t) \in Engines(V) /\ ClocksKept(e, SetStartTime(e, s, t))
<1>. DEFINE o == IF t \in DOMAIN e.starts THEN e.oneshots ELSE RegisterOneShot(e.oneshots, t, "start")
            a == AddTo(e.starts, t, s)
            st == [e.stat EXCEPT ![s].enabled = FALSE, ![s].startAtFlag = TRUE]
            u == [e EXCEPT !.oneshots = o, !.starts = a, !.stat = st]
<1>1. CASE t <= now
  BY <1>1 DEF SetStartTime, ClocksKept
<1>2. CASE ~(t <= now)
  <2>1. o \in PartialMaps(Nat, Shots) /\ a \in PartialMaps(Nat, SUBSET Stats)
    BY EngineFields, HandlerType, AddToType
  <2>2. st \in [Stats -> Collectors(V)]
    <3>1. e.stat \in [Stats -> Collectors(V)]
      BY EngineFields
    <3>2. ASSUME NEW x \in Stats PROVE st[x] \in Collectors(V)
      BY <3>1 DEF Collectors
    <3>. QED  BY <3>1, <3>2
  <2>3. SetStartTime(e, s, t) = u
    <3>. HIDE DEF o, a
    <3>1. SetStartTime(e, s, t) = [e EXCEPT !.oneshots = o, !.starts = a,
                                    !.stat[s].enabled = FALSE, !.stat[s].startAtFlag = TRUE]
      BY <1>2 DEF SetStartTime, o, a
    <3>. QED  BY <3>1 DEF Engines
  <2>. HIDE DEF o, a, st
  <2>4. u \in Engines(V) /\ u.clocks = e.clocks /\ u.groupClock = e.groupClock
    BY <2>1, <2>2 DEF Engines
  <2>. QED  BY <2>3, <2>4 DEF ClocksKept
<1>. QED  BY <1>1, <1>2

LEMMA SetStopType ==
    ASSUME NEW V, NEW e \in Engines(V), NEW s \in Stats, NEW t \in Nat, now \in Nat
    PROVE  SetStopTime(e, s, t) \in Engines(V) /\ ClocksKept(e, SetStopTime(e, s, t))
<1>. DEFINE o == IF t \in DOMAIN e.stops THEN e.oneshots ELSE RegisterOneShot(e.oneshots, t, "stop")
            a == AddTo(e.stops, t, s)
            st == [e.stat EXCEPT ![s].stopAtFlag = TRUE]
            u == [e EXCEPT !.oneshots = o, !.stops = a, !.stat = st]
<1>1. CASE t <= now
  BY <1>1 DEF SetStopTime, ClocksKept
<1>2. CASE ~(t <= now)
  <2>1. o \in PartialMaps(Nat, Shots) /\ a \in PartialMaps(Nat, SUBSET Stats)
    BY EngineFields, HandlerType, AddToType
  <2>2. st \in [Stats -> Collectors(V)]
    <3>1. e.stat \in [Stats -> Collectors(V)]
      BY EngineFields
    <3>2. ASSUME NEW x \in Stats PROVE st[x] \in Collectors(V)
      BY <3>1 DEF Collectors
    <3>. QED  BY <3>1, <3>2
  <2>3. SetStopTime(e, s, t) = u
    <3>. HIDE DEF o, a
    <3>1. SetStopTime(e, s, t) = [e EXCEPT !.oneshots = o, !.stops = a, !.stat[s].stopAtFlag = TRUE]
      BY <1>2 DEF SetStopTime, o, a
    <3>. QED  BY <3>1 DEF Engines
  <2>. HIDE DEF o, a, st
  <2>4. u \in Engines(V) /\ u.clocks = e.clocks /\ u.groupClock = e.groupClock
    BY <2>1, <2>2 DEF Engines
  <2>. QED  BY <2>3, <2>4 DEF ClocksKept
<1>. QED  BY <1>1, <1>2

(* Clocks may have been added, each set by Clock::schedule. *)
ClocksAdded(e, u) ==
    /\ u.groupClock = e.groupClock
    /\ DOMAIN e.clocks \subseteq DOMAIN u.clocks
    /\ \A f \in DOMAIN u.clocks : u.clocks[f] = IF f \in DOMAIN e.clocks THEN e.clocks[f] ELSE FirstTick(f)

LEMMA PeriodicType ==
    ASSUME NEW V, NEW e \in Engines(V), NEW f \in Nat, now \in Nat, prio \in Nat
    PROVE  /\ AddPeriodic(e, f) \in Engines(V)
           /\ ClocksAdded(e, AddPeriodic(e, f))
           /\ f # 0 => f \in DOMAIN AddPeriodic(e, f).clocks
<1>1. CASE f = 0 \/ f \in DOMAIN e.clocks
  BY <1>1 DEF AddPeriodic, ClocksAdded
<1>2. CASE ~(f = 0 \/ f \in DOMAIN e.clocks)
  <2>. DEFINE c == With(e.clocks, f, FirstTick(f))
              u == [e EXCEPT !.clocks = c]
  <2>1. /\ c \in PartialMaps(Nat \ {0}, Nat) /\ DOMAIN c = {f} \cup DOMAIN e.clocks
        /\ c[f] = FirstTick(f) /\ \A g \in DOMAIN e.clocks : c[g] = e.clocks[g]
    <3>1. FirstTick(f) \in Nat /\ f \in Nat \ {0} /\ e.clocks \in PartialMaps(Nat \ {0}, Nat)
      BY <1>2, ScheduleTick, EngineFields
    <3>. DEFINE m == e.clocks
                A == Nat \ {0}
                y == FirstTick(f)
    <3>2. m \in PartialMaps(A, Nat) /\ y \in Nat /\ f \in A /\ c = With(m, f, y)
      BY <3>1
    <3>. HIDE DEF m, A, y, c
    <3>3. ASSUME NEW z \in Nat
          PROVE  /\ With(m, f, z) \in PartialMaps(A, Nat)
                 /\ DOMAIN With(m, f, z) = {f} \cup DOMAIN m
                 /\ With(m, f, z)[f] = z
                 /\ \A g \in DOMAIN m : g # f => With(m, f, z)[g] = m[g]
      BY <3>2, WithType
    <3>. QED  BY <1>2, <3>2, <3>3 DEF m, A, y
  <2>2. AddPeriodic(e, f) = u
    BY <1>2 DEF AddPeriodic
  <2>. HIDE DEF c
  <2>3. u \in Engines(V) /\ u.clocks = c /\ u.groupClock = e.groupClock
    BY <2>1 DEF Engines
  <2>. QED  BY <2>1, <2>2, <2>3 DEF ClocksAdded
<1>. QED  BY <1>1, <1>2

LEMMA JoinType ==
    ASSUME NEW V, NEW e \in Engines(V), NEW s \in Stats, NEW t \in Nat, NEW r \in Nat,
           now \in Nat, prio \in Nat, config[s].rate \in Nat
    PROVE  /\ Join(e, s, t, r) \in Engines(V)
           /\ ClocksAdded(e, Join(e, s, t, r))
           /\ Timed(s) /\ ~config[s].group => RateOf(s) \in DOMAIN Join(e, s, t, r).clocks
<1>. DEFINE p == AddPeriodic(e, config[s].rate)
            timed == IF config[s].mode = "time" /\ ~config[s].group THEN p ELSE e
            a == SetStartTime(timed, s, t)
<1>1. /\ timed \in Engines(V) /\ ClocksAdded(e, timed)
      /\ Timed(s) /\ ~config[s].group => RateOf(s) \in DOMAIN timed.clocks
  <2>1. p \in Engines(V) /\ ClocksAdded(e, p) /\ (config[s].rate # 0 => config[s].rate \in DOMAIN p.clocks)
    BY PeriodicType
  <2>2. ClocksAdded(e, e)
    BY DEF ClocksAdded
  <2>. HIDE DEF p
  <2>. QED  BY <2>1, <2>2 DEF Timed, RateOf
<1>. HIDE DEF timed
<1>2. a \in Engines(V) /\ ClocksKept(timed, a)
  BY <1>1, SetStartType
<1>. HIDE DEF a
<1>3. SetStopTime(a, s, r) \in Engines(V) /\ ClocksKept(a, SetStopTime(a, s, r))
  BY <1>2, SetStopType
<1>4. Join(e, s, t, r) = SetStopTime(a, s, r)
  BY DEF Join, a, timed
<1>5. ClocksKept(timed, Join(e, s, t, r))
  BY <1>2, <1>3, <1>4 DEF ClocksKept
<1>. QED  BY <1>1, <1>3, <1>4, <1>5 DEF ClocksAdded, ClocksKept

LEMMA HandleType ==
    ASSUME NEW V, NEW e \in Engines(V), NEW h \in {"start", "stop"}
    PROVE  Handle(e, h) \in Engines(V) /\ ClocksKept(e, Handle(e, h))
<1>. DEFINE on == [s \in Stats |-> IF s \in e.starts[now]
                        THEN [e.stat[s] EXCEPT !.enabled = TRUE, !.startAtFlag = FALSE] ELSE e.stat[s]]
            off == [s \in Stats |-> IF s \in e.stops[now]
                        THEN [e.stat[s] EXCEPT !.enabled = FALSE, !.stopAtFlag = FALSE] ELSE e.stat[s]]
            starts == Drop(e.starts, now)
            stops == Drop(e.stops, now)
<1>1. starts \in PartialMaps(Nat, SUBSET Stats) /\ stops \in PartialMaps(Nat, SUBSET Stats)
  BY EngineFields, DropType
<1>2. on \in [Stats -> Collectors(V)] /\ off \in [Stats -> Collectors(V)]
  <2>1. e.stat \in [Stats -> Collectors(V)]
    BY EngineFields
  <2>2. ASSUME NEW s \in Stats PROVE on[s] \in Collectors(V) /\ off[s] \in Collectors(V)
    BY <2>1 DEF Collectors
  <2>. QED  BY <2>2
<1>3. Handle(e, h) = IF h = "start" THEN [e EXCEPT !.stat = on, !.starts = starts]
                     ELSE [e EXCEPT !.stat = off, !.stops = stops]
  BY DEF Handle, Engines
<1>. HIDE DEF on, off, starts, stops
<1>. QED  BY <1>1, <1>2, <1>3 DEF Engines, ClocksKept

(* All handlers of a time, one after the other. *)
HandleRun(it, e, c) ==
    /\ it[DOMAIN c] = FoldLeft(Handle, e, c)
    /\ \A s \in SUBSET (DOMAIN c) : it[s] = IF s = {} THEN e ELSE Handle(it[s \ {Max(s)}], c[Max(s)])

LEMMA HandleIter ==
    ASSUME NEW V, NEW e \in Engines(V), NEW c \in Seq({"start", "stop"})
    PROVE  \E it \in [SUBSET (DOMAIN c) -> Engines(V)] : HandleRun(it, e, c)
<1>. DEFINE D == Engines(V)
            S == DOMAIN c
            h == [s \in SUBSET S |-> Max(s)]
            step == [p \in D \X S |-> Handle(p[1], c[p[2]])]
            Is(i) == i = [s \in SUBSET S |-> IF s = {} THEN e
                              ELSE Handle(i[s \ {Max(s)}], c[Max(s)])]
            it == CHOOSE i : Is(i)
            T == {s \in SUBSET S : it[s] \in D}
<1>0. Len(c) \in Nat /\ S = 1 .. Len(c) /\ IsFiniteSet(S) /\ \A i \in S : c[i] \in {"start", "stop"}
  BY FS_Interval
<1>. HIDE DEF S
<1>1. \A s \in SUBSET S : s # {} => Max(s) \in s
  BY <1>0, LargestElement
<1>2. \A u \in D, i \in S : Handle(u, c[i]) \in D
  BY <1>0, HandleType
<1>3. Picks(h, S)
  BY <1>1 DEF Picks
<1>4. e \in D
  OBVIOUS
<1>. HIDE DEF D
<1>5. step \in [D \X S -> D]
  BY <1>2
<1>6. PICK g \in [SUBSET S -> D] : Recursion(g, S, e, h, step)
  <2>. HIDE DEF h, step
  <2>. QED  BY <1>0, <1>3, <1>4, <1>5, SetRecursion
<1>7. Is(g)
  <2>. DEFINE k == [s \in SUBSET S |-> IF s = {} THEN e
                              ELSE Handle(g[s \ {Max(s)}], c[Max(s)])]
  <2>1. ASSUME NEW s \in SUBSET S PROVE g[s] = k[s]
    <3>1. CASE s = {}
      BY <3>1, <1>6 DEF Recursion
    <3>2. CASE s # {}
      <4>1. g[s \ {h[s]}] \in D /\ h[s] \in S
        BY <1>1, <3>2, <1>6
      <4>2. g[s] = step[<<g[s \ {h[s]}], h[s]>>]
        <5>. HIDE DEF h, step
        <5>. QED  BY <1>6, <3>2 DEF Recursion
      <4>3. g[s] = Handle(g[s \ {h[s]}], c[h[s]])
        <5>. HIDE DEF h
        <5>. QED  BY <4>1, <4>2
      <4>. QED  BY <4>3, <3>2
    <3>. QED  BY <3>1, <3>2
  <2>. QED  BY <2>1, <1>6
<1>8. Is(it)
  <2>. HIDE DEF Is
  <2>. QED  BY <1>7
<1>9. FoldLeft(Handle, e, c) = it[S]
  BY DEF FoldLeft, MapThenFoldSet, S
<1>. HIDE DEF it
<1>10. \A s \in SUBSET S : it[s] = IF s = {} THEN e ELSE Handle(it[s \ {h[s]}], c[h[s]])
  BY <1>8
<1>. HIDE DEF h
<1>11. {} \in T
  BY <1>4, <1>10
<1>12. ASSUME NEW s \in SUBSET S, s # {}, s \ {h[s]} \in T PROVE s \in T
  <2>1. h[s] \in S /\ it[s \ {h[s]}] \in D
    BY <1>3, <1>12 DEF Picks
  <2>. QED  BY <2>1, <1>2, <1>10, <1>12
<1>13. Inductive(T, h, S)
  BY <1>11, <1>12 DEF Inductive
<1>. HIDE DEF T
<1>14. \A s \in SUBSET S : s \in T
  BY <1>0, <1>3, <1>13, SetInduction
<1>15. it \in [SUBSET S -> D]
  <2>1. it = [s \in SUBSET S |-> it[s]]
    BY <1>8
  <2>. QED  BY <1>14, <2>1 DEF T
<1>16. \A s \in SUBSET S : it[s] = IF s = {} THEN e ELSE Handle(it[s \ {Max(s)}], c[Max(s)])
  BY <1>10 DEF h
<1>17. HandleRun(it, e, c)
  BY <1>9, <1>16 DEF HandleRun, S
<1>. QED  BY <1>15, <1>17 DEF D, S

LEMMA HandleFold ==
    ASSUME NEW V, NEW e \in Engines(V), NEW c \in Seq({"start", "stop"})
    PROVE  FoldLeft(Handle, e, c) \in Engines(V) /\ ClocksKept(e, FoldLeft(Handle, e, c))
<1>. DEFINE S == DOMAIN c
            h == [s \in SUBSET S |-> Max(s)]
<1>1. IsFiniteSet(S) /\ S \in SUBSET Nat /\ \A i \in S : c[i] \in {"start", "stop"}
  BY FS_Interval
<1>2. PICK it \in [SUBSET S -> Engines(V)] : HandleRun(it, e, c)
  BY HandleIter
<1>. DEFINE T == {s \in SUBSET S : ClocksKept(e, it[s])}
<1>2a. /\ it[S] = FoldLeft(Handle, e, c)
       /\ \A s \in SUBSET S : it[s] = IF s = {} THEN e ELSE Handle(it[s \ {Max(s)}], c[Max(s)])
  BY <1>2 DEF HandleRun
<1>. HIDE DEF S
<1>3. Picks(h, S)
  BY <1>1, LargestElement DEF Picks
<1>4. {} \in T
  BY <1>2a DEF ClocksKept
<1>5. ASSUME NEW s \in SUBSET S, s # {}, s \ {h[s]} \in T PROVE s \in T
  <2>. DEFINE u == it[s \ {h[s]}]
              k == c[h[s]]
  <2>1. h[s] = Max(s) /\ h[s] \in S
    BY <1>3, <1>5 DEF Picks
  <2>2. u \in Engines(V) /\ k \in {"start", "stop"} /\ it[s] = Handle(u, k) /\ ClocksKept(e, u)
    BY <1>1, <1>2, <1>2a, <1>5, <2>1
  <2>. HIDE DEF u, k
  <2>3. ClocksKept(u, it[s])
    BY <2>2, HandleType
  <2>. QED  BY <2>2, <2>3 DEF ClocksKept
<1>6. Inductive(T, h, S)
  BY <1>4, <1>5 DEF Inductive
<1>. HIDE DEF T, h
<1>7. S \in T
  BY <1>1, <1>3, <1>6, SetInduction
<1>8. S \in SUBSET S
  OBVIOUS
<1>. QED  BY <1>2, <1>2a, <1>7, <1>8 DEF T

LEMMA FactorType ==
    ASSUME NEW m \in PartialMaps(Nat, SUBSET Stats), NEW s
    PROVE  FactorOf(m, s) \in Nat
<1>. DEFINE T == {t \in DOMAIN m : s \in m[t]}
<1>1. T \in SUBSET Nat
  BY DEF PartialMaps
<1>2. CASE T = {}
  BY <1>2 DEF FactorOf
<1>3. CASE T # {}
  <2>. HIDE DEF T
  <2>1. \E n \in T : \A k \in T : n <= k
    BY <1>1, <1>3, LeastNat
  <2>2. Min(T) \in T
    BY <2>1 DEF Min
  <2>. QED  BY <1>1, <2>2 DEF FactorOf, T
<1>. QED  BY <1>2, <1>3

LEMMA SavedType ==
    ASSUME NEW V, engine \in Engines(V), NEW s \in Stats
    PROVE  SavedStart(s) \in Nat /\ SavedStop(s) \in Nat
<1>1. engine.starts \in PartialMaps(Nat, SUBSET Stats) /\ engine.stops \in PartialMaps(Nat, SUBSET Stats)
  BY DEF Engines
<1>2. FactorOf(engine.starts, s) \in Nat /\ FactorOf(engine.stops, s) \in Nat
  BY <1>1, FactorType
<1>. QED  BY <1>2 DEF SavedStart, SavedStop

(* All clocks have just been set, those of the registered statistics I. *)
JustSet(u) == \A f \in DOMAIN u.clocks : u.clocks[f] = FirstTick(f)
HasClocks(u, I) == \A i \in I : Timed(order[i]) /\ ~config[order[i]].group => RateOf(order[i]) \in DOMAIN u.clocks

LEMMA RejoinStep ==
    ASSUME NEW V, engine \in Engines(V), now \in Nat, prio \in Nat, NEW s \in Stats,
           config[s].rate \in Nat, NEW u \in Engines(V)
    PROVE  /\ Rejoin(u, s) \in Engines(V)
           /\ ClocksAdded(u, Rejoin(u, s))
           /\ Timed(s) /\ ~config[s].group => RateOf(s) \in DOMAIN Rejoin(u, s).clocks
<1>. DEFINE t == SavedStart(s)
            r == SavedStop(s)
<1>1. t \in Nat /\ r \in Nat
  BY SavedType
<1>. HIDE DEF t, r
<1>2. /\ Join(u, s, t, r) \in Engines(V) /\ ClocksAdded(u, Join(u, s, t, r))
      /\ Timed(s) /\ ~config[s].group => RateOf(s) \in DOMAIN Join(u, s, t, r).clocks
  BY <1>1, JoinType
<1>. QED  BY <1>2 DEF Rejoin, t, r

(* All statistics, one after the other. *)
RejoinRun(it, e) ==
    /\ it[DOMAIN order] = FoldLeft(Rejoin, e, order)
    /\ \A s \in SUBSET (DOMAIN order) : it[s] = IF s = {} THEN e
                                             ELSE Rejoin(it[s \ {Max(s)}], order[Max(s)])

LEMMA RejoinIter ==
    ASSUME NEW V, engine \in Engines(V), order \in Seq(Stats), now \in Nat, prio \in Nat,
           \A s \in Stats : config[s].rate \in Nat, NEW e \in Engines(V)
    PROVE  \E it \in [SUBSET (DOMAIN order) -> Engines(V)] : RejoinRun(it, e)
<1>. DEFINE D == Engines(V)
            S == DOMAIN order
            h == [s \in SUBSET S |-> Max(s)]
            step == [p \in D \X S |-> Rejoin(p[1], order[p[2]])]
            Is(i) == i = [s \in SUBSET S |-> IF s = {} THEN e
                              ELSE Rejoin(i[s \ {Max(s)}], order[Max(s)])]
            it == CHOOSE i : Is(i)
            T == {s \in SUBSET S : it[s] \in D}
<1>0. Len(order) \in Nat /\ S = 1 .. Len(order) /\ IsFiniteSet(S) /\ \A i \in S : order[i] \in Stats
  BY FS_Interval
<1>. HIDE DEF S
<1>1. \A s \in SUBSET S : s # {} => Max(s) \in s
  BY <1>0, LargestElement
<1>2. \A u \in D, i \in S : Rejoin(u, order[i]) \in D
  BY <1>0, RejoinStep
<1>3. Picks(h, S)
  BY <1>1 DEF Picks
<1>4. e \in D
  OBVIOUS
<1>. HIDE DEF D
<1>5. step \in [D \X S -> D]
  BY <1>2
<1>6. PICK g \in [SUBSET S -> D] : Recursion(g, S, e, h, step)
  <2>. HIDE DEF h, step
  <2>. QED  BY <1>0, <1>3, <1>4, <1>5, SetRecursion
<1>7. Is(g)
  <2>. DEFINE k == [s \in SUBSET S |-> IF s = {} THEN e
                              ELSE Rejoin(g[s \ {Max(s)}], order[Max(s)])]
  <2>1. ASSUME NEW s \in SUBSET S PROVE g[s] = k[s]
    <3>1. CASE s = {}
      BY <3>1, <1>6 DEF Recursion
    <3>2. CASE s # {}
      <4>1. g[s \ {h[s]}] \in D /\ h[s] \in S
        BY <1>1, <3>2, <1>6
      <4>2. g[s] = step[<<g[s \ {h[s]}], h[s]>>]
        <5>. HIDE DEF h, step
        <5>. QED  BY <1>6, <3>2 DEF Recursion
      <4>3. g[s] = Rejoin(g[s \ {h[s]}], order[h[s]])
        <5>. HIDE DEF h
        <5>. QED  BY <4>1, <4>2
      <4>. QED  BY <4>3, <3>2
    <3>. QED  BY <3>1, <3>2
  <2>. QED  BY <2>1, <1>6
<1>8. Is(it)
  <2>. HIDE DEF Is
  <2>. QED  BY <1>7
<1>9. FoldLeft(Rejoin, e, order) = it[S]
  BY DEF FoldLeft, MapThenFoldSet, S
<1>. HIDE DEF it
<1>10. \A s \in SUBSET S : it[s] = IF s = {} THEN e ELSE Rejoin(it[s \ {h[s]}], order[h[s]])
  BY <1>8
<1>. HIDE DEF h
<1>11. {} \in T
  BY <1>4, <1>10
<1>12. ASSUME NEW s \in SUBSET S, s # {}, s \ {h[s]} \in T PROVE s \in T
  <2>1. h[s] \in S /\ it[s \ {h[s]}] \in D
    BY <1>3, <1>12 DEF Picks
  <2>. QED  BY <2>1, <1>2, <1>10, <1>12
<1>13. Inductive(T, h, S)
  BY <1>11, <1>12 DEF Inductive
<1>. HIDE DEF T
<1>14. \A s \in SUBSET S : s \in T
  BY <1>0, <1>3, <1>13, SetInduction
<1>15. it \in [SUBSET S -> D]
  <2>1. it = [s \in SUBSET S |-> it[s]]
    BY <1>8
  <2>. QED  BY <1>14, <2>1 DEF T
<1>16. \A s \in SUBSET S : it[s] = IF s = {} THEN e ELSE Rejoin(it[s \ {Max(s)}], order[Max(s)])
  BY <1>10 DEF h
<1>17. RejoinRun(it, e)
  BY <1>9, <1>16 DEF RejoinRun, S
<1>. QED  BY <1>15, <1>17 DEF D, S

LEMMA RejoinFold ==
    ASSUME NEW V, engine \in Engines(V), order \in Seq(Stats), now \in Nat, prio \in Nat,
           \A s \in Stats : config[s].rate \in Nat, NEW e \in Engines(V), e.clocks = <<>>
    PROVE  /\ FoldLeft(Rejoin, e, order) \in Engines(V)
           /\ JustSet(FoldLeft(Rejoin, e, order))
           /\ HasClocks(FoldLeft(Rejoin, e, order), DOMAIN order)
<1>. DEFINE S == DOMAIN order
            h == [s \in SUBSET S |-> Max(s)]
<1>1. IsFiniteSet(S) /\ S \in SUBSET Nat /\ \A i \in S : order[i] \in Stats
  BY FS_Interval
<1>2. PICK it \in [SUBSET S -> Engines(V)] : RejoinRun(it, e)
  BY RejoinIter
<1>. DEFINE T == {s \in SUBSET S : JustSet(it[s]) /\ HasClocks(it[s], s)}
<1>2a. /\ it[S] = FoldLeft(Rejoin, e, order)
       /\ \A s \in SUBSET S : it[s] = IF s = {} THEN e ELSE Rejoin(it[s \ {Max(s)}], order[Max(s)])
  BY <1>2 DEF RejoinRun
<1>. HIDE DEF S
<1>3. Picks(h, S)
  BY <1>1, LargestElement DEF Picks
<1>4. {} \in T
  <2>1. {} \in SUBSET S /\ it[{}] = e
    BY <1>2a
  <2>2. JustSet(e) /\ HasClocks(e, {})
    BY DEF JustSet, HasClocks
  <2>. QED  BY <2>1, <2>2
<1>5. ASSUME NEW s \in SUBSET S, s # {}, s \ {h[s]} \in T PROVE s \in T
  <2>. DEFINE i == h[s]
              u == it[s \ {i}]
              v == it[s]
              x == order[i]
  <2>1. i = Max(s) /\ i \in S /\ i \in s
    BY <1>3, <1>5 DEF Picks
  <2>2. u \in Engines(V) /\ v = Rejoin(u, x) /\ JustSet(u) /\ HasClocks(u, s \ {i}) /\ x \in Stats
    BY <1>1, <1>2, <1>2a, <1>5, <2>1
  <2>3. config[x].rate \in Nat
    BY <2>2
  <2>. HIDE DEF u, v, x, i
  <2>4. /\ ClocksAdded(u, v)
        /\ Timed(x) /\ ~config[x].group => RateOf(x) \in DOMAIN v.clocks
    BY <2>2, <2>3, RejoinStep
  <2>5. JustSet(v) /\ HasClocks(v, s)
    BY <2>2, <2>4 DEF ClocksAdded, JustSet, HasClocks, x
  <2>. QED  BY <2>5 DEF v
<1>6. Inductive(T, h, S)
  BY <1>4, <1>5 DEF Inductive
<1>. HIDE DEF T, h
<1>7. S \in T
  BY <1>1, <1>3, <1>6, SetInduction
<1>8. S \in SUBSET S
  OBVIOUS
<1>. QED  BY <1>2, <1>2a, <1>7, <1>8 DEF T, S

-----------------------------------------------------------------------------
(* Rows. *)

LEMMA AppendRow ==
    ASSUME NEW R, NEW q \in Seq(R), NEW r \in R
    PROVE  /\ Append(q, r) \in Seq(R)
           /\ Len(q) + 1 \notin DOMAIN q
           /\ DOMAIN Append(q, r) = DOMAIN q \cup {Len(q) + 1}
           /\ Append(q, r)[Len(q) + 1] = r
           /\ \A i \in DOMAIN q : Append(q, r)[i] = q[i]
<1>1. /\ Append(q, r) \in Seq(R) /\ Len(Append(q, r)) = Len(q) + 1 /\ Len(q) \in Nat
      /\ DOMAIN q = 1 .. Len(q) /\ DOMAIN Append(q, r) = 1 .. Len(Append(q, r))
      /\ \A i \in 1 .. Len(q) : Append(q, r)[i] = q[i]
      /\ Append(q, r)[Len(q) + 1] = r
  OBVIOUS
<1>. QED  BY <1>1

LEMMA AfterOutputType ==
    ASSUME NEW V, NEW s \in Stats, NEW st \in Collectors(V)
    PROVE  AfterOutput(s, st) \in Collectors(V \cup {Cleared(config[s].type)})
<1>. DEFINE W == V \cup {Cleared(config[s].type)}
            counted == IF config[s].mode = "event" /\ ~config[s].group
                       THEN [st EXCEPT !.output = 0] ELSE st
            empty == Cleared(config[s].type)
            counts == IF config[s].type = "unique" THEN counted
                      ELSE [counted EXCEPT !.current = 0, !.output = 0]
            cleared == [counts EXCEPT !.data = empty]
<1>1. counted \in Collectors(V)
  BY DEF Collectors
<1>2. AfterOutput(s, st) = IF config[s].reset THEN cleared ELSE counted
  BY DEF AfterOutput, ClearData
<1>. HIDE DEF counted
<1>3. counts \in Collectors(V)
  BY <1>1 DEF Collectors
<1>. HIDE DEF counts, empty
<1>4. cleared \in Collectors(V \cup {empty}) /\ counted \in Collectors(V \cup {empty})
  BY <1>1, <1>3 DEF Collectors
<1>. QED  BY <1>2, <1>4 DEF empty

(* What an output does to the engine and the rows. *)
LEMMA OutputType ==
    ASSUME StatType, NEW S \in SUBSET Stats, NEW why, NEW V, NEW e \in Engines(V), Output(S, why, e)
    PROVE  /\ \E W : engine' \in Engines(W)
           /\ ClocksKept(e, engine')
           /\ \E R : rows' \in [Stats -> Seq(R)]
           /\ \A s \in Stats : rows'[s] = IF started /\ s \in S
                                          THEN Append(rows[s], RowOf(s, e.stat[s], why)) ELSE rows[s]
<1>. DEFINE W == V \cup {Cleared(config[s].type) : s \in Stats}
            stat == [s \in Stats |-> IF started /\ s \in S /\ why # "end"
                                     THEN AfterOutput(s, e.stat[s]) ELSE e.stat[s]]
<1>1. e.stat \in [Stats -> Collectors(V)]
  BY EngineFields
<1>2. stat \in [Stats -> Collectors(W)]
  <2>1. ASSUME NEW s \in Stats PROVE stat[s] \in Collectors(W)
    <3>1. AfterOutput(s, e.stat[s]) \in Collectors(V \cup {Cleared(config[s].type)})
      BY <1>1, AfterOutputType
    <3>2. AfterOutput(s, e.stat[s]) \in Collectors(W) /\ e.stat[s] \in Collectors(W)
      BY <1>1, <3>1 DEF Collectors
    <3>. QED  BY <3>2
  <2>. QED  BY <2>1
<1>3. engine' = [e EXCEPT !.stat = stat]
  BY DEF Output, Engines
<1>. HIDE DEF stat
<1>4. engine' \in Engines(W) /\ ClocksKept(e, engine')
  BY <1>2, <1>3 DEF Engines, ClocksKept
<1>5. PICK R : rows \in [Stats -> Seq(R)]
  BY DEF StatType
<1>. DEFINE Q == R \cup {RowOf(s, e.stat[s], why) : s \in Stats}
<1>6. \A s \in Stats : rows'[s] = IF started /\ s \in S
                                  THEN Append(rows[s], RowOf(s, e.stat[s], why)) ELSE rows[s]
  BY DEF Output
<1>7. rows' \in [Stats -> Seq(Q)]
  <2>1. ASSUME NEW s \in Stats PROVE rows'[s] \in Seq(Q)
    <3>1. rows[s] \in Seq(Q)
      BY <1>5, SeqMonotonic
    <3>2. RowOf(s, e.stat[s], why) \in Q
      OBVIOUS
    <3>. HIDE DEF Q
    <3>3. Append(rows[s], RowOf(s, e.stat[s], why)) \in Seq(Q)
      BY <3>1, <3>2
    <3>. QED  BY <1>6, <3>1, <3>3
  <2>2. rows' = [s \in Stats |-> rows'[s]]
    BY DEF Output
  <2>. HIDE DEF Q
  <2>. QED  BY <2>1, <2>2
<1>. QED  BY <1>4, <1>6, <1>7

(* Nothing is written by a clock. *)
Quiet(s) ==
    \/ rows'[s] = rows[s]
    \/ s \in Registered /\ \E r : r.why # "clock" /\ rows'[s] = Append(rows[s], r)

LEMMA QuietRow ==
    ASSUME StatType, NEW s \in Stats, Quiet(s)
    PROVE  ClockRows(s)' = ClockRows(s) /\ Written(s)' = Written(s) /\ (OnceEach(s) => OnceEach(s)')
<1>1. CASE rows'[s] = rows[s]
  BY <1>1 DEF ClockRows, Written, OnceEach
<1>2. CASE rows'[s] # rows[s]
  <2>1. PICK r : r.why # "clock" /\ rows'[s] = Append(rows[s], r)
    BY <1>2 DEF Quiet
  <2>2. PICK R : rows \in [Stats -> Seq(R)]
    BY DEF StatType
  <2>. DEFINE Q == R \cup {r}
  <2>3. rows[s] \in Seq(Q) /\ r \in Q
    BY <2>2, SeqMonotonic
  <2>. HIDE DEF Q
  <2>4. /\ Len(rows[s]) + 1 \notin DOMAIN rows[s]
        /\ DOMAIN rows'[s] = DOMAIN rows[s] \cup {Len(rows[s]) + 1}
        /\ rows'[s][Len(rows[s]) + 1] = r
        /\ \A i \in DOMAIN rows[s] : rows'[s][i] = rows[s][i]
    BY <2>1, <2>3, AppendRow
  <2>5. ClockRows(s)' = ClockRows(s)
    BY <2>1, <2>4 DEF ClockRows
  <2>6. \A i \in ClockRows(s) : rows'[s][i].at = rows[s][i].at
    BY <2>4 DEF ClockRows
  <2>7. Written(s)' = Written(s)
    BY <2>5, <2>6 DEF Written
  <2>. QED  BY <2>5, <2>6, <2>7 DEF OnceEach
<1>. QED  BY <1>1, <1>2

LEMMA QuietStep ==
    ASSUME StatInd, UNCHANGED <<config, order, now, prio, regAt>>, ClocksKept(engine, engine'),
           phase' = "build" <=> phase = "build", \A s \in Stats : Quiet(s)
    PROVE  StatClocks' /\ StatRows'
<1>1. engine'.clocks = engine.clocks /\ engine'.groupClock = engine.groupClock
  BY DEF ClocksKept
<1>2. Registered' = Registered /\ Registered \subseteq Stats
  BY DEF Registered, ToSet, StatInd, StatType
<1>3. \A s \in Stats : Timed(s)' = Timed(s) /\ RateOf(s)' = RateOf(s)
  BY DEF Timed, RateOf
<1>4. StatClocks'
  BY <1>1, <1>2, <1>3 DEF StatInd, StatClocks, TickKept, TickFrom, TickAfter, STATISTICCLOCK, EXIT
<1>5. ASSUME NEW s \in Stats \ Registered PROVE rows'[s] = <<>>
  BY <1>2 DEF Quiet, StatInd, StatRows
<1>6. ASSUME NEW s \in Registered
      PROVE  /\ regAt'[s] <= now'
             /\ IF Timed(s) THEN WrittenSoFar(s)' ELSE ClockRows(s)' = {}
  <2>1. s \in Stats /\ regAt[s] <= now
    BY <1>2 DEF StatInd, StatRows
  <2>2. ClockRows(s)' = ClockRows(s) /\ Written(s)' = Written(s) /\ (OnceEach(s) => OnceEach(s)')
    BY <2>1, QuietRow DEF StatInd
  <2>3. TickOf(s)' = TickOf(s) /\ Due(s)' = Due(s)
    BY <1>1 DEF TickOf, Due, RateOf
  <2>4. Timed(s) => WrittenSoFar(s)'
    BY <2>2, <2>3 DEF StatInd, StatRows, WrittenSoFar
  <2>. QED  BY <2>1, <2>2, <2>4 DEF StatInd, StatRows
<1>7. StatRows'
  <2>1. \A s \in Registered : /\ regAt'[s] <= now'
                             /\ IF Timed(s)' THEN WrittenSoFar(s)' ELSE ClockRows(s)' = {}
    BY <1>2, <1>3, <1>6
  <2>. QED  BY <1>2, <1>5, <2>1 DEF StatRows
<1>. QED  BY <1>4, <1>7

-----------------------------------------------------------------------------
LEMMA StatStart ==
    ASSUME StatInit
    PROVE  StatInd
<1>. DEFINE V == {Cleared(config[s].type) : s \in Stats}
            st == [s \in Stats |-> NewStat(config[s])]
<1>1. config \in [Stats -> Configs] /\ \A s \in Stats : config[s].rate \in Nat
  BY StatisticsAssumption DEF StatInit
<1>2. st \in [Stats -> Collectors(V)]
  <2>1. ASSUME NEW s \in Stats PROVE st[s] \in Collectors(V)
    BY <1>1 DEF NewStat, Collectors
  <2>. QED  BY <2>1
<1>3. engine = NoEngine(st)
  BY DEF StatInit
<1>. HIDE DEF st, V
<1>4. engine \in Engines(V) /\ engine.clocks = <<>>
  <2>1. \A A, B : <<>> \in PartialMaps(A, B)
    BY NothingMapped
  <2>. QED  BY <1>2, <1>3, <2>1 DEF NoEngine, Engines
<1>5. StatType
  <2>1. rows \in [Stats -> Seq({0})] /\ order \in Seq(Stats) /\ regAt \in [Stats -> Nat]
    BY DEF StatInit
  <2>. QED  BY <1>1, <1>4, <2>1 DEF StatType, StatInit
<1>6. StatPhase
  BY DEF StatPhase, StatInit
<1>7. Registered = {}
  BY DEF Registered, ToSet, StatInit
<1>8. StatClocks
  BY <1>4, <1>7 DEF StatClocks, StatInit
<1>9. StatRows
  BY <1>7 DEF StatRows, StatInit
<1>. QED  BY <1>5, <1>6, <1>8, <1>9 DEF StatInd

-----------------------------------------------------------------------------
(* The steps that leave the clocks alone. *)

LEMMA AddDataKeeps ==
    ASSUME StatInd, NEW s \in Stats, NEW n \in Nat, NEW v, AddData(s, n, v)
    PROVE  StatInd'
<1>. DEFINE old == engine.stat[s]
            st == [old EXCEPT !.data = AddImpl(config[s].type, @, n, v),
                              !.current = @ + n, !.output = @ + n]
            due == old.enabled /\ OutputIsDue(s, st) /\ started
            new == IF ~old.enabled THEN old ELSE IF due THEN AfterOutput(s, st) ELSE st
            added == AddImpl(config[s].type, old.data, n, v)
            empty == Cleared(config[s].type)
<1>1. PICK V : engine \in Engines(V)
  BY DEF StatInd, StatType
<1>. DEFINE W == (V \cup {added}) \cup {empty}
<1>2. engine.stat \in [Stats -> Collectors(V)] /\ old \in Collectors(V)
  BY <1>1 DEF Engines
<1>3. st \in Collectors(V \cup {added})
  <2>1. st = [old EXCEPT !.data = added, !.current = @ + n, !.output = @ + n]
    BY <1>2 DEF Collectors
  <2>. HIDE DEF old, added, st
  <2>2. old.current + n \in Nat /\ old.output + n \in Nat
    BY <1>2 DEF Collectors
  <2>3. old \in Collectors(V \cup {added}) /\ added \in V \cup {added}
    BY <1>2 DEF Collectors
  <2>. DEFINE A == V \cup {added}
  <2>. HIDE DEF A
  <2>4. st \in Collectors(A)
    BY <2>1, <2>2, <2>3 DEF Collectors, A
  <2>. QED  BY <2>4 DEF A
<1>. HIDE DEF st, added
<1>4. AfterOutput(s, st) \in Collectors(W) /\ st \in Collectors(W)
  <2>1. AfterOutput(s, st) \in Collectors(W)
    BY <1>3, AfterOutputType
  <2>2. st \in Collectors(W)
    BY <1>3 DEF Collectors
  <2>. QED  BY <2>1, <2>2
<1>5. \A x \in Stats : engine.stat[x] \in Collectors(W)
  BY <1>2 DEF Collectors
<1>. HIDE DEF due
<1>6. new \in Collectors(W)
  BY <1>4, <1>5
<1>7. engine' = [engine EXCEPT !.stat[s] = new]
  BY DEF AddData, st, due
<1>. HIDE DEF new
<1>8. engine' \in Engines(W) /\ ClocksKept(engine, engine')
  <2>. DEFINE m == [engine.stat EXCEPT ![s] = new]
  <2>1. m \in [Stats -> Collectors(W)]
    BY <1>2, <1>5, <1>6
  <2>2. engine' = [engine EXCEPT !.stat = m]
    BY <1>1, <1>7 DEF Engines
  <2>. HIDE DEF m
  <2>. QED  BY <1>1, <2>1, <2>2 DEF Engines, ClocksKept
<1>9. \A x \in Stats : Quiet(x)
  <2>1. s \in Registered /\ rows' = IF due THEN [rows EXCEPT ![s] = Append(@, RowOf(s, st, "count"))]
                                    ELSE rows
    BY DEF AddData, st, due
  <2>2. RowOf(s, st, "count").why # "clock"
    BY DEF RowOf
  <2>. HIDE DEF old
  <2>. QED  BY <2>1, <2>2 DEF Quiet, StatInd, StatType
<1>10. \E R : rows' \in [Stats -> Seq(R)]
  <2>1. PICK R : rows \in [Stats -> Seq(R)]
    BY DEF StatInd, StatType
  <2>. DEFINE r == RowOf(s, st, "count")
              Q == R \cup {r}
  <2>2. rows' = IF due THEN [rows EXCEPT ![s] = Append(@, r)] ELSE rows
    BY DEF AddData, st, due
  <2>3. rows \in [Stats -> Seq(Q)] /\ r \in Q
    BY <2>1, SeqMonotonic
  <2>. HIDE DEF Q, r
  <2>4. rows' \in [Stats -> Seq(Q)]
    BY <2>2, <2>3
  <2>. QED  BY <2>4
<1>11. UNCHANGED <<config, order, phase, now, prio, started, regAt>> /\ phase \in {"init", "run", "finish"}
  BY DEF AddData
<1>12. StatType'
  BY <1>8, <1>10, <1>11 DEF StatInd, StatType
<1>13. StatPhase'
  <2>1. started => phase # "init"
    BY DEF StatInd, StatPhase
  <2>2. phase = "init" => rows' = rows
    BY <2>1 DEF AddData
  <2>. QED  BY <1>11, <2>2 DEF StatInd, StatPhase
<1>14. StatClocks' /\ StatRows'
  BY <1>8, <1>9, <1>11, QuietStep
<1>. QED  BY <1>12, <1>13, <1>14 DEF StatInd

(* An output that no clock has caused. *)
LEMMA OtherOutput ==
    ASSUME StatInd, NEW why, why # "clock", Output(Registered, why, engine),
           UNCHANGED <<config, order, now, prio, started, regAt>>
    PROVE  /\ \E W : engine' \in Engines(W)
           /\ \E R : rows' \in [Stats -> Seq(R)]
           /\ ClocksKept(engine, engine')
           /\ \A s \in Stats : Quiet(s)
<1>1. PICK V : engine \in Engines(V)
  BY DEF StatInd, StatType
<1>2. StatType /\ Registered \in SUBSET Stats
  BY DEF StatInd, StatType, Registered, ToSet
<1>3. /\ \E W : engine' \in Engines(W)
      /\ ClocksKept(engine, engine')
      /\ \E R : rows' \in [Stats -> Seq(R)]
      /\ \A s \in Stats : rows'[s] = IF started /\ s \in Registered
                                     THEN Append(rows[s], RowOf(s, engine.stat[s], why)) ELSE rows[s]
  BY <1>1, <1>2, OutputType
<1>4. \A s \in Stats : RowOf(s, engine.stat[s], why).why # "clock"
  BY DEF RowOf
<1>. QED  BY <1>3, <1>4 DEF Quiet

LEMMA OutputAllKeeps ==
    ASSUME StatInd, OutputAll
    PROVE  StatInd'
<1>1. /\ UNCHANGED <<config, order, phase, now, prio, started, regAt>> /\ phase = "run"
      /\ Output(Registered, "asked", engine)
  BY DEF OutputAll
<1>2. /\ \E W : engine' \in Engines(W)
      /\ \E R : rows' \in [Stats -> Seq(R)]
      /\ ClocksKept(engine, engine')
      /\ \A s \in Stats : Quiet(s)
  BY <1>1, OtherOutput
<1>3. StatClocks' /\ StatRows'
  BY <1>1, <1>2, QuietStep
<1>. QED  BY <1>1, <1>2, <1>3 DEF StatInd, StatType, StatPhase

LEMMA EndOfSimulationKeeps ==
    ASSUME StatInd, EndOfSimulation
    PROVE  StatInd'
<1>1. /\ UNCHANGED <<config, order, now, prio, started, regAt>> /\ phase = "finish" /\ phase' = "over"
      /\ Output(Registered, "end", engine)
  BY DEF EndOfSimulation
<1>2. /\ \E W : engine' \in Engines(W)
      /\ \E R : rows' \in [Stats -> Seq(R)]
      /\ ClocksKept(engine, engine')
      /\ \A s \in Stats : Quiet(s)
  BY <1>1, OtherOutput
<1>3. StatClocks' /\ StatRows'
  BY <1>1, <1>2, QuietStep
<1>. QED  BY <1>1, <1>2, <1>3 DEF StatInd, StatType, StatPhase

LEMMA OneShotKeeps ==
    ASSUME StatInd, OneShotExecute
    PROVE  StatInd'
<1>. DEFINE c == engine.oneshots[now].handlers
            e == FoldLeft(Handle, engine, c)
            o == Callback(e.oneshots)
<1>1. PICK V : engine \in Engines(V)
  BY DEF StatInd, StatType
<1>2. c \in Seq({"start", "stop"})
  <2>1. engine.oneshots \in PartialMaps(Nat, Shots) /\ now \in DOMAIN engine.oneshots
    BY <1>1 DEF Engines, OneShotExecute, OneShotDue
  <2>2. engine.oneshots[now] \in Shots
    BY <2>1 DEF PartialMaps
  <2>. QED  BY <2>2 DEF Shots
<1>3. e \in Engines(V) /\ ClocksKept(engine, e)
  <2>. HIDE DEF c
  <2>. QED  BY <1>1, <1>2, HandleFold
<1>4. engine' = [e EXCEPT !.oneshots = o]
  BY DEF OneShotExecute
<1>. HIDE DEF e
<1>5. o \in PartialMaps(Nat, Shots)
  <2>1. e.oneshots \in PartialMaps(Nat, Shots)
    BY <1>3 DEF Engines
  <2>. DEFINE d == Drop(e.oneshots, now)
  <2>2. d \in PartialMaps(Nat, Shots)
    BY <2>1, DropType
  <2>. HIDE DEF d
  <2>3. ScheduleNext(d) \in PartialMaps(Nat, Shots)
    BY <2>2, NextType
  <2>. QED  BY <2>3 DEF Callback, d
<1>. HIDE DEF o
<1>6. engine' \in Engines(V) /\ ClocksKept(engine, engine')
  BY <1>3, <1>4, <1>5 DEF Engines, ClocksKept
<1>7. UNCHANGED <<config, order, phase, now, prio, started, rows, regAt>>
  BY DEF OneShotExecute
<1>8. StatClocks' /\ StatRows'
  <2>1. \A s \in Stats : Quiet(s)
    BY <1>7 DEF Quiet
  <2>. QED  BY <1>6, <1>7, <2>1, QuietStep
<1>. QED  BY <1>6, <1>7, <1>8 DEF StatInd, StatType, StatPhase

LEMMA StutterKeeps ==
    ASSUME StatInd, UNCHANGED statVars
    PROVE  StatInd'
<1>1. UNCHANGED <<config, order, engine, phase, now, prio, started, rows, regAt>>
  BY DEF statVars
<1>2. StatClocks' /\ StatRows'
  <2>1. (\A s \in Stats : Quiet(s)) /\ ClocksKept(engine, engine')
    BY <1>1 DEF Quiet, ClocksKept
  <2>. QED  BY <1>1, <2>1, QuietStep
<1>. QED  BY <1>1, <1>2 DEF StatInd, StatType, StatPhase

LEMMA EndRunKeeps ==
    ASSUME StatInd, EndRun
    PROVE  StatInd'
<1>1. /\ UNCHANGED <<config, order, engine, now, prio, started, rows, regAt>>
      /\ phase = "run" /\ prio \in {SYNC, EXIT} /\ phase' = "finish"
  BY DEF EndRun
<1>2. StatClocks' /\ StatRows'
  <2>1. (\A s \in Stats : Quiet(s)) /\ ClocksKept(engine, engine')
    BY <1>1 DEF Quiet, ClocksKept
  <2>. QED  BY <1>1, <2>1, QuietStep
<1>. QED  BY <1>1, <1>2 DEF StatInd, StatType, StatPhase

-----------------------------------------------------------------------------
(* The steps of the clocks. *)

LEMMA RatesAreNat ==
    ASSUME StatType, NEW s \in Stats
    PROVE  config[s].rate \in Nat /\ config[s].startat \in Nat /\ config[s].stopat \in Nat
           /\ GroupRate \in Nat /\ RateOf(s) \in Nat
BY StatisticsAssumption DEF StatType, RateOf

LEMMA RegisterKeeps ==
    ASSUME StatInd, NEW s \in Stats, Register(s)
    PROVE  StatInd'
<1>. USE DEF SYNC, EVENT, STATISTICCLOCK, EXIT
<1>1. PICK V : engine \in Engines(V)
  BY DEF StatInd, StatType
<1>2. /\ UNCHANGED <<config, phase, now, prio, started, rows>> /\ s \notin Registered
      /\ order' = Append(order, s) /\ regAt' = [regAt EXCEPT ![s] = now]
      /\ now \in Nat /\ prio \in Nat /\ prio < STATISTICCLOCK
      /\ phase \in {"build", "run"} /\ (config[s].group => phase = "build" /\ now = 0)
  BY DEF Register, StatInd, StatType, StatPhase
<1>3. /\ engine' \in Engines(V) /\ ClocksAdded(engine, engine')
      /\ Timed(s) /\ ~config[s].group => RateOf(s) \in DOMAIN engine'.clocks
  <2>. DEFINE t == config[s].startat
              r == config[s].stopat
  <2>1. engine' = Join(engine, s, t, r) /\ t \in Nat /\ r \in Nat /\ config[s].rate \in Nat
    BY RatesAreNat DEF Register, StatInd
  <2>. HIDE DEF t, r
  <2>. QED  BY <1>1, <1>2, <2>1, JoinType
<1>4. Registered' = Registered \cup {s} /\ Registered \subseteq Stats /\ order' \in Seq(Stats)
  <2>1. order \in Seq(Stats)
    BY DEF StatInd, StatType
  <2>2. order' \in Seq(Stats) /\ DOMAIN order' = DOMAIN order \cup {Len(order) + 1}
        /\ order'[Len(order) + 1] = s /\ \A i \in DOMAIN order : order'[i] = order[i]
    BY <1>2, <2>1, AppendRow
  <2>. QED  BY <2>1, <2>2 DEF Registered, ToSet
<1>5. engine.clocks \in PartialMaps(Nat \ {0}, Nat) /\ engine'.clocks \in PartialMaps(Nat \ {0}, Nat)
  BY <1>1, <1>3 DEF Engines
<1>6. \A f \in DOMAIN engine'.clocks : f \in Nat \ {0}
  BY <1>5 DEF PartialMaps
<1>7. \A f \in DOMAIN engine'.clocks : TickKept(f, engine'.clocks[f])
  <2>1. ASSUME NEW f \in DOMAIN engine'.clocks, f \notin DOMAIN engine.clocks
        PROVE  TickKept(f, engine'.clocks[f])
    <3>1. engine'.clocks[f] = TickFrom(f)
      BY <1>2, <1>3, <1>6, <2>1, ScheduleTick DEF ClocksAdded
    <3>. QED  BY <1>2, <3>1 DEF TickKept
  <2>2. ASSUME NEW f \in DOMAIN engine.clocks
        PROVE  TickKept(f, engine'.clocks[f])
    BY <1>3 DEF ClocksAdded, StatInd, StatClocks
  <2>. QED  BY <2>1, <2>2
<1>9. \A x \in Stats : Timed(x)' = Timed(x) /\ RateOf(x)' = RateOf(x)
  BY <1>2 DEF Timed, RateOf
<1>10. StatClocks'
  <2>1. (\A f \in DOMAIN engine.clocks : TickKept(f, engine.clocks[f]))'
    BY <1>7, <1>2 DEF TickKept, TickFrom, TickAfter
  <2>2. (GroupRate # 0 /\ phase # "build" => TickKept(GroupRate, engine.groupClock))'
    BY <1>2, <1>3 DEF ClocksAdded, StatInd, StatClocks, TickKept, TickFrom, TickAfter
  <2>3. (\A x \in Registered : Timed(x) /\ ~config[x].group => RateOf(x) \in DOMAIN engine.clocks)'
    BY <1>2, <1>3, <1>4, <1>9 DEF ClocksAdded, StatInd, StatClocks
  <2>. QED  BY <2>1, <2>2, <2>3 DEF StatClocks
<1>11. \A x \in Stats : ClockRows(x)' = ClockRows(x) /\ Written(x)' = Written(x) /\ OnceEach(x)' = OnceEach(x)
  BY <1>2 DEF ClockRows, Written, OnceEach
<1>12. ASSUME NEW x \in Registered
       PROVE  /\ regAt'[x] <= now'
              /\ IF Timed(x) THEN WrittenSoFar(x)' ELSE ClockRows(x)' = {}
  <2>1. x \in Stats /\ x # s /\ regAt'[x] = regAt[x]
    BY <1>2, <1>4 DEF StatInd, StatType
  <2>2. Timed(x) => TickOf(x)' = TickOf(x)
    <3>1. Timed(x) /\ ~config[x].group => RateOf(x) \in DOMAIN engine.clocks
      BY DEF StatInd, StatClocks
    <3>. QED  BY <1>2, <1>3, <1>9, <2>1, <3>1 DEF TickOf, ClocksAdded
  <2>3. Due(x)' = Due(x)
    BY <1>2, <2>1 DEF Due, RateOf
  <2>. QED  BY <1>2, <1>11, <2>1, <2>2, <2>3 DEF StatInd, StatRows, WrittenSoFar
<1>13. /\ regAt'[s] <= now'
       /\ IF Timed(s) THEN WrittenSoFar(s)' ELSE ClockRows(s)' = {}
  <2>1. regAt'[s] = now /\ rows[s] = <<>>
    BY <1>2 DEF StatInd, StatType, StatRows
  <2>2. ClockRows(s)' = {} /\ Written(s)' = {} /\ OnceEach(s)'
    BY <1>2, <2>1 DEF ClockRows, Written, OnceEach
  <2>3. ASSUME NEW t \in Due(s)' PROVE t = now /\ now # 0 /\ now % RateOf(s) = 0
    BY <1>2, <1>9, <2>1, <2>3 DEF Due
  <2>4. ASSUME Timed(s), now \in Due(s)' PROVE TickOf(s)' = now
    <3>1. ~config[s].group
      BY <1>2, <2>3, <2>4
    <3>2. RateOf(s) \in DOMAIN engine'.clocks
      BY <1>3, <2>4, <3>1
    <3>3. engine'.clocks[RateOf(s)] = TickFrom(RateOf(s))
      BY <1>2, <1>7, <3>2 DEF TickKept
    <3>. QED  BY <1>2, <1>9, <2>3, <2>4, <3>1, <3>3 DEF TickOf, TickFrom
  <2>. QED  BY <1>2, <2>1, <2>2, <2>3, <2>4 DEF WrittenSoFar
<1>14. StatRows'
  <2>1. \A x \in Registered' : /\ regAt'[x] <= now'
                              /\ IF Timed(x)' THEN WrittenSoFar(x)' ELSE ClockRows(x)' = {}
    BY <1>4, <1>9, <1>12, <1>13
  <2>. QED  BY <1>2, <1>4, <2>1 DEF StatRows, StatInd
<1>15. StatType'
  BY <1>2, <1>3, <1>4 DEF StatInd, StatType
<1>16. StatPhase'
  BY <1>2 DEF StatInd, StatPhase
<1>. QED  BY <1>10, <1>14, <1>15, <1>16 DEF StatInd

(* Rows, registrations and what is due stay as they are. *)
LEMMA SameRows ==
    ASSUME StatInd, UNCHANGED <<config, order, rows, regAt>>
    PROVE  /\ Registered' = Registered /\ Registered \subseteq Stats
           /\ \A s \in Stats : /\ Timed(s)' = Timed(s) /\ RateOf(s)' = RateOf(s)
                               /\ ClockRows(s)' = ClockRows(s) /\ Written(s)' = Written(s)
                               /\ OnceEach(s)' = OnceEach(s)
BY DEF StatInd, StatType, Registered, ToSet, Timed, RateOf, ClockRows, Written, OnceEach

(* Clocks and their use by statistics agree in the next state. *)
LEMMA SameClocks ==
    ASSUME StatInd, UNCHANGED <<config, order, rows, regAt, now>>,
           \A s \in Registered : Timed(s) /\ now # 0 => TickOf(s)' = TickOf(s)
    PROVE  StatRows'
<1>1. /\ Registered' = Registered /\ Registered \subseteq Stats
      /\ \A s \in Stats : /\ Timed(s)' = Timed(s) /\ RateOf(s)' = RateOf(s)
                          /\ ClockRows(s)' = ClockRows(s) /\ Written(s)' = Written(s)
                          /\ OnceEach(s)' = OnceEach(s)
  BY SameRows
<1>2. ASSUME NEW s \in Registered, Timed(s) PROVE WrittenSoFar(s)'
  <2>1. Due(s)' = Due(s) /\ WrittenSoFar(s) /\ s \in Stats
    BY <1>1, <1>2 DEF Due, RateOf, StatInd, StatRows
  <2>2. now \in Due(s) => now # 0
    BY DEF Due
  <2>. QED  BY <1>1, <1>2, <2>1, <2>2 DEF WrittenSoFar
<1>3. (\A s \in Registered : /\ regAt[s] <= now
                             /\ IF Timed(s) THEN WrittenSoFar(s) ELSE ClockRows(s) = {})'
  BY <1>1, <1>2 DEF StatInd, StatRows
<1>. QED  BY <1>1, <1>3 DEF StatInd, StatRows

LEMMA WireUpKeeps ==
    ASSUME StatInd, WireUpFinished
    PROVE  StatInd'
<1>. USE DEF SYNC, EVENT, STATISTICCLOCK, EXIT
<1>1. PICK V : engine \in Engines(V)
  BY DEF StatInd, StatType
<1>2. /\ UNCHANGED <<config, order, now, prio, started, rows, regAt>> /\ phase = "build" /\ phase' = "init"
      /\ now = 0 /\ prio = 0 /\ GroupRate \in Nat
  BY StatisticsAssumption DEF WireUpFinished, StatInd, StatPhase
<1>3. /\ engine' \in Engines(V) /\ engine'.clocks = engine.clocks
      /\ GroupRate # 0 => engine'.groupClock = TickFrom(GroupRate)
  <2>1. engine' = Finalize(engine)
    BY DEF WireUpFinished
  <2>2. CASE GroupRate = 0
    BY <1>1, <2>1, <2>2 DEF Finalize
  <2>3. CASE GroupRate # 0
    <3>1. FirstTick(GroupRate) \in Nat /\ FirstTick(GroupRate) = TickFrom(GroupRate)
      BY <1>2, <2>3, ScheduleTick
    <3>. QED  BY <1>1, <2>1, <2>3, <3>1 DEF Finalize, Engines
  <2>. QED  BY <2>2, <2>3
<1>4. StatClocks'
  <2>1. (\A f \in DOMAIN engine.clocks : TickKept(f, engine.clocks[f]))'
    BY <1>2, <1>3 DEF StatInd, StatClocks, TickKept, TickFrom, TickAfter
  <2>2. (GroupRate # 0 /\ phase # "build" => TickKept(GroupRate, engine.groupClock))'
    BY <1>2, <1>3 DEF TickKept, TickFrom, TickAfter
  <2>3. (\A s \in Registered : Timed(s) /\ ~config[s].group => RateOf(s) \in DOMAIN engine.clocks)'
    BY <1>2, <1>3 DEF StatInd, StatClocks, Registered, Timed, RateOf
  <2>. QED  BY <2>1, <2>2, <2>3 DEF StatClocks
<1>5. StatRows'
  BY <1>2, SameClocks
<1>. QED  BY <1>2, <1>3, <1>4, <1>5 DEF StatInd, StatType, StatPhase

LEMMA PrepareKeeps ==
    ASSUME StatInd, PrepareForRun
    PROVE  StatInd'
<1>. USE DEF SYNC, EVENT, STATISTICCLOCK, EXIT
<1>1. /\ UNCHANGED <<config, order, engine, now, rows, regAt>> /\ phase = "init" /\ phase' = "run"
      /\ now = 0 /\ prio = 0 /\ prio' = EVENT /\ started' = TRUE
  BY DEF PrepareForRun, StatInd, StatPhase
<1>2. StatClocks'
  <2>1. (\A f \in DOMAIN engine.clocks : TickKept(f, engine.clocks[f]))'
    BY <1>1 DEF StatInd, StatClocks, TickKept, TickFrom, TickAfter
  <2>2. (GroupRate # 0 /\ phase # "build" => TickKept(GroupRate, engine.groupClock))'
    BY <1>1 DEF StatInd, StatClocks, TickKept, TickFrom, TickAfter
  <2>3. (\A s \in Registered : Timed(s) /\ ~config[s].group => RateOf(s) \in DOMAIN engine.clocks)'
    BY <1>1 DEF StatInd, StatClocks, Registered, Timed, RateOf
  <2>. QED  BY <2>1, <2>2, <2>3 DEF StatClocks
<1>3. StatRows'
  BY <1>1, SameClocks
<1>. QED  BY <1>1, <1>2, <1>3 DEF StatInd, StatType, StatPhase

LEMMA RestartKeepsTicks ==
    ASSUME StatInd, Restart
    PROVE  StatInd'
<1>. USE DEF SYNC, EVENT, STATISTICCLOCK, EXIT
<1>1. PICK V : engine \in Engines(V)
  BY DEF StatInd, StatType
<1>2. /\ UNCHANGED <<config, order, phase, now, prio, started, rows, regAt>>
      /\ phase = "run" /\ prio = SYNC /\ now \in Nat /\ order \in Seq(Stats) /\ GroupRate \in Nat
      /\ \A s \in Stats : config[s].rate \in Nat
  BY RatesAreNat, StatisticsAssumption DEF Restart, StatInd, StatType
<1>. DEFINE e == NoEngine(engine.stat)
            u == FoldLeft(Rejoin, e, order)
<1>3. e \in Engines(V) /\ e.clocks = <<>>
  <2>1. engine.stat \in [Stats -> Collectors(V)]
    BY <1>1 DEF Engines
  <2>2. \A A, B : <<>> \in PartialMaps(A, B)
    BY NothingMapped
  <2>. QED  BY <2>1, <2>2 DEF NoEngine, Engines
<1>. HIDE DEF e
<1>4. u \in Engines(V) /\ JustSet(u) /\ HasClocks(u, DOMAIN order)
  BY <1>1, <1>2, <1>3, RejoinFold
<1>5. engine' = Finalize(u)
  BY DEF Restart, e
<1>. HIDE DEF u
<1>6. /\ engine' \in Engines(V) /\ engine'.clocks = u.clocks
      /\ GroupRate # 0 => engine'.groupClock = TickFrom(GroupRate)
  <2>1. CASE GroupRate = 0
    BY <1>4, <1>5, <2>1 DEF Finalize
  <2>2. CASE GroupRate # 0
    <3>1. FirstTick(GroupRate) \in Nat /\ FirstTick(GroupRate) = TickFrom(GroupRate)
      BY <1>2, <2>2, ScheduleTick
    <3>. QED  BY <1>4, <1>5, <2>2, <3>1 DEF Finalize, Engines
  <2>. QED  BY <2>1, <2>2
<1>7. \A f \in DOMAIN engine'.clocks : f \in Nat \ {0} /\ engine'.clocks[f] = TickFrom(f)
  <2>1. \A f \in DOMAIN u.clocks : f \in Nat \ {0}
    BY <1>4 DEF Engines, PartialMaps
  <2>. QED  BY <1>2, <1>4, <1>6, <2>1, ScheduleTick DEF JustSet
<1>8. \A s \in Registered : Timed(s) /\ ~config[s].group => RateOf(s) \in DOMAIN engine'.clocks
  BY <1>4, <1>6 DEF HasClocks, Registered, ToSet
<1>9. StatClocks'
  <2>1. (\A f \in DOMAIN engine.clocks : TickKept(f, engine.clocks[f]))'
    BY <1>2, <1>7 DEF TickKept, TickFrom, TickAfter
  <2>2. (GroupRate # 0 /\ phase # "build" => TickKept(GroupRate, engine.groupClock))'
    BY <1>2, <1>6 DEF TickKept, TickFrom, TickAfter
  <2>3. (\A s \in Registered : Timed(s) /\ ~config[s].group => RateOf(s) \in DOMAIN engine.clocks)'
    BY <1>2, <1>8 DEF Registered, Timed, RateOf
  <2>. QED  BY <2>1, <2>2, <2>3 DEF StatClocks
<1>10. ASSUME NEW s \in Registered, Timed(s) PROVE TickOf(s)' = TickOf(s)
  <2>1. RateOf(s)' = RateOf(s) /\ RateOf(s) # 0
    BY <1>2, <1>10 DEF RateOf, Timed
  <2>2. CASE config[s].group
    BY <1>2, <1>6, <2>1, <2>2 DEF TickOf, RateOf, StatInd, StatClocks, TickKept
  <2>3. CASE ~config[s].group
    <3>1. RateOf(s) \in DOMAIN engine.clocks /\ RateOf(s) \in DOMAIN engine'.clocks
      BY <1>8, <1>10, <2>3 DEF StatInd, StatClocks
    <3>2. engine.clocks[RateOf(s)] = TickFrom(RateOf(s))
      BY <1>2, <3>1 DEF StatInd, StatClocks, TickKept
    <3>. QED  BY <1>2, <1>7, <2>1, <2>3, <3>1, <3>2 DEF TickOf
  <2>. QED  BY <2>2, <2>3
<1>11. StatRows'
  BY <1>2, <1>10, SameClocks
<1>. QED  BY <1>2, <1>6, <1>9, <1>11 DEF StatInd, StatType, StatPhase

(* A clock of period f fires and the statistics S are written. *)
LEMMA FiringRows ==
    ASSUME StatInd, UNCHANGED <<config, order, now, regAt>>, NEW f \in Nat \ {0}, NEW S \in SUBSET Registered,
           now # 0, now % f = 0,
           \A s \in Registered : Timed(s) => IF s \in S THEN RateOf(s) = f /\ TickOf(s) = now /\ TickOf(s)' = now + f
                                             ELSE TickOf(s)' = TickOf(s),
           \A s \in S : Timed(s) /\ \E r : r.why = "clock" /\ r.at = now /\ rows'[s] = Append(rows[s], r),
           \A s \in Stats \ S : rows'[s] = rows[s]
    PROVE  StatRows'
<1>1. /\ Registered' = Registered /\ Registered \subseteq Stats /\ now \in Nat
      /\ \A s \in Stats : Timed(s)' = Timed(s) /\ RateOf(s)' = RateOf(s) /\ Due(s)' = Due(s)
  BY DEF StatInd, StatType, Registered, ToSet, Timed, RateOf, Due
<1>2. ASSUME NEW s \in Registered, s \notin S
      PROVE  IF Timed(s) THEN WrittenSoFar(s)' ELSE ClockRows(s)' = {}
  <2>1. s \in Stats /\ rows'[s] = rows[s]
    BY <1>1, <1>2
  <2>2. ClockRows(s)' = ClockRows(s) /\ Written(s)' = Written(s) /\ OnceEach(s)' = OnceEach(s)
    BY <2>1 DEF ClockRows, Written, OnceEach
  <2>. QED  BY <1>1, <1>2, <2>1, <2>2 DEF StatInd, StatRows, WrittenSoFar
<1>3. ASSUME NEW s \in S PROVE Timed(s) /\ WrittenSoFar(s)'
  <2>1. PICK r : r.why = "clock" /\ r.at = now /\ rows'[s] = Append(rows[s], r)
    OBVIOUS
  <2>2. PICK R : rows \in [Stats -> Seq(R)]
    BY DEF StatInd, StatType
  <2>. DEFINE Q == R \cup {r}
              n == Len(rows[s]) + 1
  <2>3. s \in Registered /\ s \in Stats /\ rows[s] \in Seq(Q) /\ r \in Q
    BY <1>1, <2>2, SeqMonotonic
  <2>. HIDE DEF Q
  <2>4. /\ n \notin DOMAIN rows[s] /\ DOMAIN rows'[s] = DOMAIN rows[s] \cup {n} /\ rows'[s][n] = r
        /\ \A i \in DOMAIN rows[s] : rows'[s][i] = rows[s][i]
    BY <2>1, <2>3, AppendRow
  <2>. HIDE DEF n
  <2>5. ClockRows(s)' = ClockRows(s) \cup {n} /\ n \notin ClockRows(s)
    BY <2>1, <2>4 DEF ClockRows
  <2>6. rows'[s][n].at = now /\ \A i \in ClockRows(s) : rows'[s][i].at = rows[s][i].at
    BY <2>1, <2>4 DEF ClockRows
  <2>7. Written(s)' = Written(s) \cup {now}
    BY <2>5, <2>6 DEF Written
  <2>8. Timed(s) /\ WrittenSoFar(s) /\ RateOf(s) = f /\ TickOf(s) = now /\ TickOf(s)' = now + f
    BY <2>3 DEF StatInd, StatRows
  <2>9. now \in Due(s)
    BY <1>1, <2>3, <2>8 DEF Due, StatInd, StatRows, StatType
  <2>10. now \notin Written(s)
    BY <2>8, <2>9 DEF WrittenSoFar
  <2>11. OnceEach(s)'
    <3>1. \A i \in ClockRows(s) : rows[s][i].at # now
      BY <2>10 DEF Written
    <3>. QED  BY <2>5, <2>6, <2>8, <3>1 DEF OnceEach, WrittenSoFar
  <2>12. /\ Written(s)' \subseteq Due(s)'
         /\ \A t \in Due(s)' : t < now => t \in Written(s)'
    BY <1>1, <2>3, <2>7, <2>8, <2>9 DEF WrittenSoFar
  <2>13. now \in Written(s)' /\ TickOf(s)' # now
    BY <1>1, <2>7, <2>8
  <2>. QED  BY <2>8, <2>11, <2>12, <2>13 DEF WrittenSoFar
<1>4. (\A s \in Registered : /\ regAt[s] <= now
                             /\ IF Timed(s) THEN WrittenSoFar(s) ELSE ClockRows(s) = {})'
  BY <1>1, <1>2, <1>3 DEF StatInd, StatRows
<1>. QED  BY <1>1, <1>4 DEF StatInd, StatRows

(* A clock that fires now is not due later today. *)
LEMMA Fires ==
    ASSUME now \in Nat, NEW f \in Nat \ {0}, prio = STATISTICCLOCK, TickKept(f, now)
    PROVE  now # 0 /\ now % f = 0 /\ now + f = TickAfter(f) /\ now + f \in Nat
<1>1. TickAfter(f) > now /\ now % f \in 0 .. (f - 1) /\ TickFrom(f) \in {now, TickAfter(f)}
  BY DivMod DEF TickAfter, TickFrom
<1>2. now = TickFrom(f) /\ TickFrom(f) # TickAfter(f)
  BY <1>1 DEF TickKept
<1>. QED  BY <1>1, <1>2 DEF TickFrom, TickAfter

LEMMA ClockEventKeeps ==
    ASSUME StatInd, NEW f \in DOMAIN engine.clocks, ClockEvent(f)
    PROVE  StatInd'
<1>. USE DEF SYNC, EVENT, STATISTICCLOCK, EXIT
<1>. DEFINE S == {s \in Registered : config[s].mode = "time" /\ config[s].rate = f /\ ~config[s].group}
            c == [engine.clocks EXCEPT ![f] = now + f]
            e == [engine EXCEPT !.clocks = c]
<1>1. PICK V : engine \in Engines(V)
  BY DEF StatInd, StatType
<1>2. /\ UNCHANGED <<config, order, phase, now, prio, started, regAt>>
      /\ phase = "run" /\ prio = STATISTICCLOCK /\ now \in Nat /\ started
      /\ engine.clocks[f] = now /\ Output(S, "clock", e)
  <2>1. Output(S, "clock", [engine EXCEPT !.clocks[f] = now + f])
    BY DEF ClockEvent
  <2>2. [engine EXCEPT !.clocks[f] = now + f] = e
    BY <1>1 DEF Engines
  <2>. HIDE DEF e, S
  <2>. QED  BY <2>1, <2>2 DEF ClockEvent, StatInd, StatType, StatPhase
<1>3. f \in Nat \ {0} /\ now # 0 /\ now % f = 0 /\ now + f = TickAfter(f) /\ now + f \in Nat
  <2>1. f \in Nat \ {0}
    BY <1>1 DEF Engines, PartialMaps
  <2>2. TickKept(f, now)
    BY <1>2 DEF StatInd, StatClocks
  <2>. QED  BY <1>2, <2>1, <2>2, Fires
<1>4. c \in PartialMaps(Nat \ {0}, Nat) /\ DOMAIN c = DOMAIN engine.clocks
  BY <1>1, <1>3 DEF Engines, PartialMaps
<1>5. e \in Engines(V) /\ e.clocks = c /\ e.groupClock = engine.groupClock /\ e.stat = engine.stat
  <2>. HIDE DEF c
  <2>. QED  BY <1>1, <1>4 DEF Engines
<1>6. StatType /\ S \in SUBSET Stats /\ S \in SUBSET Registered
  BY DEF StatInd, StatType, Registered, ToSet
<1>. HIDE DEF e
<1>7. /\ \E W : engine' \in Engines(W)
      /\ ClocksKept(e, engine')
      /\ \E R : rows' \in [Stats -> Seq(R)]
      /\ \A s \in Stats : rows'[s] = IF started /\ s \in S
                                     THEN Append(rows[s], RowOf(s, e.stat[s], "clock")) ELSE rows[s]
  <2>. HIDE DEF S
  <2>. QED  BY <1>2, <1>5, <1>6, OutputType
<1>8. engine'.clocks = c /\ engine'.groupClock = engine.groupClock
  BY <1>5, <1>7 DEF ClocksKept
<1>9. StatClocks'
  <2>1. (\A g \in DOMAIN engine.clocks : TickKept(g, engine.clocks[g]))'
    BY <1>2, <1>3, <1>4, <1>8 DEF StatInd, StatClocks, TickKept, TickFrom, TickAfter
  <2>2. (GroupRate # 0 /\ phase # "build" => TickKept(GroupRate, engine.groupClock))'
    BY <1>2, <1>8 DEF StatInd, StatClocks, TickKept, TickFrom, TickAfter
  <2>3. (\A s \in Registered : Timed(s) /\ ~config[s].group => RateOf(s) \in DOMAIN engine.clocks)'
    BY <1>2, <1>4, <1>8 DEF StatInd, StatClocks, Registered, Timed, RateOf
  <2>. QED  BY <2>1, <2>2, <2>3 DEF StatClocks
<1>10. StatRows'
  <2>1. ASSUME NEW s \in Registered, Timed(s)
        PROVE  IF s \in S THEN RateOf(s) = f /\ TickOf(s) = now /\ TickOf(s)' = now + f
               ELSE TickOf(s)' = TickOf(s)
    <3>1. ~config[s].group => RateOf(s) \in DOMAIN engine.clocks
      BY <2>1 DEF StatInd, StatClocks
    <3>. QED  BY <1>2, <1>4, <1>8, <2>1, <3>1 DEF TickOf, RateOf, Timed
  <2>2. ASSUME NEW s \in S
        PROVE  Timed(s) /\ \E r : r.why = "clock" /\ r.at = now /\ rows'[s] = Append(rows[s], r)
    <3>1. Timed(s)
      BY <1>3 DEF Timed, RateOf
    <3>2. RowOf(s, e.stat[s], "clock").why = "clock" /\ RowOf(s, e.stat[s], "clock").at = now
      BY DEF RowOf
    <3>. QED  BY <1>2, <1>6, <1>7, <3>1, <3>2
  <2>3. \A s \in Stats \ S : rows'[s] = rows[s]
    BY <1>7
  <2>. HIDE DEF S
  <2>. QED  BY <1>2, <1>3, <1>6, <2>1, <2>2, <2>3, FiringRows
<1>. QED  BY <1>2, <1>7, <1>9, <1>10 DEF StatInd, StatType, StatPhase

LEMMA GroupClockKeeps ==
    ASSUME StatInd, GroupClockEvent
    PROVE  StatInd'
<1>. USE DEF SYNC, EVENT, STATISTICCLOCK, EXIT
<1>. DEFINE S == {s \in Registered : config[s].group}
            e == [engine EXCEPT !.groupClock = now + GroupRate]
<1>1. PICK V : engine \in Engines(V)
  BY DEF StatInd, StatType
<1>2. /\ UNCHANGED <<config, order, phase, now, prio, started, regAt>>
      /\ phase = "run" /\ prio = STATISTICCLOCK /\ now \in Nat /\ started
      /\ engine.groupClock = now /\ GroupRate # 0 /\ Output(S, "clock", e)
  <2>1. Output(S, "clock", e)
    BY DEF GroupClockEvent
  <2>. HIDE DEF e, S
  <2>. QED  BY <2>1 DEF GroupClockEvent, StatInd, StatType, StatPhase
<1>3. GroupRate \in Nat \ {0} /\ now # 0 /\ now % GroupRate = 0 /\ now + GroupRate = TickAfter(GroupRate)
      /\ now + GroupRate \in Nat
  <2>1. GroupRate \in Nat \ {0}
    BY <1>2, StatisticsAssumption
  <2>2. TickKept(GroupRate, now)
    BY <1>2 DEF StatInd, StatClocks
  <2>. QED  BY <1>2, <2>1, <2>2, Fires
<1>4. e \in Engines(V) /\ e.clocks = engine.clocks /\ e.groupClock = now + GroupRate
  BY <1>1, <1>3 DEF Engines
<1>5. StatType /\ S \in SUBSET Stats /\ S \in SUBSET Registered
  BY DEF StatInd, StatType, Registered, ToSet
<1>. HIDE DEF e
<1>6. /\ \E W : engine' \in Engines(W)
      /\ ClocksKept(e, engine')
      /\ \E R : rows' \in [Stats -> Seq(R)]
      /\ \A s \in Stats : rows'[s] = IF started /\ s \in S
                                     THEN Append(rows[s], RowOf(s, e.stat[s], "clock")) ELSE rows[s]
  <2>. HIDE DEF S
  <2>. QED  BY <1>2, <1>4, <1>5, OutputType
<1>7. engine'.clocks = engine.clocks /\ engine'.groupClock = now + GroupRate
  BY <1>4, <1>6 DEF ClocksKept
<1>8. StatClocks'
  <2>1. (\A f \in DOMAIN engine.clocks : TickKept(f, engine.clocks[f]))'
    BY <1>2, <1>7 DEF StatInd, StatClocks, TickKept, TickFrom, TickAfter
  <2>2. (GroupRate # 0 /\ phase # "build" => TickKept(GroupRate, engine.groupClock))'
    BY <1>2, <1>3, <1>7 DEF TickKept, TickFrom, TickAfter
  <2>3. (\A s \in Registered : Timed(s) /\ ~config[s].group => RateOf(s) \in DOMAIN engine.clocks)'
    BY <1>2, <1>7 DEF StatInd, StatClocks, Registered, Timed, RateOf
  <2>. QED  BY <2>1, <2>2, <2>3 DEF StatClocks
<1>9. StatRows'
  <2>1. ASSUME NEW s \in Registered, Timed(s)
        PROVE  IF s \in S THEN RateOf(s) = GroupRate /\ TickOf(s) = now /\ TickOf(s)' = now + GroupRate
               ELSE TickOf(s)' = TickOf(s)
    BY <1>2, <1>7 DEF TickOf, RateOf
  <2>2. ASSUME NEW s \in S
        PROVE  Timed(s) /\ \E r : r.why = "clock" /\ r.at = now /\ rows'[s] = Append(rows[s], r)
    <3>1. Timed(s)
      BY <1>2, <1>5 DEF Timed, RateOf, StatInd, StatPhase
    <3>2. RowOf(s, e.stat[s], "clock").why = "clock" /\ RowOf(s, e.stat[s], "clock").at = now
      BY DEF RowOf
    <3>. QED  BY <1>2, <1>5, <1>6, <3>1, <3>2
  <2>3. \A s \in Stats \ S : rows'[s] = rows[s]
    BY <1>6
  <2>. HIDE DEF S
  <2>. QED  BY <1>2, <1>3, <1>5, <2>1, <2>2, <2>3, FiringRows
<1>. QED  BY <1>2, <1>6, <1>8, <1>9 DEF StatInd, StatType, StatPhase

(* The tick after now is the first one from the next time on. *)
LEMMA NextTime ==
    ASSUME now \in Nat, now' = now + 1, NEW f \in Nat \ {0}
    PROVE  TickAfter(f) = TickFrom(f)'
<1>1. now % f \in 0 .. (f - 1) /\ (now + 1) % f = IF now % f = f - 1 THEN 0 ELSE (now % f) + 1
  BY DivMod
<1>2. TickFrom(f)' = IF now + 1 # 0 /\ (now + 1) % f = 0 THEN now + 1 ELSE now + 1 - ((now + 1) % f) + f
  BY DEF TickFrom
<1>. QED  BY <1>1, <1>2 DEF TickAfter

LEMMA AdvanceKeeps ==
    ASSUME StatInd, Advance
    PROVE  StatInd'
<1>. USE DEF SYNC, EVENT, STATISTICCLOCK, EXIT
<1>1. PICK V : engine \in Engines(V)
  BY DEF StatInd, StatType
<1>2. /\ UNCHANGED <<config, order, engine, phase, started, rows, regAt>> /\ phase = "run"
      /\ now \in Nat /\ GroupRate \in Nat
      /\ prio \in {SYNC, EVENT, STATISTICCLOCK, EXIT} /\ prio' \in {SYNC, EVENT, STATISTICCLOCK, EXIT}
  BY StatisticsAssumption DEF Advance, StatInd, StatType
<1>3. /\ \A f \in DOMAIN engine.clocks : f \in Nat \ {0} /\ TickKept(f, engine.clocks[f])
      /\ GroupRate # 0 => GroupRate \in Nat \ {0} /\ TickKept(GroupRate, engine.groupClock)
  <2>1. \A f \in DOMAIN engine.clocks : f \in Nat \ {0}
    BY <1>1 DEF Engines, PartialMaps
  <2>. QED  BY <1>2, <2>1 DEF StatInd, StatClocks
<1>4. ASSUME NEW f \in Nat \ {0}, NEW c, TickKept(f, c), prio = STATISTICCLOCK => c # now
      PROVE  /\ prio' < STATISTICCLOCK => c = TickFrom(f)'
             /\ prio' = EXIT => c = TickAfter(f)'
             /\ c \in {TickFrom(f)', TickAfter(f)'}
  <2>1. CASE prio = SYNC \/ prio = EVENT
    <3>1. c = TickFrom(f) /\ now' = now /\ prio' # EXIT
      BY <1>4, <2>1 DEF Advance, TickKept
    <3>. QED  BY <3>1 DEF TickFrom
  <2>2. CASE prio = STATISTICCLOCK
    <3>1. c # now /\ c \in {TickFrom(f), TickAfter(f)} /\ now' = now /\ prio' = EXIT
      BY <1>4, <2>2 DEF Advance, TickKept
    <3>2. c = TickAfter(f)
      BY <3>1 DEF TickFrom, TickAfter
    <3>. QED  BY <3>1, <3>2 DEF TickAfter
  <2>3. CASE prio = EXIT
    <3>1. c = TickAfter(f) /\ now' = now + 1 /\ prio' = SYNC
      BY <1>4, <2>3 DEF Advance, TickKept
    <3>2. c = TickFrom(f)'
      BY <1>2, <3>1, NextTime
    <3>. QED  BY <3>1, <3>2
  <2>. QED  BY <1>2, <2>1, <2>2, <2>3
<1>5. prio = STATISTICCLOCK => /\ \A f \in DOMAIN engine.clocks : engine.clocks[f] # now
                               /\ GroupRate # 0 => engine.groupClock # now
  BY DEF Advance, NothingDue
<1>6. StatClocks'
  <2>1. (\A f \in DOMAIN engine.clocks : TickKept(f, engine.clocks[f]))'
    BY <1>2, <1>3, <1>4, <1>5 DEF TickKept
  <2>2. (GroupRate # 0 /\ phase # "build" => TickKept(GroupRate, engine.groupClock))'
    BY <1>2, <1>3, <1>4, <1>5 DEF TickKept
  <2>3. (\A s \in Registered : Timed(s) /\ ~config[s].group => RateOf(s) \in DOMAIN engine.clocks)'
    BY <1>2 DEF StatInd, StatClocks, Registered, Timed, RateOf
  <2>. QED  BY <2>1, <2>2, <2>3 DEF StatClocks
<1>7. ASSUME now' = now PROVE StatRows'
  BY <1>2, <1>7, SameClocks DEF TickOf, RateOf
<1>8. ASSUME now' # now PROVE StatRows'
  <2>1. now' = now + 1 /\ prio = EXIT
    BY <1>8 DEF Advance
  <2>2. /\ Registered' = Registered /\ Registered \subseteq Stats
        /\ \A s \in Stats : /\ Timed(s)' = Timed(s) /\ RateOf(s)' = RateOf(s)
                            /\ ClockRows(s)' = ClockRows(s) /\ Written(s)' = Written(s)
                            /\ OnceEach(s)' = OnceEach(s)
    BY <1>2, SameRows
  <2>3. ASSUME NEW s \in Registered, Timed(s) PROVE WrittenSoFar(s)'
    <3>. DEFINE f == RateOf(s)
                c == TickOf(s)
    <3>1. f \in Nat \ {0} /\ TickKept(f, c) /\ c' = c /\ f' = f
      <4>1. ~config[s].group => RateOf(s) \in DOMAIN engine.clocks
        BY <2>3 DEF StatInd, StatClocks
      <4>. QED  BY <1>2, <1>3, <2>3, <4>1 DEF TickOf, RateOf, Timed
    <3>2. c = TickAfter(f) /\ TickAfter(f) = TickFrom(f)'
      BY <1>2, <2>1, <3>1, NextTime DEF TickKept
    <3>3. WrittenSoFar(s) /\ s \in Stats /\ regAt[s] \in Nat
      BY <2>2, <2>3 DEF StatInd, StatType, StatRows
    <3>4. \A t \in 1 .. now : t \in Due(s)' <=> t \in Due(s)
      BY <1>2, <2>1, <2>2, <3>3 DEF Due
    <3>5. Due(s) \subseteq Due(s)' /\ \A t \in Due(s)' : t <= now + 1 /\ t \in Nat /\ t >= 1
      BY <1>2, <2>1, <2>2, <3>3 DEF Due
    <3>6. \A t \in Due(s) : t \in Written(s)
      <4>1. now \in Due(s) => now \in Written(s)
        <5>1. c # now
          <6>1. now % f \in 0 .. (f - 1)
            BY <1>2, <3>1, DivMod
          <6>. QED  BY <1>2, <3>1, <3>2, <6>1 DEF TickAfter
        <5>. QED  BY <3>3, <5>1 DEF WrittenSoFar
      <4>2. \A t \in Due(s) : t < now \/ t = now
        BY <1>2 DEF Due
      <4>. QED  BY <3>3, <4>1, <4>2 DEF WrittenSoFar
    <3>7. Written(s)' \subseteq Due(s)' /\ OnceEach(s)'
      BY <2>2, <3>3, <3>5 DEF WrittenSoFar
    <3>8. \A t \in Due(s)' : t < now' => t \in Written(s)'
      BY <1>2, <2>1, <2>2, <3>3, <3>4, <3>5, <3>6
    <3>9. now' \in Due(s)' => now' \notin Written(s)' /\ TickOf(s)' = now'
      <4>1. now + 1 \notin Due(s)
        BY <1>2 DEF Due
      <4>2. now' \notin Written(s)'
        BY <2>1, <2>2, <3>3, <4>1 DEF WrittenSoFar
      <4>3. now' \in Due(s)' => now' % f = 0 /\ now' # 0
        BY <2>2, <3>3, <2>1, <1>2 DEF Due
      <4>4. now' \in Due(s)' => TickFrom(f)' = now'
        BY <3>1, <4>3 DEF TickFrom
      <4>. QED  BY <3>1, <3>2, <4>2, <4>4
    <3>. QED  BY <3>7, <3>8, <3>9 DEF WrittenSoFar
  <2>4. (\A s \in Registered : /\ regAt[s] <= now
                               /\ IF Timed(s) THEN WrittenSoFar(s) ELSE ClockRows(s) = {})'
    <3>1. \A s \in Registered : regAt[s] <= now'
      BY <1>2, <2>1, <2>2 DEF StatInd, StatType, StatRows
    <3>. QED  BY <1>2, <2>2, <2>3, <3>1 DEF StatInd, StatRows
  <2>. QED  BY <1>2, <2>2, <2>4 DEF StatInd, StatRows
<1>9. now' \in Nat
  BY <1>2 DEF Advance
<1>. QED  BY <1>2, <1>6, <1>7, <1>8, <1>9 DEF StatInd, StatType, StatPhase

-----------------------------------------------------------------------------
LEMMA StatStep ==
    ASSUME StatInd, [StatNext]_statVars
    PROVE  StatInd'
<1>1. ASSUME NEW s \in Stats, Register(s) PROVE StatInd'
  BY <1>1, RegisterKeeps
<1>2. ASSUME NEW s \in Stats, NEW d \in Data, AddData(s, d[1], d[2]) PROVE StatInd'
  <2>1. d[1] \in Nat
    BY StatisticsAssumption
  <2>. QED  BY <1>2, <2>1, AddDataKeeps
<1>3. ASSUME NEW f \in DOMAIN engine.clocks, ClockEvent(f) PROVE StatInd'
  BY <1>3, ClockEventKeeps
<1>. QED  BY <1>1, <1>2, <1>3, WireUpKeeps, PrepareKeeps, OutputAllKeeps, GroupClockKeeps, OneShotKeeps,
             AdvanceKeeps, RestartKeepsTicks, EndRunKeeps, EndOfSimulationKeeps, StutterKeeps
          DEF StatNext, Over

(***************************************************************************)
(* Statistics are written on time: a statistic with a rate is written at   *)
(* every multiple of it from its registration on, once, whatever one-shots *)
(* start and stop it, whenever other statistics join, and however often    *)
(* the job is restarted; no other statistic is written by a clock.         *)
(***************************************************************************)
THEOREM RowsAreTimely == StatSpec => []WrittenOnTime
<1>1. ASSUME StatInd PROVE WrittenOnTime
  <2>1. ASSUME NEW s \in Registered, Timed(s)
        PROVE  {t \in Due(s) : Passed(t)} \subseteq Written(s)
    <3>1. now \in Nat /\ prio \in Nat /\ s \in Stats
      BY <1>1 DEF StatInd, StatType, Registered, ToSet, SYNC, EVENT, STATISTICCLOCK, EXIT
    <3>2. ASSUME NEW t \in Due(s), Passed(t), t = now PROVE TickOf(s) # now
      <4>1. prio = EXIT /\ phase # "build"
        BY <1>1, <3>2 DEF Passed, StatInd, StatType, StatPhase, SYNC, EVENT, STATISTICCLOCK, EXIT
      <4>2. RateOf(s) \in Nat \ {0} /\ TickKept(RateOf(s), TickOf(s))
        <5>1. RateOf(s) \in Nat \ {0}
          BY <1>1, <2>1, <3>1, RatesAreNat DEF StatInd, Timed
        <5>2. ~config[s].group => RateOf(s) \in DOMAIN engine.clocks
          BY <1>1, <2>1 DEF StatInd, StatClocks
        <5>. QED  BY <1>1, <4>1, <5>1, <5>2 DEF TickOf, RateOf, StatInd, StatClocks
      <4>3. TickOf(s) = TickAfter(RateOf(s)) /\ now % RateOf(s) \in 0 .. (RateOf(s) - 1)
        BY <3>1, <4>1, <4>2, DivMod DEF TickKept
      <4>. QED  BY <3>1, <4>2, <4>3 DEF TickAfter
    <3>3. ASSUME NEW t \in Due(s), Passed(t) PROVE t \in Written(s)
      <4>1. t < now \/ t = now
        BY <3>1, <3>3 DEF Passed
      <4>. QED  BY <1>1, <2>1, <3>2, <3>3, <4>1 DEF StatInd, StatRows, WrittenSoFar
    <3>. QED  BY <3>3
  <2>. QED  BY <1>1, <2>1 DEF WrittenOnTime, StatInd, StatRows, WrittenSoFar, OnceEach, Timed
<1>. QED  BY <1>1, StatStart, StatStep, PTL DEF StatSpec

-----------------------------------------------------------------------------
(* The windows in which statistics collect. *)

(***************************************************************************)
(* No checkpoint is taken exactly when a statistic is to be started or     *)
(* stopped (see StatisticsRestart.cfg), and no statistic is started and    *)
(* stopped at once, which happens in the order that the one-shots of all   *)
(* statistics for that time were asked for.                                *)
(***************************************************************************)
WindowsSound ==
    \A c \in Configs : /\ {c.startat, c.stopat} \cap CheckpointTimes \subseteq {0}
                       /\ c.startat = c.stopat => c.startat = 0

Opens(s) == config[s].startat > regAt[s]
Closes(s) == config[s].stopat > regAt[s]

(* The one-shot of time t has been executed. *)
Fired(t) == t < now \/ (t = now /\ prio >= STATISTICCLOCK /\ now \notin DOMAIN engine.oneshots)

(* What the flags and the state of a statistic say. *)
FlagsKept(s) ==
    /\ engine.stat[s].startAtFlag = (Opens(s) /\ ~Fired(config[s].startat))
    /\ engine.stat[s].stopAtFlag = (Closes(s) /\ ~Fired(config[s].stopat))
    /\ engine.stat[s].enabled = (/\ Opens(s) => Fired(config[s].startat)
                                 /\ Closes(s) /\ Fired(config[s].stopat) =>
                                        Opens(s) /\ config[s].stopat < config[s].startat)

Untouched(st) == st.enabled /\ ~st.startAtFlag /\ ~st.stopAtFlag

(* The engine u has the statistics I in its maps if their flags say so. *)
Maps(m, t, s) == t \in DOMAIN m /\ s \in m[t]
MapsKept(u, I) ==
    \A s \in Stats, t \in Nat :
        /\ Maps(u.starts, t, s) <=> s \in I /\ u.stat[s].startAtFlag /\ t = config[s].startat
        /\ Maps(u.stops, t, s) <=> s \in I /\ u.stat[s].stopAtFlag /\ t = config[s].stopat

(* There is a one-shot for all times, with one handler of a kind at most. *)
HasHandler(o, t, h) == t \in DOMAIN o /\ \E i \in DOMAIN o[t].handlers : o[t].handlers[i] = h
OneOfAKind(q) == \A i, j \in DOMAIN q : q[i] = q[j] => i = j
AllKinds(o) == \A t \in DOMAIN o : OneOfAKind(o[t].handlers)
Ready(o) == \A t \in DOMAIN o : (\A r \in DOMAIN o : t <= r) => o[t].scheduled
ShotsKept(u) ==
    /\ \A t \in Nat : /\ t \in DOMAIN u.starts <=> HasHandler(u.oneshots, t, "start")
                      /\ t \in DOMAIN u.stops <=> HasHandler(u.oneshots, t, "stop")
    /\ AllKinds(u.oneshots)
    /\ Ready(u.oneshots)

StatWindows ==
    /\ \A s \in Registered : FlagsKept(s)
    /\ \A s \in Stats \ Registered : Untouched(engine.stat[s])
    /\ MapsKept(engine, Registered)
    /\ ShotsKept(engine)
    /\ \A t \in DOMAIN engine.oneshots : t >= now /\ (prio = EXIT => t > now)

LEMMA NextEffect ==
    ASSUME NEW o \in PartialMaps(Nat, Shots)
    PROVE  /\ DOMAIN ScheduleNext(o) = DOMAIN o
           /\ \A t \in DOMAIN o : ScheduleNext(o)[t].handlers = o[t].handlers
           /\ Ready(ScheduleNext(o))
<1>1. PICK T \in SUBSET Nat : o \in [T -> Shots]
  BY DEF PartialMaps
<1>. DEFINE x == Min(DOMAIN o)
            p == [o EXCEPT ![x].scheduled = TRUE]
<1>2. CASE DOMAIN o = {}
  BY <1>2 DEF ScheduleNext, Ready
<1>3. CASE DOMAIN o # {}
  <2>1. x \in T /\ \A y \in T : x <= y
    <3>1. \E n \in T : \A y \in T : n <= y
      BY <1>1, <1>3, LeastNat
    <3>. QED  BY <1>1, <3>1 DEF Min
  <2>2. ScheduleNext(o) = p
    BY <1>3 DEF ScheduleNext
  <2>. HIDE DEF x
  <2>3. DOMAIN p = T /\ p[x].scheduled = TRUE /\ \A t \in T : p[t].handlers = o[t].handlers
    BY <1>1, <2>1 DEF Shots
  <2>4. \A t \in T : (\A r \in T : t <= r) => t = x
    BY <1>1, <2>1
  <2>. HIDE DEF p
  <2>5. Ready(p)
    BY <2>3, <2>4 DEF Ready
  <2>. QED  BY <1>1, <2>2, <2>3, <2>5
<1>. QED  BY <1>2, <1>3

LEMMA ShotType ==
    ASSUME NEW o \in PartialMaps(Nat, Shots), NEW t \in DOMAIN o
    PROVE  t \in Nat /\ o[t] \in Shots /\ o[t].handlers \in Seq({"start", "stop"})
BY DEF PartialMaps, Shots

(* A handler of a kind that a time does not have yet is registered for it. *)
KindAdded(o, r, t, h) ==
    /\ \A x \in Nat, k \in {"start", "stop"} :
          HasHandler(r, x, k) <=> HasHandler(o, x, k) \/ (x = t /\ k = h)
    /\ AllKinds(r)
    /\ Ready(r)

LEMMA RegisterEffect ==
    ASSUME NEW o \in PartialMaps(Nat, Shots), NEW t \in Nat, NEW h \in {"start", "stop"},
           now \in Nat, t > now, ~HasHandler(o, t, h),
           AllKinds(o)
    PROVE  KindAdded(o, RegisterOneShot(o, t, h), t, h)
<1>. DEFINE list == IF t \in DOMAIN o THEN o[t] ELSE [handlers |-> <<>>, scheduled |-> FALSE]
            q == list.handlers
            added == [list EXCEPT !.handlers = Append(@, h)]
            w == With(o, t, added)
            r == ScheduleNext(w)
<1>1. list \in Shots
  BY DEF Shots, PartialMaps
<1>2. /\ q \in Seq({"start", "stop"})
      /\ t \in DOMAIN o => q = o[t].handlers
      /\ t \notin DOMAIN o => q = <<>>
  BY <1>1 DEF Shots
<1>3. added \in Shots /\ added.handlers = Append(q, h)
  <2>. HIDE DEF list
  <2>. QED  BY <1>1 DEF Shots
<1>. HIDE DEF list, added, q
<1>4. \A i \in DOMAIN q : q[i] # h
  BY <1>2 DEF HasHandler
<1>5. OneOfAKind(q)
  BY <1>2 DEF OneOfAKind, AllKinds
<1>6. /\ Len(q) + 1 \notin DOMAIN q
      /\ DOMAIN Append(q, h) = DOMAIN q \cup {Len(q) + 1}
      /\ Append(q, h)[Len(q) + 1] = h
      /\ \A i \in DOMAIN q : Append(q, h)[i] = q[i]
  BY <1>2, AppendRow
<1>7. OneOfAKind(Append(q, h))
  BY <1>4, <1>5, <1>6 DEF OneOfAKind
<1>8. /\ w \in PartialMaps(Nat, Shots) /\ DOMAIN w = {t} \cup DOMAIN o
      /\ w[t] = added /\ \A z \in DOMAIN o : z # t => w[z] = o[z]
  <2>1. w \in PartialMaps(Nat, Shots)
    <3>. HIDE DEF w
    <3>1. With(o, t, added) \in PartialMaps(Nat, Shots)
      BY <1>3, WithType
    <3>. QED  BY <3>1 DEF w
  <2>. HIDE DEF w
  <2>2. DOMAIN w = {t} \cup DOMAIN o
    BY DEF With, w
  <2>3. w[t] = added
    BY DEF With, w
  <2>4. \A z \in DOMAIN o : z # t => w[z] = o[z]
    BY DEF With, w
  <2>. QED  BY <2>1, <2>2, <2>3, <2>4
<1>9. RegisterOneShot(o, t, h) = r
  BY DEF RegisterOneShot, w, added, list
<1>. HIDE DEF w
<1>10. /\ DOMAIN r = DOMAIN w
       /\ \A x \in DOMAIN w : r[x].handlers = w[x].handlers
       /\ Ready(r)
  BY <1>8, NextEffect
<1>. HIDE DEF r
<1>11. r[t].handlers = Append(q, h) /\ \A x \in DOMAIN o : x # t => r[x].handlers = o[x].handlers
  BY <1>3, <1>8, <1>10
<1>12. AllKinds(r)
  BY <1>7, <1>8, <1>10, <1>11 DEF AllKinds
<1>13. ASSUME NEW x \in Nat, NEW k \in {"start", "stop"}
       PROVE  HasHandler(r, x, k) <=> HasHandler(o, x, k) \/ (x = t /\ k = h)
  <2>1. CASE x # t
    BY <1>8, <1>10, <1>11, <2>1 DEF HasHandler
  <2>2. CASE x = t
    <3>1. HasHandler(r, t, k) <=> k = h \/ \E i \in DOMAIN q : q[i] = k
      BY <1>6, <1>8, <1>10, <1>11 DEF HasHandler
    <3>2. HasHandler(o, t, k) <=> \E i \in DOMAIN q : q[i] = k
      BY <1>2 DEF HasHandler
    <3>. QED  BY <2>2, <3>1, <3>2
  <2>. QED  BY <2>1, <2>2
<1>. QED  BY <1>9, <1>10, <1>12, <1>13 DEF KindAdded

LEMMA RegisterDomain ==
    ASSUME NEW o \in PartialMaps(Nat, Shots), NEW t \in Nat, NEW h \in {"start", "stop"}
    PROVE  DOMAIN RegisterOneShot(o, t, h) \subseteq DOMAIN o \cup {t}
<1>. DEFINE list == IF t \in DOMAIN o THEN o[t] ELSE [handlers |-> <<>>, scheduled |-> FALSE]
            added == [list EXCEPT !.handlers = Append(@, h)]
            w == With(o, t, added)
<1>1. list \in Shots
  BY DEF Shots, PartialMaps
<1>2. added \in Shots
  <2>. HIDE DEF list
  <2>. QED  BY <1>1 DEF Shots
<1>3. RegisterOneShot(o, t, h) \in {o, ScheduleNext(w)}
  BY DEF RegisterOneShot
<1>. HIDE DEF list, added
<1>4. w \in PartialMaps(Nat, Shots)
  BY <1>2, WithType
<1>5. DOMAIN w = {t} \cup DOMAIN o
  BY DEF With
<1>. HIDE DEF w
<1>6. DOMAIN ScheduleNext(w) = DOMAIN w
  BY <1>4, NextEffect
<1>. QED  BY <1>3, <1>5, <1>6

LEMMA AddToMaps ==
    ASSUME NEW m, NEW t, NEW s
    PROVE  /\ DOMAIN AddTo(m, t, s) = DOMAIN m \cup {t}
           /\ \A r, x : Maps(AddTo(m, t, s), r, x) <=> Maps(m, r, x) \/ (r = t /\ x = s)
<1>. DEFINE new == {s} \cup IF t \in DOMAIN m THEN m[t] ELSE {}
            w == With(m, t, new)
<1>1. AddTo(m, t, s) = w
  BY DEF AddTo
<1>2. \A x : x \in new <=> x = s \/ Maps(m, t, x)
  BY DEF Maps
<1>. HIDE DEF new
<1>3. DOMAIN w = {t} \cup DOMAIN m
  BY DEF With
<1>4. w[t] = new
  BY DEF With
<1>5. \A z \in DOMAIN m : z # t => w[z] = m[z]
  BY DEF With
<1>. HIDE DEF w
<1>6. ASSUME NEW r, NEW x PROVE Maps(w, r, x) <=> Maps(m, r, x) \/ (r = t /\ x = s)
  <2>1. CASE r = t
    BY <1>2, <1>3, <1>4, <2>1 DEF Maps
  <2>2. CASE r # t
    BY <1>3, <1>5, <2>2 DEF Maps
  <2>. QED  BY <2>1, <2>2
<1>. QED  BY <1>1, <1>3, <1>6

(* The engine u is e, but the statistic s is to be started at a and stopped at b. *)
SameData(st, new) == new.data = st.data /\ new.current = st.current
StatAsked(st, new, a, b) ==
    /\ new.enabled = (IF a > now THEN FALSE ELSE st.enabled)
    /\ new.startAtFlag = (IF a > now THEN TRUE ELSE st.startAtFlag)
    /\ new.stopAtFlag = (IF b > now THEN TRUE ELSE st.stopAtFlag)
    /\ SameData(st, new)
Asked(e, u, s, a, b) ==
    /\ StatAsked(e.stat[s], u.stat[s], a, b)
    /\ \A x \in Stats : x # s => u.stat[x] = e.stat[x]
    /\ \A t \in Nat, x \in Stats :
          /\ Maps(u.starts, t, x) <=> Maps(e.starts, t, x) \/ (t = a /\ x = s /\ a > now)
          /\ Maps(u.stops, t, x) <=> Maps(e.stops, t, x) \/ (t = b /\ x = s /\ b > now)
    /\ ShotsKept(e) => ShotsKept(u)
    /\ \A t \in DOMAIN u.oneshots : t \in DOMAIN e.oneshots \/ t > now

LEMMA StartEffect ==
    ASSUME NEW V, NEW e \in Engines(V), NEW s \in Stats, NEW t \in Nat, now \in Nat
    PROVE  Asked(e, SetStartTime(e, s, t), s, t, 0)
<1>1. CASE t <= now
  <2>1. SetStartTime(e, s, t) = e /\ ~(t > now) /\ ~(0 > now)
    BY <1>1 DEF SetStartTime
  <2>2. StatAsked(e.stat[s], e.stat[s], t, 0)
    BY <2>1 DEF StatAsked, SameData
  <2>. QED  BY <2>1, <2>2 DEF Asked
<1>2. CASE t > now
  <2>. DEFINE o == IF t \in DOMAIN e.starts THEN e.oneshots ELSE RegisterOneShot(e.oneshots, t, "start")
              a == AddTo(e.starts, t, s)
              x == e.stat[s]
              y == [x EXCEPT !.enabled = FALSE, !.startAtFlag = TRUE]
              st == [e.stat EXCEPT ![s] = y]
              u == [e EXCEPT !.oneshots = o, !.starts = a, !.stat = st]
  <2>1. x \in Collectors(V) /\ e.stat \in [Stats -> Collectors(V)]
    BY DEF Engines
  <2>2. SetStartTime(e, s, t) = u
    <3>1. SetStartTime(e, s, t) = [e EXCEPT !.oneshots = o, !.starts = a,
                                    !.stat[s].enabled = FALSE, !.stat[s].startAtFlag = TRUE]
      BY <1>2 DEF SetStartTime
    <3>. HIDE DEF o, a
    <3>2. [e.stat EXCEPT ![s].enabled = FALSE, ![s].startAtFlag = TRUE] = st
      BY <2>1 DEF Collectors
    <3>. QED  BY <3>1, <3>2 DEF Engines
  <2>3. StatAsked(x, st[s], t, 0)
    <3>1. st[s] = y
      BY <2>1
    <3>2. StatAsked(x, y, t, 0)
      <4>. HIDE DEF x
      <4>1. /\ y.enabled = FALSE /\ y.startAtFlag = TRUE /\ y.stopAtFlag = x.stopAtFlag
            /\ y.data = x.data /\ y.current = x.current
        BY <2>1 DEF Collectors
      <4>. HIDE DEF y
      <4>2. t > now /\ ~(0 > now)
        BY <1>2
      <4>. QED  BY <4>1, <4>2 DEF StatAsked, SameData
    <3>. QED  BY <3>1, <3>2
  <2>4. \A z \in Stats : z # s => st[z] = e.stat[z]
    BY <2>1
  <2>. HIDE DEF o, a, st, y
  <2>5. u.oneshots = o /\ u.starts = a /\ u.stat = st /\ u.stops = e.stops
    BY DEF Engines
  <2>. HIDE DEF u, x
  <2>6. \A r, z : Maps(a, r, z) <=> Maps(e.starts, r, z) \/ (r = t /\ z = s)
    BY AddToMaps DEF a
  <2>7. DOMAIN a = DOMAIN e.starts \cup {t}
    BY AddToMaps DEF a
  <2>8. e.oneshots \in PartialMaps(Nat, Shots)
    BY DEF Engines
  <2>9. \A r \in DOMAIN o : r \in DOMAIN e.oneshots \/ r > now
    <3>. DEFINE p == e.oneshots
    <3>1. \A q \in PartialMaps(Nat, Shots) : DOMAIN RegisterOneShot(q, t, "start") \subseteq DOMAIN q \cup {t}
      <4>. SUFFICES ASSUME NEW q \in PartialMaps(Nat, Shots)
                    PROVE  DOMAIN RegisterOneShot(q, t, "start") \subseteq DOMAIN q \cup {t}
        OBVIOUS
      <4>. QED  BY RegisterDomain
    <3>. QED  BY <1>2, <2>8, <3>1 DEF o
  <2>10. ASSUME ShotsKept(e) PROVE ShotsKept(u)
    <3>1. CASE t \in DOMAIN e.starts
      BY <2>5, <2>7, <2>10, <3>1 DEF ShotsKept, o
    <3>2. CASE t \notin DOMAIN e.starts
      <4>. DEFINE p == e.oneshots
      <4>1. p \in PartialMaps(Nat, Shots) /\ ~HasHandler(p, t, "start") /\ AllKinds(p)
        BY <2>8, <2>10, <3>2 DEF ShotsKept
      <4>2. o = RegisterOneShot(p, t, "start")
        BY <3>2 DEF o
      <4>. HIDE DEF p
      <4>3. KindAdded(p, o, t, "start")
        BY <1>2, <4>1, <4>2, RegisterEffect
      <4>4. \A r \in Nat : /\ r \in DOMAIN e.starts <=> HasHandler(p, r, "start")
                           /\ r \in DOMAIN e.stops <=> HasHandler(p, r, "stop")
        BY <2>10 DEF ShotsKept, p
      <4>5. \A r \in Nat : /\ r \in DOMAIN u.starts <=> HasHandler(u.oneshots, r, "start")
                           /\ r \in DOMAIN u.stops <=> HasHandler(u.oneshots, r, "stop")
        BY <2>5, <2>7, <4>3, <4>4 DEF KindAdded
      <4>. QED  BY <2>5, <4>3, <4>5 DEF ShotsKept, KindAdded
    <3>. QED  BY <3>1, <3>2
  <2>11. ~(0 > now)
    OBVIOUS
  <2>. QED  BY <1>2, <2>2, <2>3, <2>4, <2>5, <2>6, <2>9, <2>10, <2>11 DEF Asked, x
<1>. QED  BY <1>1, <1>2

LEMMA StopEffect ==
    ASSUME NEW V, NEW e \in Engines(V), NEW s \in Stats, NEW t \in Nat, now \in Nat
    PROVE  Asked(e, SetStopTime(e, s, t), s, 0, t)
<1>1. CASE t <= now
  <2>1. SetStopTime(e, s, t) = e /\ ~(t > now) /\ ~(0 > now)
    BY <1>1 DEF SetStopTime
  <2>2. StatAsked(e.stat[s], e.stat[s], 0, t)
    BY <2>1 DEF StatAsked, SameData
  <2>. QED  BY <2>1, <2>2 DEF Asked
<1>2. CASE t > now
  <2>. DEFINE o == IF t \in DOMAIN e.stops THEN e.oneshots ELSE RegisterOneShot(e.oneshots, t, "stop")
              a == AddTo(e.stops, t, s)
              x == e.stat[s]
              y == [x EXCEPT !.stopAtFlag = TRUE]
              st == [e.stat EXCEPT ![s] = y]
              u == [e EXCEPT !.oneshots = o, !.stops = a, !.stat = st]
  <2>1. x \in Collectors(V) /\ e.stat \in [Stats -> Collectors(V)]
    BY DEF Engines
  <2>2. SetStopTime(e, s, t) = u
    <3>1. SetStopTime(e, s, t) = [e EXCEPT !.oneshots = o, !.stops = a, !.stat[s].stopAtFlag = TRUE]
      BY <1>2 DEF SetStopTime
    <3>. HIDE DEF o, a
    <3>2. [e.stat EXCEPT ![s].stopAtFlag = TRUE] = st
      BY <2>1 DEF Collectors
    <3>. QED  BY <3>1, <3>2 DEF Engines
  <2>3. StatAsked(x, st[s], 0, t)
    <3>1. st[s] = y
      BY <2>1
    <3>2. StatAsked(x, y, 0, t)
      <4>. HIDE DEF x
      <4>1. /\ y.enabled = x.enabled /\ y.startAtFlag = x.startAtFlag /\ y.stopAtFlag = TRUE
            /\ y.data = x.data /\ y.current = x.current
        BY <2>1 DEF Collectors
      <4>. HIDE DEF y
      <4>2. t > now /\ ~(0 > now)
        BY <1>2
      <4>. QED  BY <4>1, <4>2 DEF StatAsked, SameData
    <3>. QED  BY <3>1, <3>2
  <2>4. \A z \in Stats : z # s => st[z] = e.stat[z]
    BY <2>1
  <2>. HIDE DEF o, a, st, y
  <2>5. u.oneshots = o /\ u.stops = a /\ u.stat = st /\ u.starts = e.starts
    BY DEF Engines
  <2>. HIDE DEF u, x
  <2>6. \A r, z : Maps(a, r, z) <=> Maps(e.stops, r, z) \/ (r = t /\ z = s)
    BY AddToMaps DEF a
  <2>7. DOMAIN a = DOMAIN e.stops \cup {t}
    BY AddToMaps DEF a
  <2>8. e.oneshots \in PartialMaps(Nat, Shots)
    BY DEF Engines
  <2>9. \A r \in DOMAIN o : r \in DOMAIN e.oneshots \/ r > now
    <3>1. \A q \in PartialMaps(Nat, Shots) : DOMAIN RegisterOneShot(q, t, "stop") \subseteq DOMAIN q \cup {t}
      <4>. SUFFICES ASSUME NEW q \in PartialMaps(Nat, Shots)
                    PROVE  DOMAIN RegisterOneShot(q, t, "stop") \subseteq DOMAIN q \cup {t}
        OBVIOUS
      <4>. QED  BY RegisterDomain
    <3>. QED  BY <1>2, <2>8, <3>1 DEF o
  <2>10. ASSUME ShotsKept(e) PROVE ShotsKept(u)
    <3>1. CASE t \in DOMAIN e.stops
      BY <2>5, <2>7, <2>10, <3>1 DEF ShotsKept, o
    <3>2. CASE t \notin DOMAIN e.stops
      <4>. DEFINE p == e.oneshots
      <4>1. p \in PartialMaps(Nat, Shots) /\ ~HasHandler(p, t, "stop") /\ AllKinds(p)
        BY <2>8, <2>10, <3>2 DEF ShotsKept
      <4>2. o = RegisterOneShot(p, t, "stop")
        BY <3>2 DEF o
      <4>. HIDE DEF p
      <4>3. KindAdded(p, o, t, "stop")
        BY <1>2, <4>1, <4>2, RegisterEffect
      <4>4. \A r \in Nat : /\ r \in DOMAIN e.starts <=> HasHandler(p, r, "start")
                           /\ r \in DOMAIN e.stops <=> HasHandler(p, r, "stop")
        BY <2>10 DEF ShotsKept, p
      <4>5. \A r \in Nat : /\ r \in DOMAIN u.starts <=> HasHandler(u.oneshots, r, "start")
                           /\ r \in DOMAIN u.stops <=> HasHandler(u.oneshots, r, "stop")
        BY <2>5, <2>7, <4>3, <4>4 DEF KindAdded
      <4>. QED  BY <2>5, <4>3, <4>5 DEF ShotsKept, KindAdded
    <3>. QED  BY <3>1, <3>2
  <2>11. ~(0 > now)
    OBVIOUS
  <2>. QED  BY <1>2, <2>2, <2>3, <2>4, <2>5, <2>6, <2>9, <2>10, <2>11 DEF Asked, x
<1>. QED  BY <1>1, <1>2

(* The clocks do not matter to start and stop times. *)
SameWindows(e, u) ==
    /\ u.starts = e.starts /\ u.stops = e.stops /\ u.oneshots = e.oneshots
    /\ u.stat = e.stat

LEMMA PeriodicEffect ==
    ASSUME NEW V, NEW e \in Engines(V), NEW f
    PROVE  SameWindows(e, AddPeriodic(e, f))
<1>. DEFINE c == With(e.clocks, f, FirstTick(f))
            u == [e EXCEPT !.clocks = c]
<1>1. AddPeriodic(e, f) = e \/ AddPeriodic(e, f) = u
  BY DEF AddPeriodic
<1>. HIDE DEF c
<1>2. SameWindows(e, u)
  BY DEF SameWindows, Engines
<1>. QED  BY <1>1, <1>2 DEF SameWindows

LEMMA JoinEffect ==
    ASSUME NEW V, NEW e \in Engines(V), NEW s \in Stats, NEW a \in Nat, NEW b \in Nat,
           now \in Nat, prio \in Nat, config[s].rate \in Nat
    PROVE  Asked(e, Join(e, s, a, b), s, a, b)
<1>. DEFINE p == AddPeriodic(e, config[s].rate)
            timed == IF config[s].mode = "time" /\ ~config[s].group THEN p ELSE e
            d == SetStartTime(timed, s, a)
            u == SetStopTime(d, s, b)
<1>1. timed \in Engines(V) /\ SameWindows(e, timed)
  <2>1. p \in Engines(V) /\ SameWindows(e, p)
    BY PeriodicType, PeriodicEffect
  <2>2. SameWindows(e, e)
    BY DEF SameWindows
  <2>. HIDE DEF p
  <2>. QED  BY <2>1, <2>2
<1>. HIDE DEF timed
<1>2. d \in Engines(V) /\ Asked(timed, d, s, a, 0)
  BY <1>1, SetStartType, StartEffect
<1>. HIDE DEF d
<1>3. Asked(d, u, s, 0, b)
  BY <1>2, StopEffect
<1>4. Join(e, s, a, b) = u
  BY DEF Join, d, timed
<1>. HIDE DEF u
<1>5. ~(0 > now)
  OBVIOUS
<1>6. StatAsked(e.stat[s], u.stat[s], a, b)
  BY <1>1, <1>2, <1>3, <1>5 DEF Asked, StatAsked, SameData, SameWindows
<1>7. \A x \in Stats : x # s => u.stat[x] = e.stat[x]
  BY <1>1, <1>2, <1>3 DEF Asked, SameWindows
<1>8. \A t \in Nat, x \in Stats :
          /\ Maps(u.starts, t, x) <=> Maps(e.starts, t, x) \/ (t = a /\ x = s /\ a > now)
          /\ Maps(u.stops, t, x) <=> Maps(e.stops, t, x) \/ (t = b /\ x = s /\ b > now)
  BY <1>1, <1>2, <1>3, <1>5 DEF Asked, SameWindows
<1>9. ShotsKept(e) => ShotsKept(u)
  <2>1. ShotsKept(e) => ShotsKept(timed)
    BY <1>1 DEF ShotsKept, SameWindows
  <2>. QED  BY <1>2, <1>3, <2>1 DEF Asked
<1>10. \A t \in DOMAIN u.oneshots : t \in DOMAIN e.oneshots \/ t > now
  BY <1>1, <1>2, <1>3 DEF Asked, SameWindows
<1>. QED  BY <1>4, <1>6, <1>7, <1>8, <1>9, <1>10 DEF Asked

-----------------------------------------------------------------------------
(* A restart finds the times again. *)

Resumable(s) ==
    /\ engine.stat[s].startAtFlag <=> SavedStart(s) > now
    /\ engine.stat[s].startAtFlag => SavedStart(s) = config[s].startat /\ ~engine.stat[s].enabled
    /\ engine.stat[s].stopAtFlag <=> SavedStop(s) > now
    /\ engine.stat[s].stopAtFlag => SavedStop(s) = config[s].stopat

LEMMA FactorFound ==
    ASSUME NEW m, NEW s, NEW t \in Nat, \A r : Maps(m, r, s) <=> r = t
    PROVE  FactorOf(m, s) = t
<1>. DEFINE T == {r \in DOMAIN m : s \in m[r]}
<1>1. T = {t}
  BY DEF Maps
<1>2. Min({t}) = t
  BY DEF Min
<1>3. FactorOf(m, s) = Min(T)
  <2>1. \E r \in DOMAIN m : s \in m[r]
    BY <1>1
  <2>. QED  BY <2>1 DEF FactorOf
<1>. QED  BY <1>1, <1>2, <1>3

LEMMA SavedTimes ==
    ASSUME StatInd, StatWindows, WindowsSound, now \in CheckpointTimes, prio = SYNC, NEW s \in Registered
    PROVE  Resumable(s)
<1>1. PICK V : engine \in Engines(V)
  BY DEF StatInd, StatType
<1>2. s \in Stats /\ now \in Nat /\ regAt[s] \in Nat /\ config[s] \in Configs
  BY DEF StatInd, StatType, Registered, ToSet
<1>3. config[s].startat \in Nat /\ config[s].stopat \in Nat
  BY <1>2, RatesAreNat DEF StatInd
<1>4. \A t : Fired(t) <=> t < now
  BY DEF Fired, SYNC, STATISTICCLOCK
<1>5. FlagsKept(s) /\ MapsKept(engine, Registered)
  BY DEF StatWindows
<1>6. /\ Opens(s) => config[s].startat # now
      /\ Closes(s) => config[s].stopat # now
  BY <1>2, <1>3 DEF WindowsSound, Opens, Closes
<1>7. \A t : (Maps(engine.starts, t, s) => t \in Nat) /\ (Maps(engine.stops, t, s) => t \in Nat)
  BY <1>1 DEF Maps, Engines, PartialMaps
<1>8. ASSUME engine.stat[s].startAtFlag
      PROVE  SavedStart(s) = config[s].startat /\ SavedStart(s) > now /\ ~engine.stat[s].enabled
  <2>1. Opens(s) /\ ~Fired(config[s].startat)
    BY <1>5, <1>8 DEF FlagsKept
  <2>2. \A t : Maps(engine.starts, t, s) <=> t = config[s].startat
    BY <1>2, <1>3, <1>5, <1>7, <1>8 DEF MapsKept
  <2>3. FactorOf(engine.starts, s) = config[s].startat
    BY <1>3, <2>2, FactorFound
  <2>4. SavedStart(s) = config[s].startat
    BY <1>8, <2>3 DEF SavedStart
  <2>5. ~engine.stat[s].enabled
    BY <1>5, <2>1 DEF FlagsKept
  <2>. QED  BY <1>2, <1>3, <1>4, <1>6, <2>1, <2>4, <2>5
<1>9. ASSUME engine.stat[s].stopAtFlag
      PROVE  SavedStop(s) = config[s].stopat /\ SavedStop(s) > now
  <2>1. Closes(s) /\ ~Fired(config[s].stopat)
    BY <1>5, <1>9 DEF FlagsKept
  <2>2. \A t : Maps(engine.stops, t, s) <=> t = config[s].stopat
    BY <1>2, <1>3, <1>5, <1>7, <1>9 DEF MapsKept
  <2>3. FactorOf(engine.stops, s) = config[s].stopat
    BY <1>3, <2>2, FactorFound
  <2>4. SavedStop(s) = config[s].stopat
    BY <1>9, <2>3 DEF SavedStop
  <2>. QED  BY <1>2, <1>3, <1>4, <1>6, <2>1, <2>4
<1>10. /\ ~engine.stat[s].startAtFlag => ~(SavedStart(s) > now)
       /\ ~engine.stat[s].stopAtFlag => ~(SavedStop(s) > now)
  BY <1>2 DEF SavedStart, SavedStop
<1>. QED  BY <1>8, <1>9, <1>10 DEF Resumable

(* The statistics I have registered themselves again with the engine u. *)
SameStat(st, new) ==
    /\ new.enabled = st.enabled
    /\ new.startAtFlag = st.startAtFlag /\ new.stopAtFlag = st.stopAtFlag
    /\ SameData(st, new)
Rejoined(u, I) ==
    /\ \A x \in Stats : SameStat(engine.stat[x], u.stat[x])
    /\ MapsKept(u, I)
    /\ ShotsKept(u)
    /\ \A t \in DOMAIN u.oneshots : t > now

LEMMA RejoinAsks ==
    ASSUME NEW V, engine \in Engines(V), now \in Nat, prio \in Nat, NEW s \in Stats,
           config[s].rate \in Nat, NEW u \in Engines(V)
    PROVE  Asked(u, Rejoin(u, s), s, SavedStart(s), SavedStop(s))
<1>. DEFINE t == SavedStart(s)
            r == SavedStop(s)
<1>1. t \in Nat /\ r \in Nat
  BY SavedType
<1>2. Rejoin(u, s) = Join(u, s, t, r)
  BY DEF Rejoin
<1>. HIDE DEF t, r
<1>3. Asked(u, Join(u, s, t, r), s, t, r)
  BY <1>1, JoinEffect
<1>. QED  BY <1>2, <1>3 DEF t, r

LEMMA RejoinedMore ==
    ASSUME NEW V, engine \in Engines(V), now \in Nat, NEW u \in Engines(V), NEW v \in Engines(V),
           NEW s \in Stats, Resumable(s),
           NEW I, Rejoined(u, I), Asked(u, v, s, SavedStart(s), SavedStop(s))
    PROVE  Rejoined(v, I \cup {s})
<1>. DEFINE a == SavedStart(s)
            b == SavedStop(s)
<1>1. /\ engine.stat[s].startAtFlag <=> a > now
      /\ engine.stat[s].startAtFlag => a = config[s].startat /\ ~engine.stat[s].enabled
      /\ engine.stat[s].stopAtFlag <=> b > now
      /\ engine.stat[s].stopAtFlag => b = config[s].stopat
  BY DEF Resumable
<1>2. Asked(u, v, s, a, b)
  OBVIOUS
<1>. HIDE DEF a, b
<1>3. SameStat(engine.stat[s], v.stat[s])
  <2>1. engine.stat[s] \in Collectors(V)
    BY DEF Engines
  <2>2. SameStat(engine.stat[s], u.stat[s]) /\ StatAsked(u.stat[s], v.stat[s], a, b)
    BY <1>2 DEF Rejoined, Asked
  <2>3. SameData(engine.stat[s], v.stat[s])
    BY <2>2 DEF SameStat, StatAsked, SameData
  <2>4. /\ engine.stat[s].enabled \in BOOLEAN /\ engine.stat[s].startAtFlag \in BOOLEAN
        /\ engine.stat[s].stopAtFlag \in BOOLEAN
    BY <2>1 DEF Collectors
  <2>5. v.stat[s].enabled = engine.stat[s].enabled
    BY <1>1, <2>2, <2>4 DEF SameStat, StatAsked
  <2>6. v.stat[s].startAtFlag = engine.stat[s].startAtFlag
    BY <1>1, <2>2, <2>4 DEF SameStat, StatAsked
  <2>7. v.stat[s].stopAtFlag = engine.stat[s].stopAtFlag
    BY <1>1, <2>2, <2>4 DEF SameStat, StatAsked
  <2>. QED  BY <2>3, <2>5, <2>6, <2>7 DEF SameStat
<1>4. \A x \in Stats : SameStat(engine.stat[x], v.stat[x])
  <2>1. \A x \in Stats : x # s => v.stat[x] = u.stat[x]
    BY <1>2 DEF Asked
  <2>. QED  BY <1>3, <2>1 DEF Rejoined
<1>5. MapsKept(v, I \cup {s})
  <2>. SUFFICES ASSUME NEW x \in Stats, NEW t \in Nat
                PROVE  /\ Maps(v.starts, t, x) <=> /\ x \in I \cup {s} /\ v.stat[x].startAtFlag
                                                   /\ t = config[x].startat
                       /\ Maps(v.stops, t, x) <=> /\ x \in I \cup {s} /\ v.stat[x].stopAtFlag
                                                  /\ t = config[x].stopat
    BY DEF MapsKept
  <2>1. /\ Maps(v.starts, t, x) <=> Maps(u.starts, t, x) \/ (t = a /\ x = s /\ a > now)
        /\ Maps(v.stops, t, x) <=> Maps(u.stops, t, x) \/ (t = b /\ x = s /\ b > now)
    BY <1>2 DEF Asked
  <2>2. /\ v.stat[x].startAtFlag = engine.stat[x].startAtFlag /\ u.stat[x].startAtFlag = engine.stat[x].startAtFlag
        /\ v.stat[x].stopAtFlag = engine.stat[x].stopAtFlag /\ u.stat[x].stopAtFlag = engine.stat[x].stopAtFlag
    BY <1>4 DEF Rejoined, SameStat
  <2>3. /\ Maps(u.starts, t, x) <=> x \in I /\ u.stat[x].startAtFlag /\ t = config[x].startat
        /\ Maps(u.stops, t, x) <=> x \in I /\ u.stat[x].stopAtFlag /\ t = config[x].stopat
    BY DEF Rejoined, MapsKept
  <2>. QED  BY <1>1, <2>1, <2>2, <2>3
<1>6. ShotsKept(v) /\ \A t \in DOMAIN v.oneshots : t > now
  BY <1>2 DEF Rejoined, Asked
<1>. QED  BY <1>4, <1>5, <1>6 DEF Rejoined

LEMMA RejoinEffect ==
    ASSUME NEW V, engine \in Engines(V), order \in Seq(Stats), now \in Nat, prio \in Nat,
           \A s \in Stats : config[s].rate \in Nat, \A s \in Registered : Resumable(s),
           NEW e \in Engines(V), e.stat = engine.stat,
           e.starts = <<>>, e.stops = <<>>, e.oneshots = <<>>
    PROVE  Rejoined(FoldLeft(Rejoin, e, order), Registered)
<1>. DEFINE S == DOMAIN order
            h == [s \in SUBSET S |-> Max(s)]
            Set(s) == {order[i] : i \in s}
<1>1. IsFiniteSet(S) /\ S \in SUBSET Nat /\ \A i \in S : order[i] \in Stats
  <2>1. S = 1 .. Len(order) /\ Len(order) \in Nat /\ \A i \in S : order[i] \in Stats
    OBVIOUS
  <2>. HIDE DEF S
  <2>2. IsFiniteSet(S)
    BY <2>1, FS_Interval
  <2>. QED  BY <2>1, <2>2
<1>2. PICK it \in [SUBSET S -> Engines(V)] : RejoinRun(it, e)
  BY RejoinIter
<1>. DEFINE T == {s \in SUBSET S : Rejoined(it[s], Set(s))}
<1>2a. /\ it[S] = FoldLeft(Rejoin, e, order)
       /\ \A s \in SUBSET S : it[s] = IF s = {} THEN e ELSE Rejoin(it[s \ {Max(s)}], order[Max(s)])
  BY <1>2 DEF RejoinRun
<1>3. Registered = Set(S)
  BY DEF Registered, ToSet
<1>. HIDE DEF S
<1>4. Picks(h, S)
  BY <1>1, LargestElement DEF Picks
<1>5. {} \in T
  <2>1. {} \in SUBSET S /\ it[{}] = e
    BY <1>2a
  <2>2. DOMAIN e.starts = {} /\ DOMAIN e.stops = {} /\ DOMAIN e.oneshots = {}
    OBVIOUS
  <2>3. MapsKept(e, {})
    BY <2>2 DEF MapsKept, Maps
  <2>4. ShotsKept(e)
    BY <2>2 DEF ShotsKept, HasHandler, AllKinds, Ready
  <2>5. Rejoined(e, {})
    BY <2>2, <2>3, <2>4 DEF Rejoined, SameStat, SameData
  <2>. QED  BY <2>1, <2>5
<1>6. ASSUME NEW s \in SUBSET S, s # {}, s \ {h[s]} \in T PROVE s \in T
  <2>. DEFINE i == h[s]
              u == it[s \ {i}]
              v == it[s]
              x == order[i]
              I == Set(s \ {i})
  <2>1. i = Max(s) /\ i \in S /\ i \in s
    BY <1>4, <1>6 DEF Picks
  <2>2. /\ u \in Engines(V) /\ v \in Engines(V) /\ v = Rejoin(u, x) /\ Rejoined(u, I) /\ x \in Stats
        /\ x \in Registered
    BY <1>1, <1>2, <1>2a, <1>3, <1>6, <2>1
  <2>3. config[x].rate \in Nat /\ Resumable(x)
    BY <2>2
  <2>4. Set(s) = I \cup {x}
    BY <2>1
  <2>. HIDE DEF u, v, x, i, I, Set
  <2>5. Asked(u, v, x, SavedStart(x), SavedStop(x))
    BY <2>2, <2>3, RejoinAsks
  <2>6. Rejoined(v, I \cup {x})
    BY <2>2, <2>3, <2>5, RejoinedMore
  <2>. QED  BY <2>4, <2>6 DEF v
<1>7. Inductive(T, h, S)
  BY <1>5, <1>6 DEF Inductive
<1>. HIDE DEF T, h
<1>8. S \in T
  BY <1>1, <1>4, <1>7, SetInduction
<1>. QED  BY <1>2a, <1>3, <1>8 DEF T

-----------------------------------------------------------------------------
(* The handlers of a time start and stop the statistics of that time. *)

(* The engine u is e after its handlers of the kinds K. *)
StatHandled(st, new, start, stop) ==
    /\ new.enabled = (IF start THEN TRUE ELSE IF stop THEN FALSE ELSE st.enabled)
    /\ new.startAtFlag = (IF start THEN FALSE ELSE st.startAtFlag)
    /\ new.stopAtFlag = (IF stop THEN FALSE ELSE st.stopAtFlag)
    /\ SameData(st, new)
Handled(e, u, K) ==
    /\ u.oneshots = e.oneshots
    /\ u.starts = IF "start" \in K THEN Drop(e.starts, now) ELSE e.starts
    /\ u.stops = IF "stop" \in K THEN Drop(e.stops, now) ELSE e.stops
    /\ \A x \in Stats : StatHandled(e.stat[x], u.stat[x], "start" \in K /\ x \in e.starts[now],
                                    "stop" \in K /\ x \in e.stops[now])

LEMMA StartHandled ==
    ASSUME NEW V, NEW e \in Engines(V), NEW u \in Engines(V), NEW K, Handled(e, u, K), "start" \notin K,
           "stop" \in K => \A x \in Stats : ~(x \in e.starts[now] /\ x \in e.stops[now])
    PROVE  Handled(e, Handle(u, "start"), K \cup {"start"})
<1>. DEFINE on(x) == [u.stat[x] EXCEPT !.enabled = TRUE, !.startAtFlag = FALSE]
            st == [x \in Stats |-> IF x \in e.starts[now] THEN on(x) ELSE u.stat[x]]
            m == Drop(e.starts, now)
            v == [u EXCEPT !.stat = st, !.starts = m]
<1>1. u.starts = e.starts /\ u.oneshots = e.oneshots /\ u.stat \in [Stats -> Collectors(V)]
  BY DEF Handled, Engines
<1>2. Handle(u, "start") = v
  BY <1>1 DEF Handle
<1>3. ASSUME NEW x \in Stats
      PROVE  StatHandled(e.stat[x], st[x], x \in e.starts[now], "stop" \in K /\ x \in e.stops[now])
  <2>1. StatHandled(e.stat[x], u.stat[x], FALSE, "stop" \in K /\ x \in e.stops[now])
    BY DEF Handled, StatHandled
  <2>2. CASE x \in e.starts[now]
    <3>. DEFINE y == on(x)
    <3>1. st[x] = y /\ u.stat[x] \in Collectors(V) /\ ~("stop" \in K /\ x \in e.stops[now])
      BY <1>1, <2>2
    <3>2. y.enabled = TRUE /\ y.startAtFlag = FALSE /\ y.stopAtFlag = u.stat[x].stopAtFlag
          /\ y.data = u.stat[x].data /\ y.current = u.stat[x].current
      BY <3>1 DEF Collectors
    <3>. HIDE DEF y, st
    <3>3. StatHandled(e.stat[x], y, TRUE, FALSE)
      BY <2>1, <3>1, <3>2 DEF StatHandled, SameData
    <3>. QED  BY <2>2, <3>1, <3>3 DEF StatHandled
  <2>3. CASE x \notin e.starts[now]
    <3>1. st[x] = u.stat[x]
      BY <2>3
    <3>. HIDE DEF st
    <3>. QED  BY <2>1, <2>3, <3>1 DEF StatHandled
  <2>. QED  BY <2>2, <2>3
<1>. HIDE DEF st, m
<1>4. v.stat = st /\ v.starts = m /\ v.stops = u.stops /\ v.oneshots = u.oneshots
  BY DEF Engines
<1>. HIDE DEF v
<1>5. \A x \in Stats : StatHandled(e.stat[x], v.stat[x], "start" \in K \cup {"start"} /\ x \in e.starts[now],
                                   "stop" \in K \cup {"start"} /\ x \in e.stops[now])
  BY <1>3, <1>4 DEF StatHandled
<1>. QED  BY <1>1, <1>2, <1>4, <1>5 DEF Handled, m

LEMMA StopHandled ==
    ASSUME NEW V, NEW e \in Engines(V), NEW u \in Engines(V), NEW K, Handled(e, u, K), "stop" \notin K,
           "start" \in K => \A x \in Stats : ~(x \in e.starts[now] /\ x \in e.stops[now])
    PROVE  Handled(e, Handle(u, "stop"), K \cup {"stop"})
<1>. DEFINE off(x) == [u.stat[x] EXCEPT !.enabled = FALSE, !.stopAtFlag = FALSE]
            st == [x \in Stats |-> IF x \in e.stops[now] THEN off(x) ELSE u.stat[x]]
            m == Drop(e.stops, now)
            v == [u EXCEPT !.stat = st, !.stops = m]
<1>1. u.stops = e.stops /\ u.oneshots = e.oneshots /\ u.stat \in [Stats -> Collectors(V)]
  BY DEF Handled, Engines
<1>2. Handle(u, "stop") = v
  BY <1>1 DEF Handle
<1>3. ASSUME NEW x \in Stats
      PROVE  StatHandled(e.stat[x], st[x], "start" \in K /\ x \in e.starts[now], x \in e.stops[now])
  <2>1. StatHandled(e.stat[x], u.stat[x], "start" \in K /\ x \in e.starts[now], FALSE)
    BY DEF Handled, StatHandled
  <2>2. CASE x \in e.stops[now]
    <3>. DEFINE y == off(x)
    <3>1. st[x] = y /\ u.stat[x] \in Collectors(V) /\ ~("start" \in K /\ x \in e.starts[now])
      BY <1>1, <2>2
    <3>2. y.enabled = FALSE /\ y.startAtFlag = u.stat[x].startAtFlag /\ y.stopAtFlag = FALSE
          /\ y.data = u.stat[x].data /\ y.current = u.stat[x].current
      BY <3>1 DEF Collectors
    <3>. HIDE DEF y, st
    <3>3. StatHandled(e.stat[x], y, FALSE, TRUE)
      BY <2>1, <3>1, <3>2 DEF StatHandled, SameData
    <3>. QED  BY <2>2, <3>1, <3>3 DEF StatHandled
  <2>3. CASE x \notin e.stops[now]
    <3>1. st[x] = u.stat[x]
      BY <2>3
    <3>. HIDE DEF st
    <3>. QED  BY <2>1, <2>3, <3>1 DEF StatHandled
  <2>. QED  BY <2>2, <2>3
<1>. HIDE DEF st, m
<1>4. v.stat = st /\ v.stops = m /\ v.starts = u.starts /\ v.oneshots = u.oneshots
  BY DEF Engines
<1>. HIDE DEF v
<1>5. \A x \in Stats : StatHandled(e.stat[x], v.stat[x], "start" \in K \cup {"stop"} /\ x \in e.starts[now],
                                   "stop" \in K \cup {"stop"} /\ x \in e.stops[now])
  BY <1>3, <1>4 DEF StatHandled
<1>. QED  BY <1>1, <1>2, <1>4, <1>5 DEF Handled, m

LEMMA HandlersEffect ==
    ASSUME NEW V, NEW e \in Engines(V), NEW c \in Seq({"start", "stop"}), OneOfAKind(c),
           {"start", "stop"} \subseteq ToSet(c) =>
              \A x \in Stats : ~(x \in e.starts[now] /\ x \in e.stops[now])
    PROVE  Handled(e, FoldLeft(Handle, e, c), ToSet(c))
<1>. DEFINE S == DOMAIN c
            h == [s \in SUBSET S |-> Max(s)]
            K(s) == {c[i] : i \in s}
<1>1. IsFiniteSet(S) /\ S \in SUBSET Nat /\ \A i \in S : c[i] \in {"start", "stop"}
  BY FS_Interval
<1>2. PICK it \in [SUBSET S -> Engines(V)] : HandleRun(it, e, c)
  BY HandleIter
<1>. DEFINE T == {s \in SUBSET S : Handled(e, it[s], K(s))}
<1>2a. /\ it[S] = FoldLeft(Handle, e, c)
       /\ \A s \in SUBSET S : it[s] = IF s = {} THEN e ELSE Handle(it[s \ {Max(s)}], c[Max(s)])
  BY <1>2 DEF HandleRun
<1>2b. \A i, j \in S : c[i] = c[j] => i = j
  BY DEF OneOfAKind
<1>2c. ToSet(c) = K(S)
  BY DEF ToSet
<1>. HIDE DEF S
<1>3. Picks(h, S)
  BY <1>1, LargestElement DEF Picks
<1>4. {} \in T
  <2>1. {} \in SUBSET S /\ it[{}] = e /\ K({}) = {}
    BY <1>2a
  <2>2. Handled(e, e, {})
    BY DEF Handled, StatHandled, SameData
  <2>. HIDE DEF K
  <2>. QED  BY <2>1, <2>2
<1>5. ASSUME NEW s \in SUBSET S, s # {}, s \ {h[s]} \in T PROVE s \in T
  <2>. DEFINE i == h[s]
              u == it[s \ {i}]
              v == it[s]
              k == c[i]
              J == K(s \ {i})
  <2>1. i = Max(s) /\ i \in S /\ i \in s
    BY <1>3, <1>5 DEF Picks
  <2>2. u \in Engines(V) /\ v = Handle(u, k) /\ Handled(e, u, J) /\ k \in {"start", "stop"}
    BY <1>1, <1>2, <1>2a, <1>5, <2>1
  <2>3. k \notin J /\ K(s) = J \cup {k} /\ K(s) \subseteq ToSet(c)
    BY <1>2b, <1>2c, <2>1
  <2>. HIDE DEF u, v, k, J, K
  <2>4. Handled(e, v, J \cup {k})
    <3>1. CASE k = "start"
      BY <2>2, <2>3, <3>1, StartHandled
    <3>2. CASE k = "stop"
      BY <2>2, <2>3, <3>2, StopHandled
    <3>. QED  BY <2>2, <3>1, <3>2
  <2>. QED  BY <2>3, <2>4 DEF v
<1>6. Inductive(T, h, S)
  BY <1>4, <1>5 DEF Inductive
<1>. HIDE DEF h
<1>7. S \in T
  <2>. HIDE DEF T
  <2>. QED  BY <1>1, <1>3, <1>6, SetInduction
<1>8. Handled(e, it[S], K(S))
  BY <1>7
<1>. QED  BY <1>2a, <1>2c, <1>8

-----------------------------------------------------------------------------
(* The steps that neither start nor stop a statistic. *)

SameFlags(st, new) ==
    /\ new.enabled = st.enabled
    /\ new.startAtFlag = st.startAtFlag /\ new.stopAtFlag = st.stopAtFlag
SameMaps(e, u) == u.starts = e.starts /\ u.stops = e.stops /\ u.oneshots = e.oneshots

LEMMA WindowsStay ==
    ASSUME StatInd, StatWindows, UNCHANGED <<config, order, regAt>>,
           SameMaps(engine, engine'), \A s \in Stats : SameFlags(engine.stat[s], engine'.stat[s]),
           \A s \in Registered :
              /\ Opens(s) => (Fired(config[s].startat)' <=> Fired(config[s].startat))
              /\ Closes(s) => (Fired(config[s].stopat)' <=> Fired(config[s].stopat)),
           \A t \in DOMAIN engine.oneshots : t >= now' /\ (prio' = EXIT => t > now')
    PROVE  StatWindows'
<1>1. Registered' = Registered /\ Registered \subseteq Stats
  BY DEF Registered, ToSet, StatInd, StatType
<1>2. /\ engine'.starts = engine.starts /\ engine'.stops = engine.stops
      /\ engine'.oneshots = engine.oneshots
  BY DEF SameMaps
<1>3. ASSUME NEW s \in Registered PROVE FlagsKept(s)'
  <2>1. Opens(s)' = Opens(s) /\ Closes(s)' = Closes(s)
    BY DEF Opens, Closes
  <2>2. s \in Stats /\ FlagsKept(s) /\ SameFlags(engine.stat[s], engine'.stat[s])
    BY <1>1 DEF StatWindows
  <2>3. /\ Opens(s) => (Fired(config[s].startat)' <=> Fired(config[s].startat))
        /\ Closes(s) => (Fired(config[s].stopat)' <=> Fired(config[s].stopat))
    OBVIOUS
  <2>. QED  BY <2>1, <2>2, <2>3 DEF FlagsKept, SameFlags
<1>4. \A s \in Stats \ Registered : Untouched(engine'.stat[s])
  BY DEF StatWindows, Untouched, SameFlags
<1>5. MapsKept(engine, Registered)'
  BY <1>1, <1>2 DEF StatWindows, MapsKept, SameFlags
<1>6. ShotsKept(engine)'
  BY <1>2 DEF StatWindows, ShotsKept
<1>7. \A t \in DOMAIN engine'.oneshots : t >= now' /\ (prio' = EXIT => t > now')
  BY <1>2
<1>8. (\A s \in Registered : FlagsKept(s))' /\ (\A s \in Stats \ Registered : Untouched(engine.stat[s]))'
  BY <1>1, <1>3, <1>4
<1>. QED  BY <1>5, <1>6, <1>7, <1>8 DEF StatWindows

(* The time stays the same, and the priority, unless it is before that of the one-shots. *)
LEMMA WindowsSame ==
    ASSUME StatInd, StatWindows, UNCHANGED <<config, order, regAt, now>>,
           SameMaps(engine, engine'), \A s \in Stats : SameFlags(engine.stat[s], engine'.stat[s]),
           prio' = prio \/ (prio < STATISTICCLOCK /\ prio' \in Nat /\ prio' < STATISTICCLOCK)
    PROVE  StatWindows'
<1>. USE DEF SYNC, EVENT, STATISTICCLOCK, EXIT
<1>1. engine'.oneshots = engine.oneshots /\ prio \in Nat
  BY DEF SameMaps, StatInd, StatType
<1>2. \A t : Fired(t)' <=> Fired(t)
  BY <1>1 DEF Fired
<1>3. \A t \in DOMAIN engine.oneshots : t >= now' /\ (prio' = EXIT => t > now')
  BY <1>1 DEF StatWindows
<1>. QED  BY <1>2, <1>3, WindowsStay

LEMMA AfterOutputFlags ==
    ASSUME NEW V, NEW s \in Stats, NEW st \in Collectors(V)
    PROVE  SameFlags(st, AfterOutput(s, st))
<1>. DEFINE counted == IF config[s].mode = "event" /\ ~config[s].group
                       THEN [st EXCEPT !.output = 0] ELSE st
            empty == Cleared(config[s].type)
            counts == IF config[s].type = "unique" THEN counted
                      ELSE [counted EXCEPT !.current = 0, !.output = 0]
            cleared == [counts EXCEPT !.data = empty]
<1>1. counted \in Collectors(V) /\ SameFlags(st, counted)
  BY DEF Collectors, SameFlags
<1>2. AfterOutput(s, st) = IF config[s].reset THEN cleared ELSE counted
  BY DEF AfterOutput, ClearData
<1>. HIDE DEF counted
<1>3. counts \in Collectors(V) /\ SameFlags(st, counts)
  BY <1>1 DEF Collectors, SameFlags
<1>. HIDE DEF counts, empty
<1>4. SameFlags(st, cleared)
  BY <1>3 DEF Collectors, SameFlags
<1>. QED  BY <1>1, <1>2, <1>4

LEMMA OutputWindows ==
    ASSUME NEW V, NEW e \in Engines(V), NEW S, NEW why, Output(S, why, e)
    PROVE  SameMaps(e, engine') /\ \A s \in Stats : SameFlags(e.stat[s], engine'.stat[s])
<1>. DEFINE st == [s \in Stats |-> IF started /\ s \in S /\ why # "end"
                                   THEN AfterOutput(s, e.stat[s]) ELSE e.stat[s]]
<1>1. engine' = [e EXCEPT !.stat = st]
  BY DEF Output
<1>2. ASSUME NEW s \in Stats PROVE SameFlags(e.stat[s], st[s])
  <2>1. e.stat[s] \in Collectors(V)
    BY DEF Engines
  <2>2. SameFlags(e.stat[s], AfterOutput(s, e.stat[s]))
    BY <2>1, AfterOutputFlags
  <2>3. SameFlags(e.stat[s], e.stat[s])
    BY DEF SameFlags
  <2>. QED  BY <2>2, <2>3
<1>. HIDE DEF st
<1>3. engine'.stat = st /\ SameMaps(e, engine')
  BY <1>1 DEF Engines, SameMaps
<1>. QED  BY <1>2, <1>3

(* The steps that output, and of what engine they do. *)
Outputs == OutputAll \/ EndOfSimulation \/ GroupClockEvent \/ \E f \in DOMAIN engine.clocks : ClockEvent(f)
OutputOf(S, why, e, V) ==
    /\ S \subseteq Registered /\ Output(S, why, e)
    /\ e \in Engines(V) /\ e.stat = engine.stat /\ SameMaps(engine, e)

LEMMA OutputSteps ==
    ASSUME StatInd, Outputs
    PROVE  /\ \E V, S, why, e : OutputOf(S, why, e, V)
           /\ UNCHANGED <<config, order, regAt, now, prio, given>>
<1>1. PICK V : engine \in Engines(V)
  BY DEF StatInd, StatType
<1>2. UNCHANGED <<config, order, regAt, now, prio, given>>
  BY DEF Outputs, OutputAll, EndOfSimulation, GroupClockEvent, ClockEvent
<1>3. CASE OutputAll \/ EndOfSimulation
  <2>1. PICK why : Output(Registered, why, engine)
    BY <1>3 DEF OutputAll, EndOfSimulation
  <2>2. OutputOf(Registered, why, engine, V)
    BY <1>1, <2>1 DEF OutputOf, SameMaps
  <2>. QED  BY <1>2, <2>2
<1>4. CASE GroupClockEvent
  <2>. DEFINE g == now + GroupRate
              e == [engine EXCEPT !.groupClock = g]
              S == {s \in Registered : config[s].group}
  <2>1. now \in Nat /\ GroupRate \in Nat
    BY StatisticsAssumption DEF StatInd, StatType
  <2>2. g \in Nat
    BY <2>1
  <2>3. Output(S, "clock", e) /\ S \subseteq Registered
    BY <1>4 DEF GroupClockEvent
  <2>. HIDE DEF g, S
  <2>4. e \in Engines(V) /\ e.stat = engine.stat /\ SameMaps(engine, e)
    BY <1>1, <2>2 DEF Engines, SameMaps
  <2>. HIDE DEF e
  <2>5. OutputOf(S, "clock", e, V)
    BY <2>3, <2>4 DEF OutputOf
  <2>. QED  BY <1>2, <2>5
<1>5. ASSUME NEW f \in DOMAIN engine.clocks, ClockEvent(f) PROVE \E W, S, why, e : OutputOf(S, why, e, W)
  <2>. DEFINE c == [engine.clocks EXCEPT ![f] = now + f]
              e == [engine EXCEPT !.clocks = c]
              S == {s \in Registered : config[s].mode = "time" /\ config[s].rate = f /\ ~config[s].group}
  <2>1. now \in Nat /\ f \in Nat
    BY <1>1 DEF StatInd, StatType, Engines, PartialMaps
  <2>2. c \in PartialMaps(Nat \ {0}, Nat)
    BY <1>1, <2>1 DEF Engines, PartialMaps
  <2>3. Output(S, "clock", e)
    <3>1. Output(S, "clock", [engine EXCEPT !.clocks[f] = now + f])
      BY <1>5 DEF ClockEvent
    <3>2. [engine EXCEPT !.clocks[f] = now + f] = e
      BY <1>1 DEF Engines
    <3>. HIDE DEF e, S
    <3>. QED  BY <3>1, <3>2
  <2>4. S \subseteq Registered
    OBVIOUS
  <2>. HIDE DEF c, S
  <2>5. e \in Engines(V) /\ e.stat = engine.stat /\ SameMaps(engine, e)
    BY <1>1, <2>2 DEF Engines, SameMaps
  <2>. HIDE DEF e
  <2>6. OutputOf(S, "clock", e, V)
    BY <2>3, <2>4, <2>5 DEF OutputOf
  <2>. QED  BY <2>6
<1>. QED  BY <1>2, <1>3, <1>4, <1>5 DEF Outputs

LEMMA OutputsKeepWindows ==
    ASSUME StatInd, StatWindows, Outputs
    PROVE  StatWindows'
<1>1. PICK V, S, why, e : OutputOf(S, why, e, V)
  BY OutputSteps
<1>2. SameMaps(e, engine') /\ \A s \in Stats : SameFlags(e.stat[s], engine'.stat[s])
  BY <1>1, OutputWindows DEF OutputOf
<1>3. SameMaps(engine, engine') /\ \A s \in Stats : SameFlags(engine.stat[s], engine'.stat[s])
  BY <1>1, <1>2 DEF OutputOf, SameMaps
<1>4. UNCHANGED <<config, order, regAt, now, prio>>
  BY OutputSteps
<1>. QED  BY <1>3, <1>4, WindowsSame

LEMMA AddDataKeepsWindows ==
    ASSUME StatInd, StatWindows, NEW s \in Stats, NEW n \in Nat, NEW v, AddData(s, n, v)
    PROVE  StatWindows'
<1>. DEFINE old == engine.stat[s]
            st == [old EXCEPT !.data = AddImpl(config[s].type, @, n, v),
                              !.current = @ + n, !.output = @ + n]
            due == old.enabled /\ OutputIsDue(s, st) /\ started
            new == IF ~old.enabled THEN old ELSE IF due THEN AfterOutput(s, st) ELSE st
            added == AddImpl(config[s].type, old.data, n, v)
<1>1. PICK V : engine \in Engines(V)
  BY DEF StatInd, StatType
<1>2. engine.stat \in [Stats -> Collectors(V)] /\ old \in Collectors(V)
  BY <1>1 DEF Engines
<1>3. st \in Collectors(V \cup {added}) /\ SameFlags(old, st)
  <2>1. st = [old EXCEPT !.data = added, !.current = @ + n, !.output = @ + n]
    BY <1>2 DEF Collectors
  <2>. HIDE DEF old, added, st
  <2>2. old.current + n \in Nat /\ old.output + n \in Nat
    BY <1>2 DEF Collectors
  <2>. DEFINE A == V \cup {added}
  <2>3. old \in Collectors(A) /\ added \in A
    BY <1>2 DEF Collectors
  <2>. HIDE DEF A
  <2>4. st \in Collectors(A) /\ SameFlags(old, st)
    BY <2>1, <2>2, <2>3 DEF Collectors, SameFlags
  <2>. QED  BY <2>4 DEF A
<1>4. engine' = [engine EXCEPT !.stat[s] = new]
  BY DEF AddData
<1>. HIDE DEF st, added, due
<1>5. SameFlags(old, new)
  <2>1. SameFlags(st, AfterOutput(s, st))
    BY <1>3, AfterOutputFlags
  <2>2. SameFlags(old, AfterOutput(s, st)) /\ SameFlags(old, old)
    BY <1>3, <2>1 DEF SameFlags
  <2>. HIDE DEF old
  <2>. QED  BY <1>3, <2>2
<1>. HIDE DEF new
<1>6. SameMaps(engine, engine') /\ \A x \in Stats : SameFlags(engine.stat[x], engine'.stat[x])
  <2>. DEFINE m == [engine.stat EXCEPT ![s] = new]
  <2>1. engine' = [engine EXCEPT !.stat = m]
    BY <1>1, <1>4 DEF Engines
  <2>2. \A x \in Stats : SameFlags(engine.stat[x], m[x])
    <3>1. ASSUME NEW x \in Stats PROVE SameFlags(engine.stat[x], m[x])
      <4>1. m[x] = IF x = s THEN new ELSE engine.stat[x]
        BY <1>2
      <4>2. SameFlags(engine.stat[x], engine.stat[x])
        BY DEF SameFlags
      <4>. QED  BY <1>5, <4>1, <4>2
    <3>. QED  BY <3>1
  <2>. HIDE DEF m
  <2>3. engine'.stat = m /\ SameMaps(engine, engine')
    BY <1>1, <2>1 DEF Engines, SameMaps
  <2>. QED  BY <2>2, <2>3
<1>7. UNCHANGED <<config, order, regAt, now, prio>>
  BY DEF AddData
<1>. QED  BY <1>6, <1>7, WindowsSame

LEMMA PhasesKeepWindows ==
    ASSUME StatInd, StatWindows, WireUpFinished \/ PrepareForRun \/ EndRun \/ UNCHANGED statVars
    PROVE  StatWindows'
<1>. USE DEF SYNC, EVENT, STATISTICCLOCK, EXIT
<1>1. PICK V : engine \in Engines(V)
  BY DEF StatInd, StatType
<1>2. UNCHANGED <<config, order, regAt, now>>
  BY DEF WireUpFinished, PrepareForRun, EndRun, statVars
<1>3. prio' = prio \/ (prio < STATISTICCLOCK /\ prio' \in Nat /\ prio' < STATISTICCLOCK)
  <2>1. PrepareForRun => prio = 0 /\ prio' = EVENT
    BY DEF PrepareForRun, StatInd, StatPhase
  <2>2. ~PrepareForRun => prio' = prio
    BY DEF WireUpFinished, EndRun, statVars
  <2>. QED  BY <2>1, <2>2
<1>4. SameMaps(engine, engine') /\ engine'.stat = engine.stat
  <2>1. CASE WireUpFinished
    <3>. DEFINE g == FirstTick(GroupRate)
                u == [engine EXCEPT !.groupClock = g]
    <3>1. engine' = IF GroupRate = 0 THEN engine ELSE u
      BY <2>1 DEF WireUpFinished, Finalize
    <3>. HIDE DEF g
    <3>2. SameMaps(engine, u) /\ u.stat = engine.stat
      BY <1>1 DEF Engines, SameMaps
    <3>. HIDE DEF u
    <3>. QED  BY <3>1, <3>2 DEF SameMaps
  <2>2. CASE ~WireUpFinished
    BY <2>2 DEF PrepareForRun, EndRun, statVars, SameMaps
  <2>. QED  BY <2>1, <2>2
<1>5. \A s \in Stats : SameFlags(engine.stat[s], engine'.stat[s])
  BY <1>4 DEF SameFlags
<1>. QED  BY <1>2, <1>3, <1>4, <1>5, WindowsSame

-----------------------------------------------------------------------------
(* The steps that start and stop statistics, and those of time. *)

LEMMA StatNow ==
    ASSUME StatInd
    PROVE  /\ now \in Nat /\ prio \in Nat /\ order \in Seq(Stats)
           /\ Registered \subseteq Stats
           /\ \A s \in Stats : /\ config[s] \in Configs /\ regAt[s] \in Nat /\ config[s].rate \in Nat
                               /\ config[s].startat \in Nat /\ config[s].stopat \in Nat
<1>1. \A s \in Stats : config[s].rate \in Nat /\ config[s].startat \in Nat /\ config[s].stopat \in Nat
  BY RatesAreNat DEF StatInd
<1>. QED  BY <1>1 DEF StatInd, StatType, Registered, ToSet, SYNC, EVENT, STATISTICCLOCK, EXIT

LEMMA WindowsStart ==
    ASSUME StatInit
    PROVE  StatWindows
<1>1. Registered = {}
  BY DEF StatInit, Registered, ToSet
<1>2. \A s \in Stats : Untouched(engine.stat[s])
  BY DEF StatInit, NoEngine, NewStat, Untouched
<1>3. engine.starts = <<>> /\ engine.stops = <<>> /\ engine.oneshots = <<>>
  BY DEF StatInit, NoEngine
<1>4. DOMAIN engine.starts = {} /\ DOMAIN engine.stops = {} /\ DOMAIN engine.oneshots = {}
  BY <1>3
<1>5. MapsKept(engine, Registered) /\ ShotsKept(engine)
  BY <1>1, <1>4 DEF MapsKept, Maps, ShotsKept, HasHandler, AllKinds, Ready
<1>. QED  BY <1>1, <1>2, <1>4, <1>5 DEF StatWindows

(* There is a one-shot for a statistic that waits. *)
LEMMA Awaited ==
    ASSUME StatInd, StatWindows, NEW s \in Registered
    PROVE  /\ Opens(s) /\ ~Fired(config[s].startat) => config[s].startat \in DOMAIN engine.oneshots
           /\ Closes(s) /\ ~Fired(config[s].stopat) => config[s].stopat \in DOMAIN engine.oneshots
<1>1. s \in Stats /\ config[s].startat \in Nat /\ config[s].stopat \in Nat
  BY StatNow
<1>2. FlagsKept(s) /\ MapsKept(engine, Registered) /\ ShotsKept(engine)
  BY DEF StatWindows
<1>3. Opens(s) /\ ~Fired(config[s].startat) => config[s].startat \in DOMAIN engine.starts
  BY <1>1, <1>2 DEF FlagsKept, MapsKept, Maps
<1>4. Closes(s) /\ ~Fired(config[s].stopat) => config[s].stopat \in DOMAIN engine.stops
  BY <1>1, <1>2 DEF FlagsKept, MapsKept, Maps
<1>. QED  BY <1>1, <1>2, <1>3, <1>4 DEF ShotsKept, HasHandler

LEMMA AdvanceKeepsWindows ==
    ASSUME StatInd, StatWindows, Advance
    PROVE  StatWindows'
<1>. USE DEF SYNC, EVENT, STATISTICCLOCK, EXIT
<1>1. UNCHANGED <<config, order, regAt, engine>> /\ now \in Nat
  BY StatNow DEF Advance
<1>2. SameMaps(engine, engine') /\ \A s \in Stats : SameFlags(engine.stat[s], engine'.stat[s])
  BY <1>1 DEF SameMaps, SameFlags
<1>3. CASE prio = SYNC
  <2>1. prio' = EVENT /\ now' = now
    BY <1>3 DEF Advance
  <2>. QED  BY <1>1, <1>2, <1>3, <2>1, WindowsSame
<1>4. \A t \in DOMAIN engine.oneshots : t \in Nat /\ t >= now /\ (prio = EXIT => t > now)
  <2>1. PICK V : engine \in Engines(V)
    BY DEF StatInd, StatType
  <2>2. \A t \in DOMAIN engine.oneshots : t \in Nat
    BY <2>1 DEF Engines, PartialMaps
  <2>. QED  BY <2>2 DEF StatWindows
<1>5. CASE prio = EVENT
  <2>1. prio' = STATISTICCLOCK /\ now' = now
    BY <1>5 DEF Advance
  <2>2. \A t : Fired(t) <=> t < now
    BY <1>5 DEF Fired
  <2>3. \A t : Fired(t)' <=> t < now \/ (t = now /\ now \notin DOMAIN engine.oneshots)
    BY <1>1, <2>1 DEF Fired
  <2>4. \A s \in Registered :
              /\ Opens(s) => (Fired(config[s].startat)' <=> Fired(config[s].startat))
              /\ Closes(s) => (Fired(config[s].stopat)' <=> Fired(config[s].stopat))
    <3>1. ASSUME NEW s \in Registered
          PROVE  /\ Opens(s) => (Fired(config[s].startat)' <=> Fired(config[s].startat))
                 /\ Closes(s) => (Fired(config[s].stopat)' <=> Fired(config[s].stopat))
      <4>. DEFINE a == config[s].startat
                  b == config[s].stopat
      <4>1. a' = a /\ b' = b
        BY <1>1
      <4>2. /\ Opens(s) /\ ~Fired(a) => a \in DOMAIN engine.oneshots
            /\ Closes(s) /\ ~Fired(b) => b \in DOMAIN engine.oneshots
        BY Awaited
      <4>3. a \in Nat /\ b \in Nat
        BY StatNow
      <4>. HIDE DEF a, b
      <4>4. /\ Opens(s) => ((a < now \/ (a = now /\ now \notin DOMAIN engine.oneshots)) <=> Fired(a))
            /\ Closes(s) => ((b < now \/ (b = now /\ now \notin DOMAIN engine.oneshots)) <=> Fired(b))
        BY <2>2, <4>2, <4>3
      <4>5. /\ Fired(config[s].startat)' <=> (a < now \/ (a = now /\ now \notin DOMAIN engine.oneshots))
            /\ Fired(config[s].stopat)' <=> (b < now \/ (b = now /\ now \notin DOMAIN engine.oneshots))
        BY <1>1, <2>1 DEF Fired, a, b
      <4>. QED  BY <4>4, <4>5 DEF a, b
    <3>. QED  BY <3>1
  <2>5. \A t \in DOMAIN engine.oneshots : t >= now' /\ (prio' = EXIT => t > now')
    BY <1>4, <2>1
  <2>. QED  BY <1>1, <1>2, <2>4, <2>5, WindowsStay
<1>6. CASE prio = STATISTICCLOCK
  <2>1. prio' = EXIT /\ now' = now /\ ~OneShotDue
    BY <1>6 DEF Advance, NothingDue
  <2>2. now \notin DOMAIN engine.oneshots
    <3>. SUFFICES ASSUME now \in DOMAIN engine.oneshots PROVE FALSE
      OBVIOUS
    <3>1. \A r \in DOMAIN engine.oneshots : now <= r
      BY <1>1, <1>4
    <3>2. engine.oneshots[now].scheduled
      BY <3>1 DEF StatWindows, ShotsKept, Ready
    <3>. QED  BY <2>1, <3>2 DEF OneShotDue
  <2>3. \A s \in Registered : /\ Fired(config[s].startat)' <=> Fired(config[s].startat)
                              /\ Fired(config[s].stopat)' <=> Fired(config[s].stopat)
    BY <1>1, <1>6, <2>1, <2>2 DEF Fired
  <2>4. \A t \in DOMAIN engine.oneshots : t >= now' /\ (prio' = EXIT => t > now')
    BY <1>1, <1>4, <2>1, <2>2
  <2>. QED  BY <1>1, <1>2, <2>3, <2>4, WindowsStay
<1>7. CASE prio = EXIT
  <2>1. prio' = SYNC /\ now' = now + 1
    BY <1>7 DEF Advance
  <2>2. now \notin DOMAIN engine.oneshots
    BY <1>1, <1>4, <1>7
  <2>3. \A t \in Nat : t < now + 1 <=> Fired(t)
    BY <1>1, <1>7, <2>2 DEF Fired
  <2>4. \A s \in Registered : /\ Fired(config[s].startat)' <=> Fired(config[s].startat)
                              /\ Fired(config[s].stopat)' <=> Fired(config[s].stopat)
    <3>1. ASSUME NEW s \in Registered
          PROVE  /\ Fired(config[s].startat)' <=> config[s].startat < now + 1
                 /\ Fired(config[s].stopat)' <=> config[s].stopat < now + 1
      BY <1>1, <2>1 DEF Fired
    <3>2. \A s \in Registered : config[s].startat \in Nat /\ config[s].stopat \in Nat
      BY StatNow
    <3>. QED  BY <2>3, <3>1, <3>2
  <2>5. \A t \in DOMAIN engine.oneshots : t >= now' /\ (prio' = EXIT => t > now')
    BY <1>1, <1>4, <1>7, <2>1
  <2>. QED  BY <1>1, <1>2, <2>4, <2>5, WindowsStay
<1>. QED  BY <1>3, <1>5, <1>6, <1>7 DEF Advance

LEMMA RegisterKeepsWindows ==
    ASSUME StatInd, StatWindows, NEW s \in Stats, Register(s)
    PROVE  StatWindows'
<1>. USE DEF SYNC, EVENT, STATISTICCLOCK, EXIT
<1>. DEFINE a == config[s].startat
            b == config[s].stopat
<1>1. PICK V : engine \in Engines(V)
  BY DEF StatInd, StatType
<1>2. /\ UNCHANGED <<config, phase, now, prio>> /\ s \notin Registered
      /\ order' = Append(order, s) /\ regAt' = [regAt EXCEPT ![s] = now]
      /\ now \in Nat /\ prio \in Nat /\ prio < STATISTICCLOCK
  BY DEF Register, StatInd, StatType, StatPhase
<1>3. a \in Nat /\ b \in Nat /\ config[s].rate \in Nat /\ order \in Seq(Stats) /\ Registered \subseteq Stats
  BY StatNow
<1>4. Asked(engine, engine', s, a, b)
  <2>1. engine' = Join(engine, s, a, b)
    BY DEF Register
  <2>. HIDE DEF a, b
  <2>. QED  BY <1>1, <1>2, <1>3, <2>1, JoinEffect
<1>5. Registered' = Registered \cup {s}
  <2>1. DOMAIN order' = DOMAIN order \cup {Len(order) + 1}
        /\ order'[Len(order) + 1] = s /\ \A i \in DOMAIN order : order'[i] = order[i]
    BY <1>2, <1>3, AppendRow
  <2>. QED  BY <2>1 DEF Registered, ToSet
<1>6. \A t : (Fired(t) <=> t < now)
  BY <1>2 DEF Fired
<1>7. \A t : (t < now)' <=> t < now
  BY <1>2
<1>8. \A x \in Stats : /\ Fired(config[x].startat)' <=> config[x].startat < now
                       /\ Fired(config[x].stopat)' <=> config[x].stopat < now
  BY <1>2 DEF Fired
<1>9. ASSUME NEW x \in Registered PROVE FlagsKept(x)'
  <2>1. x \in Stats /\ x # s /\ FlagsKept(x)
    BY <1>2, <1>3 DEF StatWindows
  <2>2. engine'.stat[x] = engine.stat[x]
    BY <1>4, <2>1 DEF Asked
  <2>3. Opens(x)' = Opens(x) /\ Closes(x)' = Closes(x)
    BY <1>2, <2>1 DEF Opens, Closes, StatInd, StatType
  <2>4. UNCHANGED config
    BY <1>2
  <2>. QED  BY <1>6, <1>8, <2>1, <2>2, <2>3, <2>4 DEF FlagsKept
<1>10. FlagsKept(s)'
  <2>1. Untouched(engine.stat[s]) /\ StatAsked(engine.stat[s], engine'.stat[s], a, b)
    BY <1>2, <1>4 DEF StatWindows, Asked
  <2>2. (Opens(s)' <=> a > now) /\ (Closes(s)' <=> b > now)
    BY <1>2 DEF Opens, Closes, StatInd, StatType
  <2>3. ~(Opens(s)' /\ Fired(config[s].startat)') /\ ~(Closes(s)' /\ Fired(config[s].stopat)')
    BY <1>2, <1>3, <1>8, <2>2
  <2>4. (engine'.stat[s].startAtFlag <=> a > now) /\ (engine'.stat[s].stopAtFlag <=> b > now)
        /\ (engine'.stat[s].enabled <=> ~(a > now))
    <3>. HIDE DEF a, b
    <3>. QED  BY <2>1 DEF Untouched, StatAsked
  <2>5. /\ engine'.stat[s].enabled \in BOOLEAN /\ engine'.stat[s].startAtFlag \in BOOLEAN
        /\ engine'.stat[s].stopAtFlag \in BOOLEAN
    <3>1. PICK W : engine' \in Engines(W)
      BY RegisterKeeps DEF StatInd, StatType
    <3>2. engine'.stat[s] \in Collectors(W)
      BY <3>1 DEF Engines
    <3>. QED  BY <3>2 DEF Collectors
  <2>. QED  BY <2>2, <2>3, <2>4, <2>5 DEF FlagsKept
<1>11. ASSUME NEW x \in Stats \ Registered' PROVE Untouched(engine'.stat[x])
  <2>1. x # s /\ Untouched(engine.stat[x])
    BY <1>5 DEF StatWindows
  <2>2. engine'.stat[x] = engine.stat[x]
    BY <1>4, <2>1 DEF Asked
  <2>. QED  BY <2>1, <2>2
<1>12. MapsKept(engine, Registered)'
  <2>. SUFFICES ASSUME NEW x \in Stats, NEW t \in Nat
                PROVE  /\ Maps(engine'.starts, t, x) <=> /\ x \in Registered' /\ engine'.stat[x].startAtFlag
                                                         /\ t = config[x].startat
                       /\ Maps(engine'.stops, t, x) <=> /\ x \in Registered' /\ engine'.stat[x].stopAtFlag
                                                        /\ t = config[x].stopat
    BY <1>2 DEF MapsKept
  <2>1. /\ Maps(engine'.starts, t, x) <=> Maps(engine.starts, t, x) \/ (t = a /\ x = s /\ a > now)
        /\ Maps(engine'.stops, t, x) <=> Maps(engine.stops, t, x) \/ (t = b /\ x = s /\ b > now)
    BY <1>4 DEF Asked
  <2>2. /\ Maps(engine.starts, t, x) <=> /\ x \in Registered /\ engine.stat[x].startAtFlag
                                         /\ t = config[x].startat
        /\ Maps(engine.stops, t, x) <=> /\ x \in Registered /\ engine.stat[x].stopAtFlag
                                        /\ t = config[x].stopat
    BY DEF StatWindows, MapsKept
  <2>3. CASE x # s
    <3>1. engine'.stat[x] = engine.stat[x]
      BY <1>4, <2>3 DEF Asked
    <3>. QED  BY <1>5, <2>1, <2>2, <2>3, <3>1
  <2>4. CASE x = s
    <3>1. Untouched(engine.stat[s]) /\ StatAsked(engine.stat[s], engine'.stat[s], a, b)
      BY <1>2, <1>4 DEF StatWindows, Asked
    <3>2. (engine'.stat[s].startAtFlag <=> a > now) /\ (engine'.stat[s].stopAtFlag <=> b > now)
      <4>. HIDE DEF a, b
      <4>. QED  BY <3>1 DEF Untouched, StatAsked
    <3>. QED  BY <1>2, <1>5, <2>1, <2>2, <2>4, <3>2
  <2>. QED  BY <2>3, <2>4
<1>13. ShotsKept(engine)'
  <2>1. ShotsKept(engine')
    BY <1>4 DEF Asked, StatWindows
  <2>. QED  BY <2>1 DEF ShotsKept
<1>14. \A t \in DOMAIN engine'.oneshots : t >= now' /\ (prio' = EXIT => t > now')
  <2>1. PICK W : engine' \in Engines(W)
    BY RegisterKeeps DEF StatInd, StatType
  <2>2. \A t \in DOMAIN engine'.oneshots : t \in Nat
    BY <2>1 DEF Engines, PartialMaps
  <2>3. \A t \in DOMAIN engine'.oneshots : t \in DOMAIN engine.oneshots \/ t > now
    BY <1>4 DEF Asked
  <2>4. \A t \in DOMAIN engine.oneshots : t >= now
    BY DEF StatWindows
  <2>. QED  BY <1>2, <2>2, <2>3, <2>4
<1>15. (\A x \in Registered : FlagsKept(x))' /\ (\A x \in Stats \ Registered : Untouched(engine.stat[x]))'
  BY <1>5, <1>9, <1>10, <1>11
<1>. QED  BY <1>12, <1>13, <1>14, <1>15 DEF StatWindows

(* What the statistics bring back after a restart. *)
LEMMA RestartEffect ==
    ASSUME StatInd, StatWindows, WindowsSound, Restart
    PROVE  \E u : /\ Rejoined(u, Registered) /\ DOMAIN u.oneshots \subseteq Nat
                  /\ engine'.stat = u.stat /\ SameMaps(u, engine')
<1>. USE DEF SYNC, EVENT, STATISTICCLOCK, EXIT
<1>. DEFINE e == NoEngine(engine.stat)
            u == FoldLeft(Rejoin, e, order)
            g == FirstTick(GroupRate)
            w == [u EXCEPT !.groupClock = g]
<1>1. PICK V : engine \in Engines(V)
  BY DEF StatInd, StatType
<1>2. /\ UNCHANGED <<config, order, phase, now, prio, regAt>>
      /\ prio = SYNC /\ now \in CheckpointTimes /\ now \in Nat /\ prio \in Nat /\ order \in Seq(Stats)
      /\ Registered \subseteq Stats /\ \A s \in Stats : config[s].rate \in Nat
  BY StatNow DEF Restart
<1>3. e \in Engines(V) /\ e.stat = engine.stat /\ e.starts = <<>> /\ e.stops = <<>> /\ e.oneshots = <<>>
  <2>1. engine.stat \in [Stats -> Collectors(V)]
    BY <1>1 DEF Engines
  <2>2. \A A, B : <<>> \in PartialMaps(A, B)
    BY NothingMapped
  <2>. QED  BY <2>1, <2>2 DEF NoEngine, Engines
<1>4. \A s \in Registered : Resumable(s)
  BY <1>2, SavedTimes
<1>5. engine' = Finalize(u)
  BY DEF Restart
<1>. HIDE DEF e
<1>6. Rejoined(u, Registered)
  BY <1>1, <1>2, <1>3, <1>4, RejoinEffect
<1>7. u \in Engines(V)
  <2>1. e.clocks = <<>>
    BY DEF NoEngine, e
  <2>. QED  BY <1>1, <1>2, <1>3, <2>1, RejoinFold
<1>8. engine'.stat = u.stat /\ SameMaps(u, engine')
  <2>1. engine' = IF GroupRate = 0 THEN u ELSE w
    BY <1>5 DEF Finalize
  <2>. HIDE DEF u, g
  <2>2. w.stat = u.stat /\ SameMaps(u, w)
    BY <1>7 DEF Engines, SameMaps
  <2>. HIDE DEF w
  <2>. QED  BY <2>1, <2>2 DEF SameMaps
<1>. HIDE DEF u
<1>9. DOMAIN u.oneshots \subseteq Nat
  BY <1>7 DEF Engines, PartialMaps
<1>. QED  BY <1>6, <1>8, <1>9

LEMMA RestartKeepsWindows ==
    ASSUME StatInd, StatWindows, WindowsSound, Restart
    PROVE  StatWindows'
<1>. USE DEF SYNC, EVENT, STATISTICCLOCK, EXIT
<1>1. /\ UNCHANGED <<config, order, phase, now, prio, regAt>> /\ prio = SYNC /\ now \in Nat
      /\ Registered \subseteq Stats
  BY StatNow DEF Restart
<1>2. PICK u : /\ Rejoined(u, Registered) /\ DOMAIN u.oneshots \subseteq Nat
               /\ engine'.stat = u.stat /\ SameMaps(u, engine')
  BY RestartEffect
<1>3. Registered' = Registered
  BY <1>1 DEF Registered
<1>4. \A x \in Stats : SameStat(engine.stat[x], engine'.stat[x])
  BY <1>2 DEF Rejoined
<1>5. ASSUME NEW x \in Registered PROVE FlagsKept(x)'
  <2>1. x \in Stats /\ FlagsKept(x) /\ SameStat(engine.stat[x], engine'.stat[x])
    BY <1>1, <1>4 DEF StatWindows
  <2>2. Opens(x)' = Opens(x) /\ Closes(x)' = Closes(x) /\ UNCHANGED config
    BY <1>1 DEF Opens, Closes
  <2>3. /\ Fired(config[x].startat)' <=> Fired(config[x].startat)
        /\ Fired(config[x].stopat)' <=> Fired(config[x].stopat)
    BY <1>1 DEF Fired
  <2>. QED  BY <2>1, <2>2, <2>3 DEF FlagsKept, SameStat
<1>6. \A x \in Stats \ Registered : Untouched(engine'.stat[x])
  BY <1>4 DEF StatWindows, Untouched, SameStat
<1>7. MapsKept(engine, Registered)'
  <2>1. MapsKept(u, Registered)
    BY <1>2 DEF Rejoined
  <2>2. UNCHANGED config
    BY <1>1
  <2>. QED  BY <1>2, <1>3, <2>1, <2>2 DEF MapsKept, SameMaps
<1>8. ShotsKept(engine)' /\ \A t \in DOMAIN engine'.oneshots : t >= now' /\ (prio' = EXIT => t > now')
  <2>1. ShotsKept(u) /\ \A t \in DOMAIN u.oneshots : t > now /\ t \in Nat
    BY <1>2 DEF Rejoined
  <2>2. ShotsKept(engine')
    BY <1>2, <2>1 DEF ShotsKept, SameMaps
  <2>3. ShotsKept(engine)'
    BY <2>2 DEF ShotsKept
  <2>. QED  BY <1>1, <1>2, <2>1, <2>3 DEF SameMaps
<1>9. (\A x \in Registered : FlagsKept(x))' /\ (\A x \in Stats \ Registered : Untouched(engine.stat[x]))'
  BY <1>3, <1>5, <1>6
<1>. QED  BY <1>7, <1>8, <1>9 DEF StatWindows

LEMMA DropMaps ==
    ASSUME NEW m, NEW x
    PROVE  /\ DOMAIN Drop(m, x) = DOMAIN m \ {x}
           /\ \A t \in DOMAIN m : t # x => Drop(m, x)[t] = m[t]
           /\ \A t, s : Maps(Drop(m, x), t, s) <=> Maps(m, t, s) /\ t # x
BY DEF Drop, Restrict, Maps

(* What is left after the callback of a time. *)
LEMMA CallbackEffect ==
    ASSUME NEW o \in PartialMaps(Nat, Shots), AllKinds(o)
    PROVE  /\ DOMAIN Callback(o) = DOMAIN o \ {now}
           /\ \A t, k : HasHandler(Callback(o), t, k) <=> HasHandler(o, t, k) /\ t # now
           /\ AllKinds(Callback(o))
           /\ Ready(Callback(o))
<1>. DEFINE d == Drop(o, now)
            r == ScheduleNext(d)
<1>1. d \in PartialMaps(Nat, Shots)
  BY DropType
<1>2. DOMAIN d = DOMAIN o \ {now} /\ \A t \in DOMAIN o : t # now => d[t] = o[t]
  BY DropMaps
<1>3. Callback(o) = r
  BY DEF Callback
<1>. HIDE DEF d
<1>4. DOMAIN r = DOMAIN d /\ (\A t \in DOMAIN d : r[t].handlers = d[t].handlers) /\ Ready(r)
  BY <1>1, NextEffect
<1>. HIDE DEF r
<1>5. \A t \in DOMAIN r : r[t].handlers = o[t].handlers
  BY <1>2, <1>4
<1>6. AllKinds(r)
  BY <1>2, <1>4, <1>5 DEF AllKinds
<1>7. ASSUME NEW t, NEW k PROVE HasHandler(r, t, k) <=> HasHandler(o, t, k) /\ t # now
  <2>1. CASE t \in DOMAIN r
    BY <1>2, <1>4, <1>5, <2>1 DEF HasHandler
  <2>2. CASE t \notin DOMAIN r
    BY <1>2, <1>4, <2>2 DEF HasHandler
  <2>. QED  BY <2>1, <2>2
<1>. QED  BY <1>2, <1>3, <1>4, <1>6, <1>7

(* No statistic is started and stopped at once. *)
LEMMA NotBoth ==
    ASSUME StatInd, StatWindows, WindowsSound, NEW x \in Stats
    PROVE  ~(Maps(engine.starts, now, x) /\ Maps(engine.stops, now, x))
<1>1. now \in Nat /\ config[x] \in Configs /\ regAt[x] \in Nat
  BY StatNow
<1>. SUFFICES ASSUME Maps(engine.starts, now, x), Maps(engine.stops, now, x)
              PROVE  FALSE
  OBVIOUS
<1>2. /\ x \in Registered /\ engine.stat[x].startAtFlag
      /\ now = config[x].startat /\ now = config[x].stopat
  BY <1>1 DEF StatWindows, MapsKept
<1>3. config[x].startat > regAt[x]
  BY <1>2 DEF StatWindows, FlagsKept, Opens
<1>4. config[x].startat = config[x].stopat => config[x].startat = 0
  BY <1>1 DEF WindowsSound
<1>5. now = 0 /\ now > regAt[x]
  BY <1>2, <1>3, <1>4
<1>. QED  BY <1>1, <1>5

LEMMA OneShotEffect ==
    ASSUME StatInd, StatWindows, WindowsSound, OneShotExecute
    PROVE  /\ engine'.oneshots = Callback(engine.oneshots)
           /\ DOMAIN engine'.starts = DOMAIN engine.starts \ {now}
           /\ DOMAIN engine'.stops = DOMAIN engine.stops \ {now}
           /\ \A t, x : /\ Maps(engine'.starts, t, x) <=> Maps(engine.starts, t, x) /\ t # now
                        /\ Maps(engine'.stops, t, x) <=> Maps(engine.stops, t, x) /\ t # now
           /\ \A x \in Stats : StatHandled(engine.stat[x], engine'.stat[x],
                                           Maps(engine.starts, now, x), Maps(engine.stops, now, x))
<1>. DEFINE c == engine.oneshots[now].handlers
            e == FoldLeft(Handle, engine, c)
            o == Callback(e.oneshots)
            u == [e EXCEPT !.oneshots = o]
            K == ToSet(c)
<1>1. PICK V : engine \in Engines(V)
  BY DEF StatInd, StatType
<1>2. engine.oneshots \in PartialMaps(Nat, Shots) /\ now \in DOMAIN engine.oneshots /\ now \in Nat
  BY <1>1, StatNow DEF Engines, OneShotExecute, OneShotDue
<1>3. c \in Seq({"start", "stop"})
  <2>1. engine.oneshots[now] \in Shots
    BY <1>2 DEF PartialMaps
  <2>. QED  BY <2>1 DEF Shots
<1>4. OneOfAKind(c)
  BY <1>2 DEF StatWindows, ShotsKept, AllKinds
<1>5. /\ "start" \in K <=> now \in DOMAIN engine.starts
      /\ "stop" \in K <=> now \in DOMAIN engine.stops
  <2>1. /\ now \in DOMAIN engine.starts <=> HasHandler(engine.oneshots, now, "start")
        /\ now \in DOMAIN engine.stops <=> HasHandler(engine.oneshots, now, "stop")
    BY <1>2 DEF StatWindows, ShotsKept
  <2>. QED  BY <1>2, <2>1 DEF HasHandler, ToSet
<1>6. {"start", "stop"} \subseteq K => \A x \in Stats : ~(x \in engine.starts[now] /\ x \in engine.stops[now])
  BY <1>5, NotBoth DEF Maps
<1>7. engine' = u
  BY DEF OneShotExecute
<1>8. e \in Engines(V) /\ Handled(engine, e, K)
  <2>. HIDE DEF c
  <2>. QED  BY <1>1, <1>3, <1>4, <1>6, HandleFold, HandlersEffect
<1>. HIDE DEF e, K
<1>9. engine'.stat = e.stat /\ engine'.starts = e.starts /\ engine'.stops = e.stops /\ engine'.oneshots = o
  <2>. HIDE DEF o
  <2>. QED  BY <1>7, <1>8 DEF Engines
<1>10. engine'.oneshots = Callback(engine.oneshots)
  BY <1>8, <1>9 DEF Handled
<1>. HIDE DEF u, o
<1>11. /\ engine'.starts = IF "start" \in K THEN Drop(engine.starts, now) ELSE engine.starts
       /\ engine'.stops = IF "stop" \in K THEN Drop(engine.stops, now) ELSE engine.stops
  BY <1>8, <1>9 DEF Handled
<1>12. DOMAIN engine'.starts = DOMAIN engine.starts \ {now}
  BY <1>5, <1>11, DropMaps
<1>13. DOMAIN engine'.stops = DOMAIN engine.stops \ {now}
  BY <1>5, <1>11, DropMaps
<1>14. ASSUME NEW t, NEW x
       PROVE  /\ Maps(engine'.starts, t, x) <=> Maps(engine.starts, t, x) /\ t # now
              /\ Maps(engine'.stops, t, x) <=> Maps(engine.stops, t, x) /\ t # now
  <2>1. Maps(engine'.starts, t, x) <=> Maps(engine.starts, t, x) /\ t # now
    <3>1. CASE now \in DOMAIN engine.starts
      <4>1. Maps(Drop(engine.starts, now), t, x) <=> Maps(engine.starts, t, x) /\ t # now
        BY DropMaps
      <4>. QED  BY <1>5, <1>11, <3>1, <4>1
    <3>2. CASE now \notin DOMAIN engine.starts
      BY <1>5, <1>11, <3>2 DEF Maps
    <3>. QED  BY <3>1, <3>2
  <2>2. Maps(engine'.stops, t, x) <=> Maps(engine.stops, t, x) /\ t # now
    <3>1. CASE now \in DOMAIN engine.stops
      <4>1. Maps(Drop(engine.stops, now), t, x) <=> Maps(engine.stops, t, x) /\ t # now
        BY DropMaps
      <4>. QED  BY <1>5, <1>11, <3>1, <4>1
    <3>2. CASE now \notin DOMAIN engine.stops
      BY <1>5, <1>11, <3>2 DEF Maps
    <3>. QED  BY <3>1, <3>2
  <2>. QED  BY <2>1, <2>2
<1>15. ASSUME NEW x \in Stats
       PROVE  StatHandled(engine.stat[x], engine'.stat[x],
                          Maps(engine.starts, now, x), Maps(engine.stops, now, x))
  <2>1. StatHandled(engine.stat[x], engine'.stat[x], "start" \in K /\ x \in engine.starts[now],
                                                     "stop" \in K /\ x \in engine.stops[now])
    BY <1>8, <1>9 DEF Handled
  <2>. QED  BY <1>5, <2>1 DEF StatHandled, Maps
<1>. QED  BY <1>10, <1>12, <1>13, <1>14, <1>15

LEMMA OneShotKeepsWindows ==
    ASSUME StatInd, StatWindows, WindowsSound, OneShotExecute
    PROVE  StatWindows'
<1>. USE DEF SYNC, EVENT, STATISTICCLOCK, EXIT
<1>1. PICK V : engine \in Engines(V)
  BY DEF StatInd, StatType
<1>2. UNCHANGED <<config, order, phase, now, prio, regAt>> /\ prio = STATISTICCLOCK
  BY DEF OneShotExecute
<1>3. engine.oneshots \in PartialMaps(Nat, Shots) /\ now \in DOMAIN engine.oneshots /\ now \in Nat
  BY <1>1, StatNow DEF Engines, OneShotExecute, OneShotDue
<1>4. /\ engine'.oneshots = Callback(engine.oneshots)
      /\ DOMAIN engine'.starts = DOMAIN engine.starts \ {now}
      /\ DOMAIN engine'.stops = DOMAIN engine.stops \ {now}
      /\ \A t, x : /\ Maps(engine'.starts, t, x) <=> Maps(engine.starts, t, x) /\ t # now
                   /\ Maps(engine'.stops, t, x) <=> Maps(engine.stops, t, x) /\ t # now
      /\ \A x \in Stats : StatHandled(engine.stat[x], engine'.stat[x],
                                      Maps(engine.starts, now, x), Maps(engine.stops, now, x))
  BY OneShotEffect
<1>5. ShotsKept(engine)
  BY DEF StatWindows
<1>6. /\ DOMAIN engine'.oneshots = DOMAIN engine.oneshots \ {now}
      /\ \A t, k : HasHandler(engine'.oneshots, t, k) <=> HasHandler(engine.oneshots, t, k) /\ t # now
      /\ AllKinds(engine'.oneshots) /\ Ready(engine'.oneshots)
  <2>. DEFINE p == engine.oneshots
  <2>1. p \in PartialMaps(Nat, Shots) /\ AllKinds(p) /\ engine'.oneshots = Callback(p)
    BY <1>3, <1>4, <1>5 DEF ShotsKept
  <2>. HIDE DEF p
  <2>2. /\ DOMAIN Callback(p) = DOMAIN p \ {now}
        /\ \A t, k : HasHandler(Callback(p), t, k) <=> HasHandler(p, t, k) /\ t # now
        /\ AllKinds(Callback(p)) /\ Ready(Callback(p))
    BY <2>1, CallbackEffect
  <2>. QED  BY <2>1, <2>2 DEF p
<1>7. Registered' = Registered /\ Registered \subseteq Stats
  BY <1>2, StatNow DEF Registered
<1>8. \A t : (Fired(t) <=> t < now)
  BY <1>2, <1>3 DEF Fired
<1>9. ASSUME NEW x \in Stats, NEW t \in Nat
      PROVE  /\ Maps(engine.starts, t, x) <=> /\ x \in Registered /\ engine.stat[x].startAtFlag
                                              /\ t = config[x].startat
             /\ Maps(engine.stops, t, x) <=> /\ x \in Registered /\ engine.stat[x].stopAtFlag
                                             /\ t = config[x].stopat
  BY DEF StatWindows, MapsKept
<1>10. ASSUME NEW x \in Registered PROVE FlagsKept(x)'
  <2>. DEFINE a == config[x].startat
              b == config[x].stopat
              A == Maps(engine.starts, now, x)
              B == Maps(engine.stops, now, x)
  <2>1. x \in Stats /\ a \in Nat /\ b \in Nat /\ config[x] \in Configs /\ regAt[x] \in Nat
    BY StatNow
  <2>2. FlagsKept(x) /\ StatHandled(engine.stat[x], engine'.stat[x], A, B)
    BY <1>4, <2>1 DEF StatWindows
  <2>3. /\ A <=> engine.stat[x].startAtFlag /\ now = a
        /\ B <=> engine.stat[x].stopAtFlag /\ now = b
    BY <1>3, <1>9, <2>1
  <2>4. Opens(x) /\ Closes(x) => a # b
    BY <2>1 DEF WindowsSound, Opens, Closes
  <2>5. /\ Fired(config[x].startat)' <=> a <= now
        /\ Fired(config[x].stopat)' <=> b <= now
    <3>1. /\ Fired(config[x].startat)' <=> a < now \/ a = now
          /\ Fired(config[x].stopat)' <=> b < now \/ b = now
      BY <1>2, <1>6 DEF Fired
    <3>. QED  BY <1>3, <2>1, <3>1
  <2>6. Opens(x)' = Opens(x) /\ Closes(x)' = Closes(x) /\ UNCHANGED config
    BY <1>2 DEF Opens, Closes
  <2>7. /\ engine.stat[x].startAtFlag \in BOOLEAN /\ engine.stat[x].stopAtFlag \in BOOLEAN
        /\ engine.stat[x].enabled \in BOOLEAN
    <3>1. engine.stat[x] \in Collectors(V)
      BY <1>1, <2>1 DEF Engines
    <3>. QED  BY <3>1 DEF Collectors
  <2>8. /\ engine.stat[x].startAtFlag <=> Opens(x) /\ ~(a < now)
        /\ engine.stat[x].stopAtFlag <=> Closes(x) /\ ~(b < now)
        /\ engine.stat[x].enabled <=> /\ Opens(x) => a < now
                                      /\ Closes(x) /\ b < now => Opens(x) /\ b < a
    BY <1>8, <2>2 DEF FlagsKept
  <2>9. /\ engine'.stat[x].enabled = (IF A THEN TRUE ELSE IF B THEN FALSE ELSE engine.stat[x].enabled)
        /\ engine'.stat[x].startAtFlag = (IF A THEN FALSE ELSE engine.stat[x].startAtFlag)
        /\ engine'.stat[x].stopAtFlag = (IF B THEN FALSE ELSE engine.stat[x].stopAtFlag)
    BY <2>2 DEF StatHandled
  <2>10. (a > regAt[x] <=> Opens(x)) /\ (b > regAt[x] <=> Closes(x))
    BY DEF Opens, Closes
  <2>. HIDE DEF A, B, a, b
  <2>11. engine'.stat[x].startAtFlag \in BOOLEAN /\ engine'.stat[x].stopAtFlag \in BOOLEAN
         /\ engine'.stat[x].enabled \in BOOLEAN
    BY <2>7, <2>9
  <2>12. engine'.stat[x].startAtFlag <=> (Opens(x) /\ ~(a <= now))
    <3>1. a <= now <=> a < now \/ now = a
      BY <1>3, <2>1
    <3>2. engine'.stat[x].startAtFlag <=> engine.stat[x].startAtFlag /\ ~A
      BY <2>7, <2>9
    <3>. QED  BY <2>3, <2>8, <3>1, <3>2
  <2>13. engine'.stat[x].stopAtFlag <=> (Closes(x) /\ ~(b <= now))
    <3>1. b <= now <=> b < now \/ now = b
      BY <1>3, <2>1
    <3>2. engine'.stat[x].stopAtFlag <=> engine.stat[x].stopAtFlag /\ ~B
      BY <2>7, <2>9
    <3>. QED  BY <2>3, <2>8, <3>1, <3>2
  <2>14. engine'.stat[x].enabled <=> (/\ Opens(x) => a <= now
                                      /\ Closes(x) /\ b <= now => Opens(x) /\ b < a)
    <3>1. engine'.stat[x].enabled <=> A \/ (~B /\ engine.stat[x].enabled)
      BY <2>7, <2>9
    <3>2. (A <=> Opens(x) /\ now = a) /\ (B <=> Closes(x) /\ now = b)
      BY <1>3, <2>1, <2>3, <2>8
    <3>. QED  BY <1>3, <2>1, <2>4, <2>8, <3>1, <3>2
  <2>. QED  BY <2>5, <2>6, <2>11, <2>12, <2>13, <2>14 DEF FlagsKept, a, b
<1>11. ASSUME NEW x \in Stats \ Registered PROVE Untouched(engine'.stat[x])
  <2>1. ~Maps(engine.starts, now, x) /\ ~Maps(engine.stops, now, x) /\ Untouched(engine.stat[x])
    BY <1>3, <1>9 DEF StatWindows
  <2>2. StatHandled(engine.stat[x], engine'.stat[x], FALSE, FALSE)
    BY <1>4, <2>1 DEF StatHandled
  <2>. QED  BY <2>1, <2>2 DEF StatHandled, Untouched
<1>12. MapsKept(engine, Registered)'
  <2>. SUFFICES ASSUME NEW x \in Stats, NEW t \in Nat
                PROVE  /\ Maps(engine'.starts, t, x) <=> /\ x \in Registered /\ engine'.stat[x].startAtFlag
                                                         /\ t = config[x].startat
                       /\ Maps(engine'.stops, t, x) <=> /\ x \in Registered /\ engine'.stat[x].stopAtFlag
                                                        /\ t = config[x].stopat
    BY <1>2, <1>7 DEF MapsKept
  <2>1. /\ engine'.stat[x].startAtFlag <=> engine.stat[x].startAtFlag /\ ~Maps(engine.starts, now, x)
        /\ engine'.stat[x].stopAtFlag <=> engine.stat[x].stopAtFlag /\ ~Maps(engine.stops, now, x)
    <3>1. engine.stat[x].startAtFlag \in BOOLEAN /\ engine.stat[x].stopAtFlag \in BOOLEAN
      BY <1>1 DEF Engines, Collectors
    <3>. QED  BY <1>4, <3>1 DEF StatHandled
  <2>2. /\ Maps(engine'.starts, t, x) <=> Maps(engine.starts, t, x) /\ t # now
        /\ Maps(engine'.stops, t, x) <=> Maps(engine.stops, t, x) /\ t # now
    BY <1>4
  <2>. QED  BY <1>3, <1>9, <2>1, <2>2
<1>13. ShotsKept(engine)'
  <2>1. ShotsKept(engine')
    BY <1>4, <1>5, <1>6 DEF ShotsKept
  <2>. QED  BY <2>1 DEF ShotsKept
<1>14. \A t \in DOMAIN engine'.oneshots : t >= now' /\ (prio' = EXIT => t > now')
  BY <1>2, <1>6 DEF StatWindows
<1>15. (\A x \in Registered : FlagsKept(x))' /\ (\A x \in Stats \ Registered : Untouched(engine.stat[x]))'
  BY <1>7, <1>10, <1>11
<1>. QED  BY <1>12, <1>13, <1>14, <1>15 DEF StatWindows

LEMMA WindowsStep ==
    ASSUME StatInd, StatWindows, WindowsSound, [StatNext]_statVars
    PROVE  StatWindows'
<1>1. ASSUME NEW s \in Stats, Register(s) PROVE StatWindows'
  BY <1>1, RegisterKeepsWindows
<1>2. ASSUME NEW s \in Stats, NEW d \in Data, AddData(s, d[1], d[2]) PROVE StatWindows'
  <2>1. d[1] \in Nat
    BY StatisticsAssumption
  <2>. QED  BY <1>2, <2>1, AddDataKeepsWindows
<1>3. ASSUME NEW f \in DOMAIN engine.clocks, ClockEvent(f) PROVE StatWindows'
  BY <1>3, OutputsKeepWindows DEF Outputs
<1>. QED  BY <1>1, <1>2, <1>3, PhasesKeepWindows, OutputsKeepWindows, OneShotKeepsWindows,
             AdvanceKeepsWindows, RestartKeepsWindows
          DEF StatNext, Outputs, Over

-----------------------------------------------------------------------------
(* What is collected. *)

Histograms == [bins : PartialMaps(Nat, Nat), below : Nat, above : Nat, binned : Nat, sum : Nat]
DataSound(type, d) ==
    /\ type = "accumulator" => d.sum \in Nat
    /\ type = "histogram" => d \in Histograms
    /\ type = "unique" => IsFiniteSet(d)

(* The bins of a row start where data are put into bins. *)
BinsAligned == MinValue % BinWidth = 0

Heights(b) == [y \in 0..NumBins - 1 |-> Count(b, MinValue + y * BinWidth)]
Total(d) == SumFunction(Heights(d.bins)) + d.below + d.above

LEMMA SizesAreNat == MinValue \in Nat /\ BinWidth \in Nat \ {0} /\ NumBins \in Nat \ {0}
BY StatisticsAssumption

LEMMA CountType ==
    ASSUME NEW b \in PartialMaps(Nat, Nat), NEW x
    PROVE  Count(b, x) \in Nat
BY DEF Count, PartialMaps

LEMMA AccumulatorFields ==
    ASSUME NEW d, NEW k
    PROVE  /\ Fields("accumulator", d, k)[<<"sum">>] = d.sum
           /\ Fields("accumulator", d, k)[<<"count">>] = k
BY DEF Fields

LEMMA HistogramFields ==
    ASSUME NEW d, NEW k
    PROVE  /\ Fields("histogram", d, k)[<<"sum">>] = d.sum
           /\ Fields("histogram", d, k)[<<"count">>] = k
           /\ Fields("histogram", d, k)[<<"below">>] = d.below
           /\ Fields("histogram", d, k)[<<"above">>] = d.above
           /\ \A y \in 0..NumBins - 1 : Fields("histogram", d, k)[<<"bin", y>>] = Count(d.bins, MinValue + y * BinWidth)
<1>. DEFINE D == {<<"sum">>, <<"count">>, <<"binned">>, <<"below">>, <<"above">>}
                   \cup {<<"bin", y>> : y \in 0..NumBins - 1}
            F == [f \in D |->
                CASE f = <<"sum">> -> d.sum
                  [] f = <<"count">> -> k
                  [] f = <<"binned">> -> d.binned
                  [] f = <<"below">> -> d.below
                  [] f = <<"above">> -> d.above
                  [] OTHER -> Count(d.bins, MinValue + f[2] * BinWidth)]
<1>1. Fields("histogram", d, k) = F
  BY DEF Fields
<1>2. /\ F[<<"sum">>] = d.sum /\ F[<<"count">>] = k
      /\ F[<<"below">>] = d.below /\ F[<<"above">>] = d.above
  OBVIOUS
<1>3. ASSUME NEW y \in 0..NumBins - 1
      PROVE  F[<<"bin", y>>] = Count(d.bins, MinValue + y * BinWidth)
  <2>. DEFINE t == <<"bin", y>>
  <2>1. t \in D /\ t[2] = y
    OBVIOUS
  <2>2. t # <<"sum">> /\ t # <<"count">> /\ t # <<"binned">> /\ t # <<"below">> /\ t # <<"above">>
    <3>1. Len(t) = 2 /\ \A w : Len(<<w>>) = 1
      OBVIOUS
    <3>. QED  BY <3>1
  <2>. HIDE DEF t, D
  <2>. QED  BY <2>1, <2>2 DEF t
<1>. QED  BY <1>1, <1>2, <1>3

(* Where a value is put, and in what field it is read. *)
LEMMA OneBin ==
    ASSUME BinsAligned, NEW v \in Nat, v >= MinValue, v <= MaxValue
    PROVE  /\ BinStart(v) \in Nat
           /\ \E z \in 0..NumBins - 1 : \A y \in 0..NumBins - 1 : MinValue + y * BinWidth = BinStart(v) <=> y = z
<1>. DEFINE W == BinWidth
            N == NumBins
            m == MinValue \div BinWidth
            q == v \div BinWidth
            z == q - m
<1>1. W \in Nat \ {0} /\ N \in Nat \ {0} /\ MinValue \in Nat
  BY SizesAreNat
<1>2. m * W = MinValue /\ m \in Int /\ q \in Int /\ v % W \in 0 .. (W - 1) /\ q * W = v - (v % W)
  <2>1. m * W = MinValue - (MinValue % W) /\ v % W \in 0 .. (W - 1) /\ q * W = v - (v % W)
    BY <1>1, DivMod
  <2>2. MinValue % W = 0
    BY DEF BinsAligned
  <2>3. m \in Int /\ q \in Int
    BY <1>1
  <2>. HIDE DEF m, q, W
  <2>. QED  BY <1>1, <2>1, <2>2, <2>3
<1>3. BinStart(v) = q * W /\ MaxValue = W * N + MinValue - 1
  BY DEF BinStart, MaxValue
<1>. HIDE DEF m, q, W, N
<1>4. ~(m > q)
  <2>1. m > q => m * W >= q * W + W
    BY <1>1, <1>2, Multiples
  <2>. QED  BY <1>1, <1>2, <2>1
<1>5. ~(q >= N + m)
  <2>. SUFFICES ASSUME q >= N + m PROVE FALSE
    OBVIOUS
  <2>1. (N + m) * W = W * N + MinValue /\ N + m \in Int /\ (N + m) * W \in Int
    BY <1>1, <1>2
  <2>2. q > N + m => q * W >= (N + m) * W + W
    BY <1>1, <1>2, <2>1, Multiples
  <2>3. q * W >= (N + m) * W
    BY <1>1, <1>2, <2>1, <2>2
  <2>. QED  BY <1>1, <1>2, <1>3, <2>1, <2>3
<1>6. z \in 0 .. (N - 1) /\ z * W = q * W - MinValue
  BY <1>1, <1>2, <1>4, <1>5
<1>. HIDE DEF z
<1>7. ASSUME NEW y \in 0 .. (N - 1) PROVE MinValue + y * W = BinStart(v) <=> y = z
  <2>1. y \in Int /\ z \in Int /\ y * W \in Int /\ z * W \in Int /\ q * W \in Int
    BY <1>1, <1>2, <1>6
  <2>2. /\ y > z => y * W >= z * W + W
        /\ z > y => z * W >= y * W + W
    BY <1>1, <2>1, Multiples
  <2>3. MinValue + z * W = BinStart(v)
    BY <1>1, <1>3, <1>6, <2>1
  <2>4. MinValue + y * W = MinValue + z * W <=> y = z
    BY <1>1, <2>1, <2>2
  <2>. QED  BY <2>3, <2>4
<1>8. BinStart(v) \in Nat
  <2>1. q * W \in Int /\ v % W <= v
    BY <1>1, <1>2, <1>4
  <2>. QED  BY <1>1, <1>2, <1>3, <2>1
<1>. QED  BY <1>6, <1>7, <1>8 DEF N, W

(* The fields of what is added alone. *)
Gain(type, n, v, f) == Fields(type, AddImpl(type, Cleared(type), n, v), n)[f]

LEMMA BinAdded ==
    ASSUME NEW b \in PartialMaps(Nat, Nat), NEW n \in Nat, NEW w \in Nat,
           NEW r, r = [x \in DOMAIN b \cup {w} |-> Count(b, x) + (IF x = w THEN n ELSE 0)]
    PROVE  /\ r \in PartialMaps(Nat, Nat)
           /\ \A x : Count(r, x) = Count(b, x) + (IF x = w THEN n ELSE 0)
<1>1. PICK T \in SUBSET Nat : b \in [T -> Nat]
  BY DEF PartialMaps
<1>2. \A x : Count(b, x) \in Nat
  BY CountType
<1>3. DOMAIN r = T \cup {w} /\ \A x \in T \cup {w} : r[x] = Count(b, x) + (IF x = w THEN n ELSE 0)
  BY <1>1
<1>4. \A x \in T \cup {w} : r[x] \in Nat
  BY <1>2, <1>3
<1>5. r \in [T \cup {w} -> Nat]
  BY <1>3, <1>4
<1>6. ASSUME NEW x PROVE Count(r, x) = Count(b, x) + (IF x = w THEN n ELSE 0)
  <2>1. CASE x \in T \cup {w}
    BY <1>3, <2>1 DEF Count
  <2>2. CASE x \notin T \cup {w}
    <3>1. Count(b, x) = 0 /\ Count(r, x) = 0 /\ x # w
      BY <1>1, <1>3, <2>2 DEF Count
    <3>. QED  BY <3>1
  <2>. QED  BY <2>1, <2>2
<1>. QED  BY <1>1, <1>5, <1>6 DEF PartialMaps

(* What a value does to a histogram. *)
HistogramAdded(d, r, n, v) ==
    /\ r \in Histograms
    /\ r.sum = d.sum + (IF v < MinValue \/ v > MaxValue THEN 0 ELSE n * v)
    /\ r.below = d.below + (IF v < MinValue THEN n ELSE 0)
    /\ r.above = d.above + (IF ~(v < MinValue) /\ v > MaxValue THEN n ELSE 0)
    /\ \A x : Count(r.bins, x) =
                 Count(d.bins, x) + (IF ~(v < MinValue) /\ ~(v > MaxValue) /\ x = BinStart(v) THEN n ELSE 0)

LEMMA HistogramEffect ==
    ASSUME NEW d \in Histograms, NEW n \in Nat, NEW v \in Nat
    PROVE  HistogramAdded(d, AddToHistogram(d, n, v), n, v)
<1>. DEFINE w == BinStart(v)
            b == [x \in DOMAIN d.bins \cup {w} |-> Count(d.bins, x) + (IF x = w THEN n ELSE 0)]
            r == AddToHistogram(d, n, v)
<1>1. \A x : Count(d.bins, x) \in Nat
  BY CountType DEF Histograms
<1>2. n * v \in Nat /\ MinValue \in Int /\ MaxValue \in Int
  BY SizesAreNat DEF MaxValue
<1>3. w \in Nat
  <2>. DEFINE q == v \div BinWidth
  <2>1. q \in Nat
    BY SizesAreNat
  <2>. HIDE DEF q
  <2>2. q * BinWidth \in Nat
    BY <2>1, SizesAreNat
  <2>. QED  BY <2>2 DEF BinStart, q
<1>. HIDE DEF w
<1>4. CASE v < MinValue
  <2>1. r = [d EXCEPT !.below = @ + n]
    BY <1>4 DEF AddToHistogram
  <2>. HIDE DEF r
  <2>2. /\ r \in Histograms /\ r.sum = d.sum /\ r.below = d.below + n /\ r.above = d.above
        /\ r.bins = d.bins
    BY <2>1 DEF Histograms
  <2>3. d.sum \in Nat /\ d.above \in Nat
    BY DEF Histograms
  <2>. QED  BY <1>1, <1>2, <1>4, <2>2, <2>3 DEF HistogramAdded, r
<1>5. CASE ~(v < MinValue) /\ v > MaxValue
  <2>1. r = [d EXCEPT !.above = @ + n]
    BY <1>5 DEF AddToHistogram
  <2>. HIDE DEF r
  <2>2. /\ r \in Histograms /\ r.sum = d.sum /\ r.above = d.above + n /\ r.below = d.below
        /\ r.bins = d.bins
    BY <2>1 DEF Histograms
  <2>3. d.sum \in Nat /\ d.below \in Nat
    BY DEF Histograms
  <2>. QED  BY <1>1, <1>2, <1>5, <2>2, <2>3 DEF HistogramAdded, r
<1>6. CASE ~(v < MinValue) /\ ~(v > MaxValue)
  <2>1. r = [d EXCEPT !.sum = @ + n * v, !.binned = @ + 1, !.bins = b]
    BY <1>6 DEF AddToHistogram, w
  <2>2. /\ b \in PartialMaps(Nat, Nat)
        /\ \A x : Count(b, x) = Count(d.bins, x) + (IF x = w THEN n ELSE 0)
    <3>1. d.bins \in PartialMaps(Nat, Nat)
      BY DEF Histograms
    <3>. DEFINE c == d.bins
    <3>2. c \in PartialMaps(Nat, Nat)
      BY <3>1
    <3>3. b = [x \in DOMAIN c \cup {w} |-> Count(c, x) + (IF x = w THEN n ELSE 0)]
      OBVIOUS
    <3>. HIDE DEF b, c
    <3>4. /\ b \in PartialMaps(Nat, Nat)
          /\ \A x : Count(b, x) = Count(c, x) + (IF x = w THEN n ELSE 0)
      BY <1>3, <3>2, <3>3, BinAdded
    <3>. QED  BY <3>4 DEF c
  <2>. DEFINE p == n * v
  <2>. HIDE DEF r, b
  <2>3. /\ r \in Histograms /\ r.sum = d.sum + p /\ r.above = d.above /\ r.below = d.below
        /\ r.bins = b
    <3>1. r = [d EXCEPT !.sum = @ + p, !.binned = @ + 1, !.bins = b] /\ p \in Nat
      BY <1>2, <2>1
    <3>. HIDE DEF p
    <3>2. d.sum + p \in Nat /\ d.binned + 1 \in Nat
      BY <3>1 DEF Histograms
    <3>. QED  BY <2>2, <3>1, <3>2 DEF Histograms
  <2>4. d.above \in Nat /\ d.below \in Nat
    BY DEF Histograms
  <2>. QED  BY <1>1, <1>2, <1>6, <2>2, <2>3, <2>4 DEF HistogramAdded, r, w
<1>. QED  BY <1>2, <1>4, <1>5, <1>6

LEMMA NoHistogram ==
    /\ Cleared("histogram") \in Histograms /\ Cleared("histogram").sum = 0
    /\ Cleared("histogram").below = 0 /\ Cleared("histogram").above = 0
    /\ \A x : Count(Cleared("histogram").bins, x) = 0
<1>. DEFINE d == [bins |-> <<>>, below |-> 0, above |-> 0, binned |-> 0, sum |-> 0]
<1>1. Cleared("histogram") = d
  BY DEF Cleared
<1>2. <<>> \in PartialMaps(Nat, Nat)
  BY NothingMapped
<1>3. d \in Histograms
  BY <1>2 DEF Histograms
<1>4. \A x : Count(d.bins, x) = 0
  BY DEF Count
<1>. QED  BY <1>1, <1>3, <1>4

AdditiveOf(type) ==
    CASE type = "accumulator" -> {<<"sum">>, <<"count">>}
      [] OTHER -> {<<"sum">>, <<"count">>, <<"below">>, <<"above">>} \cup {<<"bin", y>> : y \in 0..NumBins - 1}

FieldAdds(type, d, k, n, v, f) ==
    /\ DataSound(type, AddImpl(type, d, n, v))
    /\ Fields(type, d, k)[f] \in Nat
    /\ Fields(type, Cleared(type), 0)[f] = 0 /\ DataSound(type, Cleared(type))
    /\ Gain(type, n, v, f) \in Nat
    /\ Fields(type, AddImpl(type, d, n, v), k + n)[f] = Fields(type, d, k)[f] + Gain(type, n, v, f)

LEMMA FieldsAdd ==
    ASSUME NEW type \in {"accumulator", "histogram"}, NEW d, DataSound(type, d), NEW k \in Nat,
           NEW n \in Nat, NEW v \in Nat, NEW f \in AdditiveOf(type)
    PROVE  FieldAdds(type, d, k, n, v, f)
<1>1. n * v \in Nat
  OBVIOUS
<1>2. CASE type = "accumulator"
  <2>. DEFINE e == AddToAccumulator(d, n, v)
              z == Cleared("accumulator")
              g == AddToAccumulator(z, n, v)
  <2>1. AddImpl(type, d, n, v) = e /\ AddImpl(type, Cleared(type), n, v) = g
    BY <1>2 DEF AddImpl
  <2>2. d.sum \in Nat /\ e.sum = d.sum + n * v /\ g.sum = z.sum + n * v
    BY <1>2 DEF DataSound, AddToAccumulator
  <2>3. z.sum = 0
    BY DEF Cleared
  <2>. HIDE DEF e, z, g
  <2>4. f = <<"sum">> \/ f = <<"count">>
    BY <1>2 DEF AdditiveOf
  <2>5. \A x, c : Fields(type, x, c)[<<"sum">>] = x.sum /\ Fields(type, x, c)[<<"count">>] = c
    BY <1>2, AccumulatorFields
  <2>6. Gain(type, n, v, f) = Fields(type, g, n)[f]
    BY <2>1 DEF Gain
  <2>7. Cleared(type) = z
    BY <1>2 DEF z
  <2>8. DataSound(type, e) /\ DataSound(type, z)
    BY <1>1, <1>2, <2>2, <2>3 DEF DataSound
  <2>. QED  BY <1>1, <2>1, <2>2, <2>3, <2>4, <2>5, <2>6, <2>7, <2>8 DEF FieldAdds
<1>3. CASE type = "histogram"
  <2>. DEFINE e == AddToHistogram(d, n, v)
              z == Cleared("histogram")
              g == AddToHistogram(z, n, v)
  <2>1. AddImpl(type, d, n, v) = e /\ AddImpl(type, Cleared(type), n, v) = g
    BY <1>3 DEF AddImpl
  <2>2. d \in Histograms /\ z \in Histograms /\ z.sum = 0 /\ z.below = 0 /\ z.above = 0
        /\ \A x : Count(z.bins, x) = 0
    BY <1>3, NoHistogram DEF DataSound
  <2>. HIDE DEF z
  <2>3. HistogramAdded(d, e, n, v) /\ HistogramAdded(z, g, n, v)
    BY <2>2, HistogramEffect
  <2>4. Gain(type, n, v, f) = Fields(type, g, n)[f] /\ Cleared(type) = z
    BY <1>3, <2>1 DEF Gain, z
  <2>. HIDE DEF e, g
  <2>5. DataSound(type, e) /\ DataSound(type, z)
    BY <1>3, <2>2, <2>3 DEF DataSound, HistogramAdded
  <2>6. d.sum \in Nat /\ d.below \in Nat /\ d.above \in Nat /\ \A x : Count(d.bins, x) \in Nat
    BY <2>2, CountType DEF Histograms
  <2>7. ASSUME f = <<"sum">>
        PROVE  /\ Fields(type, d, k)[f] = d.sum /\ Fields(type, z, 0)[f] = z.sum
               /\ Fields(type, g, n)[f] = g.sum /\ Fields(type, e, k + n)[f] = e.sum
    BY <1>3, <2>7, HistogramFields
  <2>8. ASSUME f = <<"below">>
        PROVE  /\ Fields(type, d, k)[f] = d.below /\ Fields(type, z, 0)[f] = z.below
               /\ Fields(type, g, n)[f] = g.below /\ Fields(type, e, k + n)[f] = e.below
    BY <1>3, <2>8, HistogramFields
  <2>9. ASSUME f = <<"above">>
        PROVE  /\ Fields(type, d, k)[f] = d.above /\ Fields(type, z, 0)[f] = z.above
               /\ Fields(type, g, n)[f] = g.above /\ Fields(type, e, k + n)[f] = e.above
    BY <1>3, <2>9, HistogramFields
  <2>10. ASSUME f = <<"count">>
        PROVE  /\ Fields(type, d, k)[f] = k /\ Fields(type, z, 0)[f] = 0
               /\ Fields(type, g, n)[f] = n /\ Fields(type, e, k + n)[f] = k + n
    BY <1>3, <2>10, HistogramFields
  <2>11. ASSUME NEW y \in 0..NumBins - 1, f = <<"bin", y>>
        PROVE  \E x : /\ Fields(type, d, k)[f] = Count(d.bins, x) /\ Fields(type, z, 0)[f] = Count(z.bins, x)
                      /\ Fields(type, g, n)[f] = Count(g.bins, x) /\ Fields(type, e, k + n)[f] = Count(e.bins, x)
    BY <1>3, <2>11, HistogramFields
  <2>12. \/ f \in {<<"sum">>, <<"count">>, <<"below">>, <<"above">>}
         \/ \E y \in 0..NumBins - 1 : f = <<"bin", y>>
    BY <1>3 DEF AdditiveOf
  <2>. DEFINE x0 == Fields(type, d, k)[f]
              x1 == Fields(type, z, 0)[f]
              x2 == Fields(type, g, n)[f]
              x3 == Fields(type, e, k + n)[f]
  <2>13. x0 \in Nat /\ x1 = 0 /\ x2 \in Nat /\ x3 = x0 + x2
    <3>. HIDE DEF x0, x1, x2, x3
    <3>1. CASE f = <<"sum">>
      <4>1. x0 = d.sum /\ x1 = z.sum /\ x2 = g.sum /\ x3 = e.sum
        BY <2>7, <3>1 DEF x0, x1, x2, x3
      <4>. QED  BY <1>1, <2>2, <2>3, <2>6, <4>1 DEF HistogramAdded
    <3>2. CASE f = <<"below">>
      <4>1. x0 = d.below /\ x1 = z.below /\ x2 = g.below /\ x3 = e.below
        BY <2>8, <3>2 DEF x0, x1, x2, x3
      <4>. QED  BY <2>2, <2>3, <2>6, <4>1 DEF HistogramAdded
    <3>3. CASE f = <<"above">>
      <4>1. x0 = d.above /\ x1 = z.above /\ x2 = g.above /\ x3 = e.above
        BY <2>9, <3>3 DEF x0, x1, x2, x3
      <4>. QED  BY <2>2, <2>3, <2>6, <4>1 DEF HistogramAdded
    <3>4. CASE f = <<"count">>
      BY <2>10, <3>4 DEF x0, x1, x2, x3
    <3>5. ASSUME NEW y \in 0..NumBins - 1, f = <<"bin", y>>
          PROVE  x0 \in Nat /\ x1 = 0 /\ x2 \in Nat /\ x3 = x0 + x2
      <4>1. PICK x : x0 = Count(d.bins, x) /\ x1 = Count(z.bins, x) /\ x2 = Count(g.bins, x) /\ x3 = Count(e.bins, x)
        BY <2>11, <3>5 DEF x0, x1, x2, x3
      <4>. QED  BY <2>2, <2>3, <2>6, <4>1 DEF HistogramAdded
    <3>. QED  BY <2>12, <3>1, <3>2, <3>3, <3>4, <3>5
  <2>. QED  BY <2>1, <2>4, <2>5, <2>13 DEF FieldAdds
<1>. QED  BY <1>2, <1>3

(* The same, of all fields at once. *)
FieldsSound(type, d, k) == \A f \in AdditiveOf(type) : Fields(type, d, k)[f] \in Nat
FieldsAdded(type, d, k, n, v) ==
    \A f \in AdditiveOf(type) :
        /\ Fields(type, d, k)[f] \in Nat /\ Gain(type, n, v, f) \in Nat
        /\ Fields(type, AddImpl(type, d, n, v), k + n)[f] = Fields(type, d, k)[f] + Gain(type, n, v, f)
FieldsNone(type) == \A f \in AdditiveOf(type) : Fields(type, Cleared(type), 0)[f] = 0

LEMMA FieldsGain ==
    ASSUME NEW type \in {"accumulator", "histogram"}, NEW d, DataSound(type, d), NEW k \in Nat,
           NEW n \in Nat, NEW v \in Nat
    PROVE  FieldsAdded(type, d, k, n, v)
<1>1. ASSUME NEW f \in AdditiveOf(type)
      PROVE  /\ Fields(type, d, k)[f] \in Nat /\ Gain(type, n, v, f) \in Nat
             /\ Fields(type, AddImpl(type, d, n, v), k + n)[f] = Fields(type, d, k)[f] + Gain(type, n, v, f)
  <2>1. FieldAdds(type, d, k, n, v, f)
    BY FieldsAdd
  <2>. QED  BY <2>1 DEF FieldAdds
<1>. QED  BY <1>1 DEF FieldsAdded

LEMMA FieldsOf ==
    ASSUME NEW type \in {"accumulator", "histogram"}, NEW d, DataSound(type, d), NEW k \in Nat
    PROVE  FieldsSound(type, d, k)
<1>1. FieldsAdded(type, d, k, 0, 0)
  BY FieldsGain
<1>. QED  BY <1>1 DEF FieldsAdded, FieldsSound

LEMMA FieldsOfNone ==
    ASSUME NEW type \in {"accumulator", "histogram"}
    PROVE  FieldsNone(type) /\ DataSound(type, Cleared(type))
<1>. DEFINE d == Cleared(type)
<1>1. DataSound(type, d)
  <2>1. type = "accumulator" => d.sum = 0
    BY DEF Cleared
  <2>. QED  BY <2>1, NoHistogram DEF DataSound
<1>. HIDE DEF d
<1>2. ASSUME NEW f \in AdditiveOf(type) PROVE Fields(type, Cleared(type), 0)[f] = 0
  <2>1. FieldAdds(type, d, 0, 0, 0, f)
    BY <1>1, FieldsAdd
  <2>. QED  BY <2>1 DEF FieldAdds
<1>. QED  BY <1>1, <1>2 DEF FieldsNone, d

LEMMA HeightsType ==
    ASSUME NEW b \in PartialMaps(Nat, Nat)
    PROVE  /\ Heights(b) \in [0..NumBins - 1 -> Int]
           /\ IsFiniteSet(0..NumBins - 1) /\ SumFunction(Heights(b)) \in Int
<1>1. \A x : Count(b, x) \in Nat
  BY CountType
<1>2. Heights(b) \in [0..NumBins - 1 -> Int]
  BY <1>1 DEF Heights
<1>3. IsFiniteSet(0..NumBins - 1)
  BY SizesAreNat, FS_Interval
<1>. HIDE DEF Heights
<1>4. SumFunction(Heights(b)) \in Int
  BY <1>2, <1>3, SumType
<1>. QED  BY <1>2, <1>3, <1>4

LEMMA TotalAdded ==
    ASSUME BinsAligned, NEW d \in Histograms, NEW n \in Nat, NEW v \in Nat, NEW r, HistogramAdded(d, r, n, v)
    PROVE  Total(r) = Total(d) + n
<1>. DEFINE S == 0..NumBins - 1
            F == Heights(d.bins)
            G == Heights(r.bins)
<1>1. d.bins \in PartialMaps(Nat, Nat) /\ r.bins \in PartialMaps(Nat, Nat) /\ d.below \in Nat /\ d.above \in Nat
  BY DEF HistogramAdded, Histograms
<1>2. F \in [S -> Int] /\ G \in [S -> Int] /\ IsFiniteSet(S) /\ SumFunction(F) \in Int
  BY <1>1, HeightsType
<1>3. \A x : Count(d.bins, x) \in Nat
  BY <1>1, CountType
<1>4. \A y \in S : F[y] = Count(d.bins, MinValue + y * BinWidth) /\ G[y] = Count(r.bins, MinValue + y * BinWidth)
  BY DEF Heights
<1>5. Total(d) = SumFunction(F) + d.below + d.above /\ Total(r) = SumFunction(G) + r.below + r.above
  BY DEF Total
<1>6. MinValue \in Int /\ MaxValue \in Int
  BY SizesAreNat DEF MaxValue
<1>7. \A x : Count(r.bins, x) =
          Count(d.bins, x) + (IF ~(v < MinValue) /\ ~(v > MaxValue) /\ x = BinStart(v) THEN n ELSE 0)
  BY DEF HistogramAdded
<1>8. /\ r.below = d.below + (IF v < MinValue THEN n ELSE 0)
      /\ r.above = d.above + (IF ~(v < MinValue) /\ v > MaxValue THEN n ELSE 0)
  BY DEF HistogramAdded
<1>. HIDE DEF F, G
<1>9. CASE v < MinValue \/ v > MaxValue
  <2>1. \A y \in S : G[y] = F[y]
    BY <1>3, <1>4, <1>7, <1>9
  <2>2. G = F
    <3>. HIDE DEF S
    <3>. QED  BY <1>2, <2>1
  <2>. QED  BY <1>1, <1>2, <1>5, <1>6, <1>8, <1>9, <2>2
<1>10. CASE ~(v < MinValue) /\ ~(v > MaxValue)
  <2>1. PICK z \in S : \A y \in S : MinValue + y * BinWidth = BinStart(v) <=> y = z
    <3>1. v >= MinValue /\ v <= MaxValue
      BY <1>6, <1>10
    <3>. QED  BY <3>1, OneBin
  <2>2. \A y \in S : G[y] = F[y] + (IF y = z THEN n ELSE 0)
    BY <1>4, <1>7, <1>10, <2>1
  <2>3. DifferAt(G, F, z, S)
    BY <1>2, <2>2 DEF DifferAt
  <2>. HIDE DEF S
  <2>4. SumFunction(G) = SumFunction(F) - F[z] + G[z]
    BY <1>2, <2>3, SumUpdate
  <2>5. F[z] \in Int /\ G[z] = F[z] + n
    BY <1>2, <2>2
  <2>. QED  BY <1>1, <1>2, <1>5, <1>8, <1>10, <2>4, <2>5
<1>. QED  BY <1>9, <1>10

LEMMA TotalZero == Total(Cleared("histogram")) = 0
<1>. DEFINE z == Cleared("histogram")
            S == 0..NumBins - 1
            F == Heights(z.bins)
<1>1. z \in Histograms /\ z.below = 0 /\ z.above = 0 /\ \A x : Count(z.bins, x) = 0
  BY NoHistogram
<1>. HIDE DEF z
<1>2. F \in [S -> Int] /\ IsFiniteSet(S)
  BY <1>1, HeightsType DEF Histograms
<1>3. \A y \in S : F[y] = 0
  BY <1>1 DEF Heights
<1>. HIDE DEF F, S
<1>4. SumFunction(F) = 0
  BY <1>2, <1>3, SumZero
<1>5. Total(z) = SumFunction(F) + z.below + z.above
  BY DEF Total, F
<1>. QED  BY <1>1, <1>4, <1>5 DEF z

(* A statistic of the parameters c holds the data d and the count k, has   *)
(* written the rows q, and should have collected g.                        *)
Cut(c, q) == {i \in DOMAIN q : c.reset /\ q[i].why # "end"}
CutSum(c, q, f) == SumFunction([i \in Cut(c, q) |-> q[i].fields[f]])
RowAddsUp(r) == BinSum(r) + r.fields[<<"below">>] + r.fields[<<"above">>] = r.fields[<<"count">>]

Accounted(c, d, k, q, g) ==
    \A f \in AdditiveOf(c.type) :
        /\ \A i \in DOMAIN q : q[i].fields[f] \in Nat
        /\ Fields(c.type, d, k)[f] + CutSum(c, q, f) = Fields(c.type, g.data, g.count)[f]
DataOf(c, d, k, q, g) ==
    /\ DataSound(c.type, d) /\ k \in Nat
    /\ DataSound(c.type, g.data) /\ g.count \in Nat
    /\ c.type # "unique" => Accounted(c, d, k, q, g)
    /\ c.type = "unique" /\ ~c.reset => d = g.data
    /\ c.type = "histogram" => Total(d) = k /\ \A i \in DOMAIN q : RowAddsUp(q[i])

LEMMA CutType ==
    ASSUME NEW c, NEW R, NEW q \in Seq(R), NEW f, \A i \in DOMAIN q : q[i].fields[f] \in Nat
    PROVE  /\ IsFiniteSet(Cut(c, q)) /\ [i \in Cut(c, q) |-> q[i].fields[f]] \in [Cut(c, q) -> Int]
           /\ CutSum(c, q, f) \in Int
<1>. DEFINE S == Cut(c, q)
            F == [i \in S |-> q[i].fields[f]]
<1>1. IsFiniteSet(S)
  <2>1. IsFiniteSet(DOMAIN q) /\ S \subseteq DOMAIN q
    BY FS_Interval DEF Cut
  <2>. HIDE DEF S
  <2>. QED  BY <2>1, FS_Subset
<1>2. F \in [S -> Int]
  BY DEF Cut
<1>. HIDE DEF S
<1>3. SumFunction(F) \in Int
  <2>. HIDE DEF F
  <2>. QED  BY <1>1, <1>2, SumType
<1>. QED  BY <1>1, <1>2, <1>3 DEF CutSum, S

LEMMA DataStart ==
    ASSUME NEW c, c.type \in {"accumulator", "histogram", "unique"}
    PROVE  DataOf(c, Cleared(c.type), 0, <<>>, [data |-> Cleared(c.type), count |-> 0])
<1>. DEFINE d == Cleared(c.type)
            q == <<>>
            g == [data |-> d, count |-> 0]
<1>1. g.data = d /\ g.count = 0
  OBVIOUS
<1>2. DataSound(c.type, d)
  <2>1. c.type = "accumulator" => d.sum = 0
    BY DEF Cleared
  <2>2. c.type = "unique" => IsFiniteSet(d)
    BY FS_EmptySet DEF Cleared
  <2>. QED  BY <2>1, <2>2, NoHistogram DEF DataSound
<1>3. DOMAIN q = {} /\ q \in Seq(Nat)
  OBVIOUS
<1>. HIDE DEF d, q, g
<1>4. ASSUME c.type # "unique", NEW f \in AdditiveOf(c.type)
      PROVE  Fields(c.type, d, 0)[f] + CutSum(c, q, f) = Fields(c.type, g.data, g.count)[f]
  <2>. DEFINE F == [i \in Cut(c, q) |-> q[i].fields[f]]
              S == Cut(c, q)
  <2>1. S = {} /\ F \in [S -> Int]
    BY <1>3 DEF Cut
  <2>. HIDE DEF S, F
  <2>2. SumFunction(F) = 0
    BY <2>1, FS_EmptySet, SumZero
  <2>3. CutSum(c, q, f) = 0
    BY <2>2 DEF CutSum, F
  <2>4. Fields(c.type, d, 0)[f] \in Nat
    <3>. DEFINE t == c.type
    <3>1. t \in {"accumulator", "histogram"} /\ DataSound(t, d) /\ f \in AdditiveOf(t)
      BY <1>2, <1>4
    <3>. HIDE DEF t
    <3>2. FieldsSound(t, d, 0)
      BY <3>1, FieldsOf
    <3>. QED  BY <3>1, <3>2 DEF FieldsSound, t
  <2>. QED  BY <1>1, <2>3, <2>4
<1>5. c.type # "unique" => Accounted(c, d, 0, q, g)
  BY <1>3, <1>4 DEF Accounted
<1>6. c.type = "histogram" => Total(d) = 0
  BY TotalZero DEF d
<1>7. DataOf(c, d, 0, q, g)
  BY <1>1, <1>2, <1>3, <1>5, <1>6 DEF DataOf
<1>. QED  BY <1>7 DEF d, q, g

LEMMA DataAdded ==
    ASSUME BinsAligned, NEW c, c.type \in {"accumulator", "histogram", "unique"},
           NEW d, NEW k, NEW R, NEW q \in Seq(R), NEW g,
           DataOf(c, d, k, q, g), NEW n \in Nat, NEW v \in Nat
    PROVE  DataOf(c, AddImpl(c.type, d, n, v), k + n, q,
                  [data |-> AddImpl(c.type, g.data, n, v), count |-> g.count + n])
<1>. DEFINE e == AddImpl(c.type, d, n, v)
            x == AddImpl(c.type, g.data, n, v)
            h == [data |-> x, count |-> g.count + n]
            T == {"accumulator", "histogram"}
<1>1. h.data = x /\ h.count = g.count + n
  OBVIOUS
<1>2. DataSound(c.type, d) /\ k \in Nat /\ DataSound(c.type, g.data) /\ g.count \in Nat
  BY DEF DataOf
<1>3. <<"sum">> \in AdditiveOf("accumulator") /\ <<"sum">> \in AdditiveOf("histogram")
  BY DEF AdditiveOf
<1>. HIDE DEF h
<1>4. DataSound(c.type, e) /\ DataSound(c.type, x)
  <2>1. CASE c.type \in T
    <3>1. <<"sum">> \in AdditiveOf(c.type)
      BY <1>3, <2>1
    <3>. DEFINE t == c.type
                y == g.data
    <3>2. t \in T /\ DataSound(t, d) /\ DataSound(t, y) /\ <<"sum">> \in AdditiveOf(t)
      BY <1>2, <2>1, <3>1
    <3>. HIDE DEF t, y
    <3>3. FieldAdds(t, d, 0, n, v, <<"sum">>) /\ FieldAdds(t, y, 0, n, v, <<"sum">>)
      BY <3>2, FieldsAdd
    <3>. QED  BY <3>3 DEF FieldAdds, t, y
  <2>2. CASE c.type = "unique"
    <3>. DEFINE y == g.data
    <3>1. IsFiniteSet(d) /\ IsFiniteSet(y) /\ e = d \cup {v} /\ x = y \cup {v}
      BY <1>2, <2>2 DEF DataSound, AddImpl
    <3>. HIDE DEF e, x, y
    <3>2. IsFiniteSet(e) /\ IsFiniteSet(x)
      BY <3>1, FS_AddElement
    <3>. QED  BY <2>2, <3>2 DEF DataSound
  <2>. QED  BY <2>1, <2>2
<1>5. ASSUME c.type # "unique", NEW f \in AdditiveOf(c.type)
      PROVE  /\ \A i \in DOMAIN q : q[i].fields[f] \in Nat
             /\ Fields(c.type, e, k + n)[f] + CutSum(c, q, f) = Fields(c.type, h.data, h.count)[f]
  <2>1. /\ \A i \in DOMAIN q : q[i].fields[f] \in Nat
        /\ Fields(c.type, d, k)[f] + CutSum(c, q, f) = Fields(c.type, g.data, g.count)[f]
    BY <1>5 DEF DataOf, Accounted
  <2>2. c.type \in T
    BY <1>5
  <2>3. /\ Fields(c.type, d, k)[f] \in Nat /\ Gain(c.type, n, v, f) \in Nat
        /\ Fields(c.type, e, k + n)[f] = Fields(c.type, d, k)[f] + Gain(c.type, n, v, f)
    <3>. DEFINE t == c.type
    <3>1. t \in T /\ DataSound(t, d) /\ f \in AdditiveOf(t)
      BY <1>2, <1>5, <2>2
    <3>. HIDE DEF t
    <3>2. /\ Fields(t, d, k)[f] \in Nat /\ Gain(t, n, v, f) \in Nat
          /\ Fields(t, AddImpl(t, d, n, v), k + n)[f] = Fields(t, d, k)[f] + Gain(t, n, v, f)
      <4>1. FieldsAdded(t, d, k, n, v)
        BY <1>2, <3>1, FieldsGain
      <4>. QED  BY <3>1, <4>1 DEF FieldsAdded
    <3>. QED  BY <3>2 DEF t
  <2>4. /\ Fields(c.type, g.data, g.count)[f] \in Nat
        /\ Fields(c.type, x, g.count + n)[f] = Fields(c.type, g.data, g.count)[f] + Gain(c.type, n, v, f)
    <3>. DEFINE t == c.type
                y == g.data
                m == g.count
    <3>1. t \in T /\ DataSound(t, y) /\ f \in AdditiveOf(t) /\ m \in Nat
      BY <1>2, <1>5, <2>2
    <3>. HIDE DEF t, y, m
    <3>2. /\ Fields(t, y, m)[f] \in Nat
          /\ Fields(t, AddImpl(t, y, n, v), m + n)[f] = Fields(t, y, m)[f] + Gain(t, n, v, f)
      <4>1. FieldsAdded(t, y, m, n, v)
        BY <3>1, FieldsGain
      <4>. QED  BY <3>1, <4>1 DEF FieldsAdded
    <3>. QED  BY <3>2 DEF t, y, m
  <2>5. CutSum(c, q, f) \in Int
    BY <2>1, CutType
  <2>. HIDE DEF e, x
  <2>. QED  BY <1>1, <2>1, <2>3, <2>4, <2>5
<1>6. c.type # "unique" => Accounted(c, e, k + n, q, h)
  <2>. HIDE DEF e, x
  <2>. QED  BY <1>5 DEF Accounted
<1>7. c.type = "unique" /\ ~c.reset => e = h.data
  BY <1>1 DEF DataOf
<1>8. ASSUME c.type = "histogram" PROVE Total(e) = k + n /\ \A i \in DOMAIN q : RowAddsUp(q[i])
  <2>1. d \in Histograms /\ Total(d) = k /\ \A i \in DOMAIN q : RowAddsUp(q[i])
    BY <1>8 DEF DataOf, DataSound
  <2>2. e = AddToHistogram(d, n, v)
    BY <1>8 DEF AddImpl
  <2>. HIDE DEF e
  <2>3. HistogramAdded(d, e, n, v)
    BY <2>1, <2>2, HistogramEffect
  <2>. QED  BY <2>1, <2>3, TotalAdded
<1>9. DataOf(c, e, k + n, q, h)
  <2>. HIDE DEF e, x
  <2>1. k + n \in Nat /\ h.count \in Nat
    BY <1>1, <1>2
  <2>. QED  BY <1>1, <1>4, <1>6, <1>7, <1>8, <2>1 DEF DataOf
<1>. QED  BY <1>9 DEF h

RowTyped(c, r) == \A f \in AdditiveOf(c.type) : r.fields[f] \in Nat

(* The fields of a row that has just been written. *)
LEMMA RowSound ==
    ASSUME NEW c, c.type \in {"accumulator", "histogram"}, NEW d, NEW k \in Nat, DataSound(c.type, d),
           NEW r, r.fields = Fields(c.type, d, k)
    PROVE  /\ RowTyped(c, r)
           /\ c.type = "histogram" /\ Total(d) = k => RowAddsUp(r)
<1>1. ASSUME NEW f \in AdditiveOf(c.type) PROVE r.fields[f] \in Nat
  <2>. DEFINE t == c.type
  <2>1. t \in {"accumulator", "histogram"} /\ DataSound(t, d) /\ f \in AdditiveOf(t)
    BY <1>1
  <2>. HIDE DEF t
  <2>2. FieldsSound(t, d, k)
    BY <2>1, FieldsOf
  <2>. QED  BY <2>1, <2>2 DEF FieldsSound, t
<1>2. ASSUME c.type = "histogram", Total(d) = k PROVE RowAddsUp(r)
  <2>. DEFINE F == [y \in 0..NumBins - 1 |-> r.fields[<<"bin", y>>]]
              S == 0..NumBins - 1
  <2>1. r.fields = Fields("histogram", d, k)
    BY <1>2
  <2>2. /\ r.fields[<<"count">>] = k /\ r.fields[<<"below">>] = d.below /\ r.fields[<<"above">>] = d.above
        /\ \A y \in S : r.fields[<<"bin", y>>] = Count(d.bins, MinValue + y * BinWidth)
    BY <2>1, HistogramFields
  <2>3. F = Heights(d.bins)
    BY <2>2 DEF Heights
  <2>4. BinSum(r) = SumFunction(F)
    BY DEF BinSum
  <2>. HIDE DEF F
  <2>. QED  BY <1>2, <2>2, <2>3, <2>4 DEF RowAddsUp, Total
<1>. QED  BY <1>1, <1>2 DEF RowTyped

(* A row of what a statistic holds is written, and nothing is cleared. *)
LEMMA RowKept ==
    ASSUME NEW c, c.type \in {"accumulator", "histogram", "unique"}, NEW d, NEW k,
           NEW R, NEW q \in Seq(R), NEW g, DataOf(c, d, k, q, g),
           NEW r \in R, r.fields = Fields(c.type, d, k), r.why = "end" \/ ~c.reset
    PROVE  DataOf(c, d, k, Append(q, r), g)
<1>. DEFINE p == Append(q, r)
<1>1. /\ Len(q) + 1 \notin DOMAIN q /\ DOMAIN p = DOMAIN q \cup {Len(q) + 1}
      /\ p[Len(q) + 1] = r /\ \A i \in DOMAIN q : p[i] = q[i]
  BY AppendRow
<1>. HIDE DEF p
<1>2. Cut(c, p) = Cut(c, q)
  BY <1>1 DEF Cut
<1>3. \A f : CutSum(c, p, f) = CutSum(c, q, f)
  <2>1. ASSUME NEW f PROVE CutSum(c, p, f) = CutSum(c, q, f)
    <3>. DEFINE F == [i \in Cut(c, q) |-> q[i].fields[f]]
                G == [i \in Cut(c, p) |-> p[i].fields[f]]
    <3>1. \A i \in Cut(c, q) : p[i] = q[i]
      BY <1>1 DEF Cut
    <3>2. F = G
      BY <1>2, <3>1
    <3>3. CutSum(c, p, f) = SumFunction(G) /\ CutSum(c, q, f) = SumFunction(F)
      BY DEF CutSum
    <3>. HIDE DEF F, G
    <3>. QED  BY <3>2, <3>3
  <2>. QED  BY <2>1
<1>4. DataSound(c.type, d) /\ k \in Nat
  BY DEF DataOf
<1>5. ASSUME c.type # "unique" PROVE Accounted(c, d, k, p, g)
  <2>1. \A f \in AdditiveOf(c.type) : r.fields[f] \in Nat
    <3>1. c.type \in {"accumulator", "histogram"}
      BY <1>5
    <3>2. RowTyped(c, r)
      <4>. DEFINE t == c.type
      <4>1. t \in {"accumulator", "histogram"} /\ DataSound(t, d)
        BY <1>4, <3>1
      <4>. HIDE DEF t
      <4>2. FieldsSound(t, d, k)
        BY <1>4, <4>1, FieldsOf
      <4>. QED  BY <4>2 DEF FieldsSound, RowTyped, t
    <3>. QED  BY <3>2 DEF RowTyped
  <2>2. Accounted(c, d, k, q, g)
    BY <1>5 DEF DataOf
  <2>. QED  BY <1>1, <1>3, <2>1, <2>2 DEF Accounted
<1>6. ASSUME c.type = "histogram" PROVE Total(d) = k /\ \A i \in DOMAIN p : RowAddsUp(p[i])
  <2>1. Total(d) = k /\ \A i \in DOMAIN q : RowAddsUp(q[i])
    BY <1>6 DEF DataOf
  <2>2. RowAddsUp(r)
    BY <1>4, <1>6, <2>1, RowSound
  <2>. QED  BY <1>1, <2>1, <2>2
<1>7. DataOf(c, d, k, p, g)
  BY <1>5, <1>6 DEF DataOf
<1>. QED  BY <1>7 DEF p

(* A row of what a statistic holds is written, and the data are cleared. *)
LEMMA RowCut ==
    ASSUME NEW c, c.type \in {"accumulator", "histogram", "unique"}, NEW d, NEW k,
           NEW R, NEW q \in Seq(R), NEW g, DataOf(c, d, k, q, g),
           NEW r \in R, r.fields = Fields(c.type, d, k), r.why # "end", c.reset,
           NEW m \in Nat, c.type # "unique" => m = 0
    PROVE  DataOf(c, Cleared(c.type), m, Append(q, r), g)
<1>. DEFINE p == Append(q, r)
            z == Cleared(c.type)
            l == Len(q) + 1
<1>1. /\ p \in Seq(R) /\ l \notin DOMAIN q /\ DOMAIN p = DOMAIN q \cup {l}
      /\ p[l] = r /\ \A i \in DOMAIN q : p[i] = q[i]
  BY AppendRow
<1>. HIDE DEF p, l
<1>2. Cut(c, p) = Cut(c, q) \cup {l} /\ l \notin Cut(c, q) /\ \A i \in Cut(c, q) : p[i] = q[i]
  BY <1>1 DEF Cut
<1>3. DataSound(c.type, d) /\ k \in Nat
  BY DEF DataOf
<1>4. c.type # "unique" => \A f \in AdditiveOf(c.type) : r.fields[f] \in Nat
  <2>1. c.type # "unique" => c.type \in {"accumulator", "histogram"}
    OBVIOUS
  <2>2. ASSUME c.type # "unique" PROVE RowTyped(c, r)
    <3>. DEFINE t == c.type
    <3>1. t \in {"accumulator", "histogram"} /\ DataSound(t, d)
      BY <1>3, <2>1, <2>2
    <3>. HIDE DEF t
    <3>2. FieldsSound(t, d, k)
      BY <1>3, <3>1, FieldsOf
    <3>. QED  BY <3>2 DEF FieldsSound, RowTyped, t
  <2>. QED  BY <2>2 DEF RowTyped
<1>5. DataSound(c.type, z)
  <2>1. c.type = "accumulator" => z.sum = 0
    BY DEF Cleared
  <2>2. c.type = "unique" => IsFiniteSet(z)
    BY FS_EmptySet DEF Cleared
  <2>. QED  BY <2>1, <2>2, NoHistogram DEF DataSound
<1>6. ASSUME c.type # "unique", NEW f \in AdditiveOf(c.type)
      PROVE  /\ \A i \in DOMAIN p : p[i].fields[f] \in Nat
             /\ Fields(c.type, z, m)[f] + CutSum(c, p, f) = Fields(c.type, g.data, g.count)[f]
  <2>1. /\ \A i \in DOMAIN q : q[i].fields[f] \in Nat
        /\ Fields(c.type, d, k)[f] + CutSum(c, q, f) = Fields(c.type, g.data, g.count)[f]
    BY <1>6 DEF DataOf, Accounted
  <2>2. \A i \in DOMAIN p : p[i].fields[f] \in Nat
    BY <1>1, <1>4, <1>6, <2>1
  <2>3. CutSum(c, p, f) = CutSum(c, q, f) + r.fields[f]
    <3>. DEFINE S == Cut(c, q)
                F == [i \in S |-> q[i].fields[f]]
                G == [i \in Cut(c, p) |-> p[i].fields[f]]
    <3>1. IsFiniteSet(S) /\ F \in [S -> Int]
      BY <2>1, CutType
    <3>2. G \in [Cut(c, p) -> Int]
      BY <1>1, <2>2, CutType
    <3>3. G \in [S \cup {l} -> Int] /\ l \notin S
      BY <1>2, <3>2
    <3>4. AgreeOn(F, G, S)
      BY <1>2 DEF AgreeOn
    <3>5. G[l] = r.fields[f]
      BY <1>1, <1>2
    <3>6. CutSum(c, p, f) = SumFunction(G) /\ CutSum(c, q, f) = SumFunction(F)
      BY DEF CutSum
    <3>. HIDE DEF S, F, G
    <3>7. SumFunction(G) = SumFunction(F) + G[l]
      BY <3>1, <3>3, <3>4, SumExtend
    <3>. QED  BY <3>5, <3>6, <3>7
  <2>4. Fields(c.type, z, m)[f] = 0 /\ Fields(c.type, d, k)[f] \in Nat
    <3>. DEFINE t == c.type
    <3>1. t \in {"accumulator", "histogram"} /\ DataSound(t, d) /\ f \in AdditiveOf(t)
      BY <1>3, <1>6
    <3>. HIDE DEF t
    <3>2. Fields(t, Cleared(t), 0)[f] = 0 /\ Fields(t, d, k)[f] \in Nat
      <4>1. FieldsNone(t) /\ FieldsSound(t, d, k)
        BY <1>3, <3>1, FieldsOf, FieldsOfNone
      <4>. QED  BY <3>1, <4>1 DEF FieldsNone, FieldsSound
    <3>3. m = 0
      BY <1>6
    <3>. QED  BY <3>2, <3>3 DEF t
  <2>5. CutSum(c, q, f) \in Int /\ r.fields[f] = Fields(c.type, d, k)[f]
    BY <2>1, CutType
  <2>. HIDE DEF z
  <2>. QED  BY <2>1, <2>2, <2>3, <2>4, <2>5
<1>7. c.type # "unique" => Accounted(c, z, m, p, g)
  <2>. HIDE DEF z
  <2>. QED  BY <1>6 DEF Accounted
<1>8. ASSUME c.type = "histogram" PROVE Total(z) = m /\ \A i \in DOMAIN p : RowAddsUp(p[i])
  <2>1. Total(d) = k /\ \A i \in DOMAIN q : RowAddsUp(q[i])
    BY <1>8 DEF DataOf
  <2>2. RowAddsUp(r)
    BY <1>3, <1>8, <2>1, RowSound
  <2>3. Total(z) = 0 /\ m = 0
    BY <1>8, TotalZero
  <2>. QED  BY <1>1, <2>1, <2>2, <2>3
<1>. HIDE DEF z
<1>9. DataOf(c, z, m, p, g)
  BY <1>5, <1>7, <1>8 DEF DataOf
<1>. QED  BY <1>9 DEF p, z

-----------------------------------------------------------------------------
(* What every statistic has collected. *)

StatDataOf(s) == DataOf(config[s], engine.stat[s].data, engine.stat[s].current, rows[s], given[s])
StatData ==
    /\ given = [s \in Stats |-> given[s]]
    /\ \A s \in Stats : StatDataOf(s)

LEMMA TypesOfStats ==
    ASSUME StatInd, NEW s \in Stats
    PROVE  config[s].type \in {"accumulator", "histogram", "unique"}
<1>1. config[s] \in Configs
  BY DEF StatInd, StatType
<1>. QED  BY <1>1, StatisticsAssumption

LEMMA CollectedStart ==
    ASSUME StatInit
    PROVE  StatData
<1>1. StatInd
  BY StatStart
<1>2. given = [s \in Stats |-> given[s]]
  BY DEF StatInit
<1>3. ASSUME NEW s \in Stats PROVE StatDataOf(s)
  <2>1. /\ engine.stat[s].data = Cleared(config[s].type) /\ engine.stat[s].current = 0
        /\ rows[s] = <<>> /\ given[s] = [data |-> Cleared(config[s].type), count |-> 0]
    BY DEF StatInit, NoEngine, NewStat
  <2>. DEFINE c == config[s]
  <2>2. c.type \in {"accumulator", "histogram", "unique"}
    BY <1>1, TypesOfStats
  <2>. HIDE DEF c
  <2>3. DataOf(c, Cleared(c.type), 0, <<>>, [data |-> Cleared(c.type), count |-> 0])
    BY <2>2, DataStart
  <2>. QED  BY <2>1, <2>3 DEF StatDataOf, c
<1>. QED  BY <1>2, <1>3 DEF StatData

(* Nothing is collected, written or cleared. *)
LEMMA DataKept ==
    ASSUME StatData, UNCHANGED <<config, given, rows>>,
           \A s \in Stats : SameData(engine.stat[s], engine'.stat[s])
    PROVE  StatData'
<1>1. ASSUME NEW s \in Stats PROVE StatDataOf(s)'
  <2>1. StatDataOf(s) /\ SameData(engine.stat[s], engine'.stat[s])
    BY DEF StatData
  <2>. QED  BY <2>1 DEF StatDataOf, SameData
<1>2. (\A s \in Stats : StatDataOf(s))'
  BY <1>1
<1>. QED  BY <1>2 DEF StatData

LEMMA AfterOutputData ==
    ASSUME NEW V, NEW s \in Stats, NEW st \in Collectors(V)
    PROVE  /\ ~config[s].reset => SameData(st, AfterOutput(s, st))
           /\ config[s].reset =>
                 /\ AfterOutput(s, st).data = Cleared(config[s].type)
                 /\ AfterOutput(s, st).current = IF config[s].type = "unique" THEN st.current ELSE 0
<1>. DEFINE counted == IF config[s].mode = "event" /\ ~config[s].group
                       THEN [st EXCEPT !.output = 0] ELSE st
            empty == Cleared(config[s].type)
            counts == IF config[s].type = "unique" THEN counted
                      ELSE [counted EXCEPT !.current = 0, !.output = 0]
            cleared == [counts EXCEPT !.data = empty]
<1>1. counted \in Collectors(V) /\ SameData(st, counted)
  BY DEF Collectors, SameData
<1>2. AfterOutput(s, st) = IF config[s].reset THEN cleared ELSE counted
  BY DEF AfterOutput, ClearData
<1>. HIDE DEF counted
<1>3. /\ counts \in Collectors(V)
      /\ counts.current = IF config[s].type = "unique" THEN counted.current ELSE 0
  BY <1>1 DEF Collectors
<1>. HIDE DEF counts, empty
<1>4. cleared.data = empty /\ cleared.current = counts.current
  BY <1>3 DEF Collectors
<1>. HIDE DEF cleared
<1>. QED  BY <1>1, <1>2, <1>3, <1>4 DEF SameData, empty

(* A row is written of a statistic, and what follows. *)
LEMMA DataWritten ==
    ASSUME NEW V, NEW s \in Stats, NEW st \in Collectors(V),
           config[s].type \in {"accumulator", "histogram", "unique"},
           NEW R, NEW q \in Seq(R), NEW g, DataOf(config[s], st.data, st.current, q, g), NEW why, NEW new,
           new = IF why # "end" THEN AfterOutput(s, st) ELSE st
    PROVE  DataOf(config[s], new.data, new.current, Append(q, RowOf(s, st, why)), g)
<1>. DEFINE r == RowOf(s, st, why)
            Q == R \cup {r}
            c == config[s]
            d == st.data
            k == st.current
<1>1. r.fields = Fields(c.type, d, k) /\ r.why = why
  BY DEF RowOf
<1>2. q \in Seq(Q) /\ r \in Q
  BY SeqMonotonic
<1>3. k \in Nat
  BY DEF Collectors
<1>4. c.type \in {"accumulator", "histogram", "unique"} /\ DataOf(c, d, k, q, g)
  OBVIOUS
<1>5. /\ ~c.reset => SameData(st, AfterOutput(s, st))
      /\ c.reset => /\ AfterOutput(s, st).data = Cleared(c.type)
                    /\ AfterOutput(s, st).current = IF c.type = "unique" THEN k ELSE 0
  BY AfterOutputData
<1>6. SameData(st, new) <=> new.data = d /\ new.current = k
  BY DEF SameData
<1>. HIDE DEF r, Q, c, d, k
<1>7. CASE why = "end" \/ ~c.reset
  <2>1. DataOf(c, d, k, Append(q, r), g)
    BY <1>1, <1>2, <1>4, <1>7, RowKept
  <2>2. SameData(st, new)
    BY <1>5, <1>7 DEF SameData
  <2>. QED  BY <1>6, <2>1, <2>2 DEF r, c
<1>8. CASE why # "end" /\ c.reset
  <2>. DEFINE m == new.current
  <2>1. new.data = Cleared(c.type) /\ m \in Nat /\ (c.type # "unique" => m = 0)
    BY <1>3, <1>5, <1>8
  <2>. HIDE DEF m
  <2>2. DataOf(c, Cleared(c.type), m, Append(q, r), g)
    BY <1>1, <1>2, <1>4, <1>8, <2>1, RowCut
  <2>. QED  BY <2>1, <2>2 DEF r, c, m
<1>. QED  BY <1>7, <1>8

LEMMA OutputsKeepData ==
    ASSUME StatInd, StatData, Outputs
    PROVE  StatData'
<1>1. PICK V, S, why, e : OutputOf(S, why, e, V)
  BY OutputSteps
<1>2. UNCHANGED <<config, given>>
  BY OutputSteps
<1>3. PICK R : rows \in [Stats -> Seq(R)]
  BY DEF StatInd, StatType
<1>4. e.stat = engine.stat /\ \A s \in Stats : e.stat[s] \in Collectors(V)
  BY <1>1 DEF OutputOf, Engines
<1>5. ASSUME NEW s \in Stats
      PROVE  /\ rows'[s] = IF started /\ s \in S THEN Append(rows[s], RowOf(s, e.stat[s], why)) ELSE rows[s]
             /\ engine'.stat[s] = IF started /\ s \in S /\ why # "end" THEN AfterOutput(s, e.stat[s])
                                  ELSE e.stat[s]
  <2>. DEFINE m == [x \in Stats |-> IF started /\ x \in S /\ why # "end"
                                    THEN AfterOutput(x, e.stat[x]) ELSE e.stat[x]]
  <2>1. engine' = [e EXCEPT !.stat = m]
    BY <1>1 DEF OutputOf, Output
  <2>2. m[s] = IF started /\ s \in S /\ why # "end" THEN AfterOutput(s, e.stat[s]) ELSE e.stat[s]
    OBVIOUS
  <2>. HIDE DEF m
  <2>3. engine'.stat = m
    BY <1>1, <2>1 DEF OutputOf, Engines
  <2>. QED  BY <1>1, <2>2, <2>3 DEF OutputOf, Output
<1>6. ASSUME NEW s \in Stats PROVE StatDataOf(s)'
  <2>. DEFINE st == e.stat[s]
              q == rows[s]
              g == given[s]
  <2>1. DataOf(config[s], st.data, st.current, q, g)
    BY <1>4 DEF StatData, StatDataOf
  <2>2. CASE ~(started /\ s \in S)
    BY <1>2, <1>4, <1>5, <2>1, <2>2 DEF StatDataOf
  <2>3. CASE started /\ s \in S
    <3>. DEFINE new == engine'.stat[s]
    <3>1. new = IF why # "end" THEN AfterOutput(s, st) ELSE st
      BY <1>5, <2>3
    <3>2. rows'[s] = Append(q, RowOf(s, st, why))
      BY <1>5, <2>3
    <3>3. config[s].type \in {"accumulator", "histogram", "unique"} /\ st \in Collectors(V) /\ q \in Seq(R)
      BY <1>3, <1>4, TypesOfStats
    <3>. HIDE DEF new, st, q, g
    <3>4. DataOf(config[s], new.data, new.current, Append(q, RowOf(s, st, why)), g)
      BY <2>1, <3>1, <3>3, DataWritten
    <3>. QED  BY <1>2, <3>2, <3>4 DEF StatDataOf, new, g
  <2>. QED  BY <2>2, <2>3
<1>7. (\A s \in Stats : StatDataOf(s))'
  BY <1>6
<1>. QED  BY <1>2, <1>7 DEF StatData

(* A statistic is enabled when what it collects counts. *)
LEMMA EnabledInWindow ==
    ASSUME StatInd, StatWindows, NEW s \in Registered, prio # STATISTICCLOCK
    PROVE  engine.stat[s].enabled <=> InWindow(s)
<1>. USE DEF SYNC, EVENT, STATISTICCLOCK, EXIT
<1>1. now \in Nat /\ prio \in {0, SYNC, EVENT, STATISTICCLOCK, EXIT} /\ s \in Stats
  BY StatNow DEF StatInd, StatType
<1>2. prio = EXIT => now \notin DOMAIN engine.oneshots
  BY <1>1 DEF StatWindows
<1>3. \A t : Fired(t) <=> Passed(t)
  BY <1>1, <1>2 DEF Fired, Passed
<1>4. FlagsKept(s)
  BY DEF StatWindows
<1>. QED  BY <1>3, <1>4 DEF FlagsKept, InWindow, Opens, Closes

LEMMA AddDataKeepsData ==
    ASSUME StatInd, StatWindows, StatData, BinsAligned,
           NEW s \in Stats, NEW n \in Nat, NEW v \in Nat, AddData(s, n, v)
    PROVE  StatData'
<1>. DEFINE old == engine.stat[s]
            added == AddImpl(config[s].type, old.data, n, v)
            st == [old EXCEPT !.data = added, !.current = @ + n, !.output = @ + n]
            due == old.enabled /\ OutputIsDue(s, st) /\ started
            new == IF ~old.enabled THEN old ELSE IF due THEN AfterOutput(s, st) ELSE st
            W == {old.data, added}
<1>1. PICK V : engine \in Engines(V)
  BY DEF StatInd, StatType
<1>2. engine.stat \in [Stats -> Collectors(V)] /\ old \in Collectors(V)
  BY <1>1 DEF Engines
<1>3. PICK R : rows \in [Stats -> Seq(R)]
  BY DEF StatInd, StatType
<1>4. old.enabled <=> InWindow(s)
  <2>1. s \in Registered /\ prio # STATISTICCLOCK
    BY DEF AddData, StatInd, StatPhase, SYNC, EVENT, STATISTICCLOCK, EXIT
  <2>. QED  BY <2>1, EnabledInWindow
<1>5. /\ engine' = [engine EXCEPT !.stat[s] = new]
      /\ rows' = IF due THEN [rows EXCEPT ![s] = Append(@, RowOf(s, st, "count"))] ELSE rows
  <2>1. st = [old EXCEPT !.data = AddImpl(config[s].type, @, n, v), !.current = @ + n, !.output = @ + n]
    BY <1>2 DEF Collectors
  <2>. HIDE DEF st
  <2>. QED  BY <2>1 DEF AddData
<1>6. /\ UNCHANGED config
      /\ given' = [given EXCEPT ![s] =
                      IF InWindow(s)
                      THEN [data |-> AddImpl(config[s].type, @.data, n, v), count |-> @.count + n] ELSE @]
  BY DEF AddData
<1>7. st.data = added /\ st.current = old.current + n /\ st \in Collectors(W)
  <2>1. old.current + n \in Nat /\ old.output + n \in Nat /\ added \in W
    BY <1>2 DEF Collectors
  <2>. HIDE DEF added, W
  <2>. QED  BY <1>2, <2>1 DEF Collectors
<1>. HIDE DEF st, due, added
<1>8. ASSUME NEW x \in Stats
      PROVE  /\ engine'.stat[x] = IF x = s THEN new ELSE engine.stat[x]
             /\ x # s => rows'[x] = rows[x]
             /\ rows'[s] = IF due THEN Append(rows[s], RowOf(s, st, "count")) ELSE rows[s]
  <2>. HIDE DEF new
  <2>. DEFINE m == [engine.stat EXCEPT ![s] = new]
  <2>1. engine' = [engine EXCEPT !.stat = m]
    BY <1>1, <1>5 DEF Engines
  <2>2. m[x] = IF x = s THEN new ELSE engine.stat[x]
    BY <1>2
  <2>. HIDE DEF m
  <2>3. engine'.stat = m
    BY <1>1, <2>1 DEF Engines
  <2>. QED  BY <1>3, <1>5, <2>2, <2>3
<1>9. /\ given' = [x \in Stats |-> given'[x]]
      /\ \A x \in Stats : x # s => given'[x] = given[x]
      /\ given'[s] = IF old.enabled
                     THEN [data |-> AddImpl(config[s].type, given[s].data, n, v), count |-> given[s].count + n]
                     ELSE given[s]
  <2>1. DOMAIN given = Stats /\ given = [x \in Stats |-> given[x]]
    BY DEF StatData
  <2>. HIDE DEF old
  <2>. QED  BY <1>4, <1>6, <2>1
<1>10. DataOf(config[s], old.data, old.current, rows[s], given[s])
  BY DEF StatData, StatDataOf
<1>11. StatDataOf(s)'
  <2>. DEFINE c == config[s]
              g == given[s]
              d == old.data
              k == old.current
              q == rows[s]
              h == [data |-> AddImpl(c.type, g.data, n, v), count |-> g.count + n]
  <2>1. c.type \in {"accumulator", "histogram", "unique"} /\ q \in Seq(R) /\ DataOf(c, d, k, q, g)
    BY <1>3, <1>10, TypesOfStats
  <2>2. CASE ~old.enabled
    <3>1. engine'.stat[s] = old /\ rows'[s] = q /\ given'[s] = g
      BY <1>8, <1>9, <2>2 DEF due
    <3>. QED  BY <1>6, <2>1, <3>1 DEF StatDataOf
  <2>3. CASE old.enabled
    <3>1. engine'.stat[s] = IF due THEN AfterOutput(s, st) ELSE st
      BY <1>8, <2>3
    <3>2. rows'[s] = (IF due THEN Append(q, RowOf(s, st, "count")) ELSE q) /\ given'[s] = h
      BY <1>8, <1>9, <2>3
    <3>3. DataOf(c, st.data, st.current, q, h)
      <4>1. st.data = AddImpl(c.type, d, n, v) /\ st.current = k + n
        BY <1>7 DEF added
      <4>. HIDE DEF c, d, k, q, g
      <4>2. DataOf(c, AddImpl(c.type, d, n, v), k + n, q, h)
        BY <2>1, DataAdded
      <4>. QED  BY <4>1, <4>2
    <3>4. CASE ~due
      BY <1>6, <3>1, <3>2, <3>3, <3>4 DEF StatDataOf
    <3>5. CASE due
      <4>. DEFINE u == AfterOutput(s, st)
      <4>1. u = IF "count" # "end" THEN AfterOutput(s, st) ELSE st
        OBVIOUS
      <4>2. config[s].type \in {"accumulator", "histogram", "unique"} /\ DataOf(config[s], st.data, st.current, q, h)
        BY <2>1, <3>3
      <4>. HIDE DEF u, h, q, c
      <4>3. DataOf(config[s], u.data, u.current, Append(q, RowOf(s, st, "count")), h)
        BY <1>7, <2>1, <4>1, <4>2, DataWritten
      <4>. QED  BY <1>6, <3>1, <3>2, <3>5, <4>3 DEF StatDataOf, u
    <3>. QED  BY <3>4, <3>5
  <2>. QED  BY <2>2, <2>3
<1>12. ASSUME NEW x \in Stats, x # s PROVE StatDataOf(x)'
  <2>1. engine'.stat[x] = engine.stat[x] /\ rows'[x] = rows[x] /\ given'[x] = given[x] /\ config' = config
    BY <1>6, <1>8, <1>9, <1>12
  <2>2. StatDataOf(x)
    BY DEF StatData
  <2>. QED  BY <2>1, <2>2 DEF StatDataOf
<1>13. (\A x \in Stats : StatDataOf(x))'
  BY <1>11, <1>12
<1>. QED  BY <1>9, <1>13 DEF StatData

LEMMA StatesKeepData ==
    ASSUME StatInd, StatData, WireUpFinished \/ PrepareForRun \/ EndRun \/ Advance \/ UNCHANGED statVars
    PROVE  StatData'
<1>1. PICK V : engine \in Engines(V)
  BY DEF StatInd, StatType
<1>2. UNCHANGED <<config, given, rows>>
  BY DEF WireUpFinished, PrepareForRun, EndRun, Advance, statVars
<1>3. engine'.stat = engine.stat
  <2>1. CASE WireUpFinished
    <3>. DEFINE g == FirstTick(GroupRate)
                u == [engine EXCEPT !.groupClock = g]
    <3>1. engine' = IF GroupRate = 0 THEN engine ELSE u
      BY <2>1 DEF WireUpFinished, Finalize
    <3>. HIDE DEF g
    <3>2. u.stat = engine.stat
      BY <1>1 DEF Engines
    <3>. QED  BY <3>1, <3>2
  <2>. QED  BY <2>1 DEF PrepareForRun, EndRun, Advance, statVars
<1>4. \A s \in Stats : SameData(engine.stat[s], engine'.stat[s])
  BY <1>3 DEF SameData
<1>. QED  BY <1>2, <1>4, DataKept

LEMMA RegisterKeepsData ==
    ASSUME StatInd, StatData, NEW s \in Stats, Register(s)
    PROVE  StatData'
<1>. DEFINE a == config[s].startat
            b == config[s].stopat
<1>1. PICK V : engine \in Engines(V)
  BY DEF StatInd, StatType
<1>2. UNCHANGED <<config, given, rows>> /\ engine' = Join(engine, s, a, b)
  BY DEF Register
<1>3. a \in Nat /\ b \in Nat /\ config[s].rate \in Nat /\ now \in Nat /\ prio \in Nat
  BY StatNow
<1>. HIDE DEF a, b
<1>4. Asked(engine, engine', s, a, b)
  BY <1>1, <1>2, <1>3, JoinEffect
<1>5. \A x \in Stats : SameData(engine.stat[x], engine'.stat[x])
  <2>1. SameData(engine.stat[s], engine'.stat[s])
    BY <1>4 DEF Asked, StatAsked
  <2>2. \A x \in Stats : x # s => engine'.stat[x] = engine.stat[x]
    BY <1>4 DEF Asked
  <2>. QED  BY <2>1, <2>2 DEF SameData
<1>. QED  BY <1>2, <1>5, DataKept

LEMMA OneShotKeepsData ==
    ASSUME StatInd, StatWindows, WindowsSound, StatData, OneShotExecute
    PROVE  StatData'
<1>1. UNCHANGED <<config, given, rows>>
  BY DEF OneShotExecute
<1>2. \A x \in Stats : StatHandled(engine.stat[x], engine'.stat[x],
                                   Maps(engine.starts, now, x), Maps(engine.stops, now, x))
  BY OneShotEffect
<1>3. \A x \in Stats : SameData(engine.stat[x], engine'.stat[x])
  BY <1>2 DEF StatHandled
<1>. QED  BY <1>1, <1>3, DataKept

LEMMA RestartKeepsData ==
    ASSUME StatInd, StatWindows, WindowsSound, StatData, Restart
    PROVE  StatData'
<1>1. UNCHANGED <<config, given, rows>>
  BY DEF Restart
<1>2. PICK u : Rejoined(u, Registered) /\ engine'.stat = u.stat
  BY RestartEffect
<1>3. \A x \in Stats : SameData(engine.stat[x], engine'.stat[x])
  BY <1>2 DEF Rejoined, SameStat
<1>. QED  BY <1>1, <1>3, DataKept

LEMMA DataStep ==
    ASSUME StatInd, StatWindows, WindowsSound, BinsAligned, StatData, [StatNext]_statVars
    PROVE  StatData'
<1>1. ASSUME NEW s \in Stats, Register(s) PROVE StatData'
  BY <1>1, RegisterKeepsData
<1>2. ASSUME NEW s \in Stats, NEW d \in Data, AddData(s, d[1], d[2]) PROVE StatData'
  <2>1. d[1] \in Nat /\ d[2] \in Nat
    BY StatisticsAssumption
  <2>. QED  BY <1>2, <2>1, AddDataKeepsData
<1>3. ASSUME NEW f \in DOMAIN engine.clocks, ClockEvent(f) PROVE StatData'
  BY <1>3, OutputsKeepData DEF Outputs
<1>4. CASE OutputAll \/ GroupClockEvent \/ EndOfSimulation
  BY <1>4, OutputsKeepData DEF Outputs
<1>5. CASE OneShotExecute \/ Restart
  BY <1>5, OneShotKeepsData, RestartKeepsData
<1>. QED  BY <1>1, <1>2, <1>3, <1>4, <1>5, StatesKeepData DEF StatNext, Over

(* What is accounted for is what should be. *)
LEMMA AllIsCollected ==
    ASSUME StatInd, StatData
    PROVE  CollectedExactly
<1>1. ASSUME NEW s \in Registered, NEW f \in Additive(config[s])
      PROVE  Reported(s, f) = Fields(config[s].type, given[s].data, given[s].count)[f]
  <2>. DEFINE c == config[s]
              d == engine.stat[s].data
              k == engine.stat[s].current
              q == rows[s]
              g == given[s]
  <2>1. s \in Stats /\ c.type \in {"accumulator", "histogram", "unique"}
    BY StatNow, TypesOfStats
  <2>2. DataOf(c, d, k, q, g)
    BY <2>1 DEF StatData, StatDataOf
  <2>3. Reported(s, f) = Fields(c.type, d, k)[f] + CutSum(c, q, f)
    BY DEF Reported, HeldField, ClearedRows, CutSum, Cut
  <2>4. CASE c.type # "unique"
    <3>1. f \in AdditiveOf(c.type)
      BY <2>1, <2>4 DEF Additive, AdditiveOf
    <3>. QED  BY <2>2, <2>3, <2>4, <3>1 DEF DataOf, Accounted
  <2>5. CASE c.type = "unique"
    <3>1. ~c.reset /\ f = <<"unique">>
      BY <2>5 DEF Additive
    <3>. DEFINE S == Cut(c, q)
                F == [i \in S |-> q[i].fields[f]]
    <3>2. S = {} /\ F \in [S -> Int]
      BY <3>1 DEF Cut
    <3>3. CutSum(c, q, f) = SumFunction(F)
      BY DEF CutSum
    <3>. HIDE DEF S, F
    <3>4. SumFunction(F) = 0
      BY <3>2, FS_EmptySet, SumZero
    <3>. HIDE DEF c, d, k, q
    <3>5. g.data = d /\ IsFiniteSet(d)
      BY <2>2, <2>5, <3>1 DEF DataOf, DataSound
    <3>6. Cardinality(d) \in Nat
      BY <3>5, FS_CardinalityType
    <3>7. \A n : Fields("unique", d, n)[<<"unique">>] = Cardinality(d)
      BY DEF Fields
    <3>. QED  BY <2>3, <2>5, <3>1, <3>3, <3>4, <3>5, <3>6, <3>7 DEF c
  <2>. QED  BY <2>4, <2>5
<1>2. ASSUME NEW s \in Registered, config[s].type = "histogram", NEW i \in DOMAIN rows[s]
      PROVE  RowAddsUp(rows[s][i])
  <2>1. s \in Stats
    BY StatNow
  <2>. QED  BY <1>2, <2>1 DEF StatData, StatDataOf, DataOf
<1>. QED  BY <1>1, <1>2 DEF CollectedExactly, GivenIsReported, BinsAddUp, RowAddsUp

(***************************************************************************)
(* What components give to a statistic, from its startat on and up to its  *)
(* stopat, is what its rows report and it holds: no item is lost or        *)
(* counted twice by addData's outputs after a count, by those of clocks,   *)
(* of a group, of performGlobalStatisticOutput and of the end, by          *)
(* one-shots that share a time, or by restarts; and the bins of a row of a *)
(* histogram, and what lies outside of them, are its count.  It holds if   *)
(* no checkpoint is taken at the very time of a startat or stopat, if the  *)
(* two differ, and if MinValue is where a bin starts.                      *)
(***************************************************************************)
THEOREM EverythingIsCollected ==
    ASSUME WindowsSound, BinsAligned
    PROVE  StatSpec => []CollectedExactly
<1>. DEFINE Inv == StatInd /\ StatWindows /\ StatData
<1>1. StatInit => Inv
  BY StatStart, WindowsStart, CollectedStart
<1>2. Inv /\ [StatNext]_statVars => Inv'
  BY StatStep, WindowsStep, DataStep
<1>3. Inv => CollectedExactly
  BY AllIsCollected
<1>. QED  BY <1>1, <1>2, <1>3, PTL DEF StatSpec
=============================================================================
