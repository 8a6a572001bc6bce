------------------------------- MODULE MemPool -------------------------------
(***************************************************************************)
(* The memory of events and other activities: every thread has a pool for  *)
(* each size of item, without a lock.  An item is often deleted on another *)
(* thread than the one that made it, so a pool that holds more than it has *)
(* ever allocated hands its overflow on, a full list at a time, through    *)
(* the lists that all threads share; these have a lock, and no operation   *)
(* touches them more than once.  An operation is therefore one step.       *)
(***************************************************************************)
EXTENDS Integers, Sequences, FiniteSets, SequencesExt

CONSTANTS
    PoolThread,     \* the threads
    PoolSizes,      \* the sizes of items
    PerArena,       \* how many items fit into an arena (arenaSize / allocSize)
    MaxLive,        \* bound on the items that are in use
    MaxBalance,     \* bound on what a thread makes more than it deletes
    MaxArenas       \* bound on the arenas

ASSUME PoolAssumption ==
    /\ IsFiniteSet(PoolThread) /\ IsFiniteSet(PoolSizes) /\ 0 \notin PoolSizes
    /\ PerArena \in Nat \ {0}

VARIABLES
    freelist, overflow, maxFreelist,     \* of every thread and size
    balance,        \* of every thread, numAlloc - numFree over its pools
    shared,         \* shared_overflow: the full lists of every size
    arenas,         \* the number of arenas
    header          \* of every item of an arena, the word before it: its size or 0

poolVars == <<freelist, overflow, maxFreelist, balance, shared, arenas, header>>

Pools == PoolThread \X PoolSizes
Items == DOMAIN header
Live == {i \in Items : header[i] # 0}

PoolInit ==
    /\ freelist = [p \in Pools |-> <<>>] /\ overflow = [p \in Pools |-> <<>>]
    /\ maxFreelist = [p \in Pools |-> 0]
    /\ balance = [t \in PoolThread |-> 0]
    /\ shared = [s \in PoolSizes |-> <<>>]
    /\ arenas = 0 /\ header = <<>>

(* operator new: the item is taken from the free list, from the overflow, from *)
(* an overflow that another thread has handed on, or from a new arena.         *)
Take(p, i) ==
    /\ balance' = [balance EXCEPT ![p[1]] = @ + 1]
    /\ header' = [header EXCEPT ![i] = p[2]]

NewFromFreelist(p) ==
    /\ freelist[p] # <<>>
    /\ Take(p, Last(freelist[p]))
    /\ freelist' = [freelist EXCEPT ![p] = Front(@)]
    /\ UNCHANGED <<overflow, maxFreelist, shared, arenas>>

NewFromOverflow(p) ==
    /\ freelist[p] = <<>> /\ overflow[p] # <<>>
    /\ Take(p, Last(overflow[p]))
    /\ overflow' = [overflow EXCEPT ![p] = Front(@)]
    /\ UNCHANGED <<freelist, maxFreelist, shared, arenas>>

NewFromShared(p) ==
    LET lists == shared[p[2]]
    IN  /\ freelist[p] = <<>> /\ overflow[p] = <<>> /\ lists # <<>>
        /\ Take(p, Last(Last(lists)))
        /\ overflow' = [overflow EXCEPT ![p] = Front(Last(lists))]
        /\ shared' = [shared EXCEPT ![p[2]] = Front(@)]
        /\ UNCHANGED <<freelist, maxFreelist, arenas>>

(* allocPool. *)
NewFromArena(p) ==
    LET items == [k \in 1..PerArena |-> Len(header) + k]
    IN  /\ freelist[p] = <<>> /\ overflow[p] = <<>> /\ shared[p[2]] = <<>>
        /\ arenas < MaxArenas /\ arenas' = arenas + 1
        /\ balance' = [balance EXCEPT ![p[1]] = @ + 1]
        /\ header' = header \o [k \in 1..PerArena |-> IF k = PerArena THEN p[2] ELSE 0]
        /\ freelist' = [freelist EXCEPT ![p] = Front(items)]
        /\ maxFreelist' = [maxFreelist EXCEPT ![p] = @ + PerArena]
        /\ UNCHANGED <<overflow, shared>>

New(p) ==
    /\ Cardinality(Live) < MaxLive /\ balance[p[1]] < MaxBalance
    /\ NewFromFreelist(p) \/ NewFromOverflow(p) \/ NewFromShared(p) \/ NewFromArena(p)

(* Mutant of Delete: a full overflow is handed on and kept. *)
DeleteKeeps(t, i) ==
    LET p == <<t, header[i]>>
        fits == Len(freelist[p]) < maxFreelist[p]
        full == Append(overflow[p], i)
    IN  /\ header' = [header EXCEPT ![i] = 0]
        /\ balance' = [balance EXCEPT ![t] = @ - 1]
        /\ freelist' = IF fits THEN [freelist EXCEPT ![p] = Append(@, i)] ELSE freelist
        /\ overflow' = IF fits THEN overflow ELSE [overflow EXCEPT ![p] = full]
        /\ shared' = IF ~fits /\ Len(full) = PerArena
                     THEN [shared EXCEPT ![p[2]] = Append(@, full)] ELSE shared
        /\ UNCHANGED <<maxFreelist, arenas>>

(* operator delete, on any thread: the item goes to that thread's pool of its *)
(* size, and a full overflow to the shared lists.                             *)
Delete(t, i) ==
    LET p == <<t, header[i]>>
        fits == Len(freelist[p]) < maxFreelist[p]
        full == Append(overflow[p], i)
    IN  /\ header' = [header EXCEPT ![i] = 0]
        /\ balance' = [balance EXCEPT ![t] = @ - 1]
        /\ freelist' = IF fits THEN [freelist EXCEPT ![p] = Append(@, i)] ELSE freelist
        /\ overflow' = IF fits THEN overflow
                       ELSE [overflow EXCEPT ![p] = IF Len(full) = PerArena THEN <<>> ELSE full]
        /\ shared' = IF ~fits /\ Len(full) = PerArena
                     THEN [shared EXCEPT ![p[2]] = Append(@, full)] ELSE shared
        /\ UNCHANGED <<maxFreelist, arenas>>

PoolNext ==
    \/ \E p \in Pools : New(p)
    \/ \E t \in PoolThread : \E i \in Live : Delete(t, i)
    \/ Live = {} /\ UNCHANGED poolVars

-----------------------------------------------------------------------------
(* All lists of a size, of all threads and shared. *)
ListsOf(s) == {freelist[<<t, s>>] : t \in PoolThread} \cup {overflow[<<t, s>>] : t \in PoolThread}
                \cup Range(shared[s])
Listed == UNION {UNION {Range(l) : l \in ListsOf(s)} : s \in PoolSizes}
LengthSum(lists) == SumFunction([x \in DOMAIN lists |-> Len(lists[x])])
ListLength == LengthSum(freelist) + LengthSum(overflow) + PerArena * LengthSum(shared)

(* No item is lost and none is handed out twice, on whichever thread it is   *)
(* deleted: an item is in use or in one list, once (the lists are as long as *)
(* there are items in them); the items in use are the difference of the      *)
(* counters (getMemPoolUsage), although a pool may free what it never gave;  *)
(* an overflow is handed on before it is longer than an arena, since it is   *)
(* only looked at when it has exactly this length; and nothing is in two     *)
(* sizes.                                                                    *)
ItemsOnce ==
    /\ Listed = Items \ Live
    /\ ListLength = Cardinality(Items \ Live)
    /\ Cardinality(Live) = SumFunction(balance)
    /\ \A p \in Pools : Len(overflow[p]) < PerArena /\ Len(freelist[p]) <= maxFreelist[p]
    /\ \A s \in PoolSizes : \A l \in Range(shared[s]) : Len(l) = PerArena
=============================================================================
