------------------------------- MODULE Barrier -------------------------------
(***************************************************************************)
(* Core::ThreadSafe::Barrier, one atomic access of a shared variable per   *)
(* step.  All barriers of the core (Simulation::initBarrier, runBarrier,   *)
(* exitBarrier..., SyncManager::RankExecBarrier_, ThreadSync's barrier[3]) *)
(* are of this class and are used again and again by the same threads.     *)
(***************************************************************************)
EXTENDS Integers, FiniteSets

CONSTANTS
    Thread,         \* the threads of the rank
    GenMax,         \* the largest value of generation, a size_t that wraps
    MaxRounds       \* bound: how often a thread calls wait()

ASSUME ThreadAssumption == IsFiniteSet(Thread) /\ Thread # {}
ASSUME GenAssumption == GenMax \in Nat /\ GenMax >= 1
ASSUME RoundsAssumption == MaxRounds \in Nat

VARIABLES
    enabled, count, generation,     \* the members of Barrier
    pc,             \* where in wait() a thread is
    gen,            \* its local copy of generation
    entered, left,  \* history: calls of wait(), and returns from it
    released        \* history: how often generation was incremented

vars == <<enabled, count, generation, pc, gen, entered, left, released>>

origCount == Cardinality(Thread)

Incremented(g) == IF g = GenMax THEN 0 ELSE g + 1

(* Barrier(): nobody is held back before the first resize(). *)
Init ==
    /\ enabled = FALSE
    /\ count = 0
    /\ generation = 0
    /\ pc = [t \in Thread |-> "out"]
    /\ gen = [t \in Thread |-> 0]
    /\ entered = [t \in Thread |-> 0]
    /\ left = [t \in Thread |-> 0]
    /\ released = 0

(* Called only while nobody is in wait(). *)
Resize ==
    /\ \A t \in Thread : pc[t] = "out"
    /\ count' = origCount
    /\ generation' = 0
    /\ enabled' = TRUE
    /\ UNCHANGED <<pc, gen, entered, left, released>>

(* wait() loads generation. *)
LoadGeneration(t) ==
    /\ pc[t] = "out"
    /\ enabled
    /\ entered[t] < MaxRounds
    /\ gen' = [gen EXCEPT ![t] = generation]
    /\ pc' = [pc EXCEPT ![t] = "subtract"]
    /\ entered' = [entered EXCEPT ![t] = @ + 1]
    /\ UNCHANGED <<enabled, count, generation, left, released>>

(* Mutant of FetchSub: the last but one thread releases already. *)
FetchSubEarly(t) ==
    /\ pc[t] = "subtract"
    /\ count' = count - 1
    /\ pc' = [pc EXCEPT ![t] = IF count' <= 1 THEN "store" ELSE "spin"]
    /\ UNCHANGED <<enabled, generation, gen, entered, left, released>>

(* count.fetch_sub(1): the thread that takes it to 0 releases the others. *)
FetchSub(t) ==
    /\ pc[t] = "subtract"
    /\ count' = count - 1
    /\ pc' = [pc EXCEPT ![t] = IF count' = 0 THEN "store" ELSE "spin"]
    /\ UNCHANGED <<enabled, generation, gen, entered, left, released>>

(* Mutant of StoreCount: count is not set for the next round. *)
StoreCountMissing(t) ==
    /\ pc[t] = "store"
    /\ pc' = [pc EXCEPT ![t] = "increment"]
    /\ UNCHANGED <<enabled, count, generation, gen, entered, left, released>>

StoreCount(t) ==
    /\ pc[t] = "store"
    /\ count' = origCount
    /\ pc' = [pc EXCEPT ![t] = "increment"]
    /\ UNCHANGED <<enabled, generation, gen, entered, left, released>>

Return(t) ==
    /\ pc' = [pc EXCEPT ![t] = "out"]
    /\ left' = [left EXCEPT ![t] = @ + 1]

(* generation.fetch_add(1) lets the spinning threads go. *)
IncrementGeneration(t) ==
    /\ pc[t] = "increment"
    /\ generation' = Incremented(generation)
    /\ released' = released + 1
    /\ Return(t)
    /\ UNCHANGED <<enabled, count, gen, entered>>

(* The spin loop: it goes on while generation is the one loaded. *)
SpinAgain(t) ==
    /\ pc[t] = "spin"
    /\ gen[t] = generation
    /\ UNCHANGED vars

Spin(t) ==
    /\ pc[t] = "spin"
    /\ gen[t] # generation
    /\ Return(t)
    /\ UNCHANGED <<enabled, count, generation, gen, entered, released>>

Wait(t) ==
    \/ LoadGeneration(t)
    \/ FetchSub(t)
    \/ StoreCount(t)
    \/ IncrementGeneration(t)
    \/ SpinAgain(t)
    \/ Spin(t)

Next == Resize \/ \E t \in Thread : Wait(t)

Spec == Init /\ [][Next]_vars

(* Every thread is scheduled, and comes to the barrier. *)
FairSpec == Spec /\ WF_vars(Resize /\ ~enabled) /\ \A t \in Thread : WF_vars(Wait(t))

-----------------------------------------------------------------------------
PC == {"out", "subtract", "store", "increment", "spin"}

TypeOK ==
    /\ enabled \in BOOLEAN
    /\ count \in 0 .. origCount
    /\ generation \in 0 .. GenMax
    /\ pc \in [Thread -> PC]
    /\ gen \in [Thread -> 0 .. GenMax]
    /\ entered \in [Thread -> Nat]
    /\ left \in [Thread -> Nat]
    /\ released \in Nat

(***************************************************************************)
(* The barrier holds: no thread has returned from its k-th wait() before   *)
(* every thread has called wait() k times, although threads that are late  *)
(* leaving one round meet threads that have entered the next.              *)
(***************************************************************************)
Promise == INSTANCE BarrierPromise
RefinesPromise == Promise!Spec

(***************************************************************************)
(* Every thread gets through every round: the one that releases the others *)
(* is found in every round, and a thread whose generation has passed       *)
(* notices, however often generation wraps.                                *)
(***************************************************************************)
EveryRoundEnds == <>[](\A t \in Thread : left[t] = MaxRounds)

-----------------------------------------------------------------------------
(* In the current round: has subtracted and waits to be released. *)
Waiting == {t \in Thread : pc[t] = "spin" /\ gen[t] = generation}

(* The round a thread is in follows from where in wait() it is. *)
RoundInv ==
    \A t \in Thread :
        /\ pc[t] = "out" => entered[t] = released /\ left[t] = released
        /\ pc[t] \in {"subtract", "store", "increment"} =>
                entered[t] = released + 1 /\ left[t] = released /\ gen[t] = generation
        /\ pc[t] = "spin" =>
                \/ /\ gen[t] = generation
                   /\ entered[t] = released + 1 /\ left[t] = released
                \/ /\ Incremented(gen[t]) = generation
                   /\ entered[t] = released /\ left[t] + 1 = released

(* count says how many threads the current round still waits for. *)
CountInv ==
    \/ ~enabled /\ count = 0 /\ \A t \in Thread : pc[t] = "out"
    \/ /\ enabled
       /\ \A t \in Thread : pc[t] \notin {"store", "increment"}
       /\ count >= 1
       /\ count + Cardinality(Waiting) = origCount
    \/ /\ enabled
       /\ \E t \in Thread :
            /\ \/ pc[t] = "store" /\ count = 0
               \/ pc[t] = "increment" /\ count = origCount
            /\ Waiting = Thread \ {t}

(***************************************************************************)
(* The inductive invariant: what ties count, generation and the local      *)
(* copies of generation to the round every thread is in.                   *)
(***************************************************************************)
BarrierInv == TypeOK /\ RoundInv /\ CountInv
=============================================================================
