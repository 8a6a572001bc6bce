--------------------------------- MODULE Exit ---------------------------------
(***************************************************************************)
(* When the simulation ends, in simulated time.  Exit counts the primary   *)
(* components of a rank that do not want to end and keeps the latest time  *)
(* at which the last one of a thread has agreed; the end is noticed by the *)
(* Exit action itself (one rank, one thread), in a sync, or by each thread *)
(* for itself if no link leaves it.  The time that is reported is rank 0's *)
(* latest endSimCycle.                                                     *)
(***************************************************************************)
EXTENDS Integers, FiniteSets, FiniteSetsExt

CONSTANTS
    Layouts,        \* the parallel layouts: ranks, threads, and what links them
    StopTimes,      \* --stop-at, or a time later than TimeBound if not given
    TimeBound       \* bound: no event is later

(* What the links of a layout connect: "none" means that no link leaves a thread. *)
Layout == [ranks : Nat \ {0}, threads : Nat \ {0}, links : {"none", "threads", "ranks"}]

ASSUME ExitAssumption == Layouts \subseteq Layout /\ StopTimes \subseteq Nat

VARIABLES
    layout, stopAt,
    now,            \* currentSimCycle of each thread
    refs,           \* thread_counts_: one component per thread that may hold on
    endTime,        \* end_time_ of each rank's Exit
    endCycle,       \* endSimCycle of each thread
    exitAt,         \* when the Exit action is in the TimeVortex
    state,          \* "run", "stop" (a StopAction waits), "ended", "over"
    last            \* history: when a thread last agreed to end, or was stopped

exitVars == <<layout, stopAt, now, refs, endTime, endCycle, exitAt, state, last>>

Ranks == 0 .. layout.ranks - 1
Part == Ranks \X (0 .. layout.threads - 1)
PartsOf(r) == {p \in Part : p[1] = r}

SingleRank == layout.ranks = 1
Serial == SingleRank /\ layout.threads = 1

(* Simulation::independent, and minPart = MAX_SIMTIME_T. *)
Independent == layout.links = "none" /\ ~Serial
NoRankLinks == layout.links # "ranks"

ExitInit ==
    /\ layout \in Layouts
    /\ stopAt \in StopTimes
    /\ now = [p \in Part |-> 0]
    /\ refs \in [Part -> IF Serial THEN {1} ELSE {0, 1}]
    /\ endTime = [r \in Ranks |-> 0]
    /\ endCycle = [p \in Part |-> 0]
    /\ exitAt = {}
    /\ state = [p \in Part |-> IF Independent /\ refs[p] = 0 THEN "stop" ELSE "run"]
        \* an independent thread without components has a StopAction from the start
    /\ last = [p \in Part |-> 0]

Advance(p) ==
    /\ state[p] = "run" /\ now[p] < stopAt
    /\ IF exitAt = {} THEN now[p] < TimeBound ELSE now[p] < Min(exitAt)
    /\ now' = [now EXCEPT ![p] = @ + 1]
    /\ UNCHANGED <<layout, stopAt, refs, endTime, endCycle, exitAt, state, last>>

(* primaryComponentDoNotEndSim. *)
RefInc(p) ==
    /\ state[p] = "run" /\ refs[p] = 0 /\ now[p] < TimeBound
    /\ refs' = [refs EXCEPT ![p] = 1]
    /\ UNCHANGED <<layout, stopAt, now, endTime, endCycle, exitAt, state, last>>

(* The end time of a rank once a thread has agreed at b. *)
Later(a, b) == Max({a, b})

(* primaryComponentOKToEndSim. *)
RefDec(p) ==
    LET r == p[1]
    IN  /\ state[p] = "run" /\ refs[p] = 1
        /\ refs' = [refs EXCEPT ![p] = 0]
        /\ last' = [last EXCEPT ![p] = now[p]]
        /\ endTime' = [endTime EXCEPT ![r] = IF Serial THEN now[p] ELSE Later(@, now[p])]
        /\ exitAt' = IF Serial THEN exitAt \cup {now[p] + 1} ELSE exitAt
        /\ state' = [state EXCEPT ![p] = IF Independent THEN "stop" ELSE @]
        /\ UNCHANGED <<layout, stopAt, now, endCycle>>

(***************************************************************************)
(* Exit::execute in a serial run, after a StopAction of the same cycle: it *)
(* may find that a component holds on again.                               *)
(***************************************************************************)
ExitAction(p) ==
    /\ state[p] = "run" /\ now[p] \in exitAt /\ now[p] # stopAt
    /\ exitAt' = exitAt \ {now[p]}
    /\ IF refs[p] = 0
       THEN /\ state' = [state EXCEPT ![p] = "ended"]
            /\ endCycle' = [endCycle EXCEPT ![p] = endTime[p[1]]]
       ELSE UNCHANGED <<state, endCycle>>
    /\ UNCHANGED <<layout, stopAt, now, refs, endTime, last>>

(***************************************************************************)
(* StopAction, that is endSimulation() without an argument: it overwrites  *)
(* the end time of the rank, without the lock.                             *)
(***************************************************************************)
Stop(p) ==
    /\ \/ state[p] = "stop"
       \/ state[p] = "run" /\ now[p] = stopAt
    /\ state' = [state EXCEPT ![p] = "ended"]
    /\ endTime' = [endTime EXCEPT ![p[1]] = now[p]]
    /\ endCycle' = [endCycle EXCEPT ![p] = now[p]]
    /\ last' = [last EXCEPT ![p] = IF state[p] = "run" THEN now[p] ELSE @]
    /\ UNCHANGED <<layout, stopAt, now, refs, exitAt>>

(* A THREAD sync of rank r finds that nobody there holds on. *)
ThreadSyncEnds(r) ==
    /\ layout.links = "threads" /\ \A p \in PartsOf(r) : state[p] = "run" /\ refs[p] = 0
    /\ state' = [p \in Part |-> IF p[1] = r THEN "ended" ELSE state[p]]
    /\ endCycle' = [p \in Part |-> IF p[1] = r THEN endTime[r] ELSE endCycle[p]]
    /\ UNCHANGED <<layout, stopAt, now, refs, endTime, exitAt, last>>

Latest == Max({endTime[r] : r \in Ranks})

(* A RANK sync: Exit::check and computeEndTime, by thread 0 of all ranks. *)
RankSyncEnds ==
    /\ layout.links = "ranks" /\ \A p \in Part : state[p] = "run" /\ refs[p] = 0
    /\ state' = [p \in Part |-> "ended"]
    /\ endTime' = [r \in Ranks |-> Latest]
    /\ endCycle' = [p \in Part |-> Latest]
    /\ UNCHANGED <<layout, stopAt, now, refs, exitAt, last>>

(* Mutant of FinalTime: a single rank or linked ones have the right time already. *)
FinalTimeNever(p) == endCycle[p]

(***************************************************************************)
(* After the run: "If we have no links that are cut by a partition, we     *)
(* need to do a final check to get the right simulated time", thread 0.    *)
(***************************************************************************)
FinalTime(p) == IF NoRankLinks /\ ~SingleRank /\ p[2] = 0 THEN Latest ELSE endCycle[p]

Finish ==
    /\ \A p \in Part : state[p] = "ended"
    /\ state' = [p \in Part |-> "over"]
    /\ endCycle' = [p \in Part |-> FinalTime(p)]
    /\ UNCHANGED <<layout, stopAt, now, refs, endTime, exitAt, last>>

Over == \A p \in Part : state[p] = "over"
ExitDone == Over /\ UNCHANGED exitVars

ExitNext ==
    \/ \E p \in Part : Advance(p) \/ RefInc(p) \/ RefDec(p) \/ ExitAction(p) \/ Stop(p)
    \/ \E r \in Ranks : ThreadSyncEnds(r)
    \/ RankSyncEnds
    \/ Finish
    \/ ExitDone

ExitSpec == ExitInit /\ [][ExitNext]_exitVars

-----------------------------------------------------------------------------
(***************************************************************************)
(* The simulated time that is reported at the end ("Simulation is          *)
(* complete, simulated time") is the last time at which any thread of any  *)
(* rank had something left to do: its last primary component agreed to     *)
(* end, or --stop-at stopped it; whichever thread got there first.         *)
(***************************************************************************)
Reported == Max({endCycle[p] : p \in PartsOf(0)})

ReportsLastTime == Over => Reported = Max({last[p] : p \in Part})
=============================================================================
