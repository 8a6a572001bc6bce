----------------------------- MODULE ParallelRun -----------------------------
(***************************************************************************)
(* The run phase of a parallel simulation.  Every partition (one thread of *)
(* one rank) runs Simulation::run on its own TimeVortex; events that leave *)
(* the partition wait in a sync queue until the next execution of the      *)
(* SyncManager, which is itself an activity of every TimeVortex.  A THREAD *)
(* sync is a collective step of the threads of one rank, a RANK sync one   *)
(* of all partitions.  Both compute, from the earliest pending activity    *)
(* and the smallest latency of the links they serve, how far the           *)
(* partitions may run before they have to meet again.                      *)
(*                                                                         *)
(* One step here is one iteration of the run loop, or one whole collective *)
(* execution of SyncManager::execute.  The barriers and the exchange       *)
(* inside the latter are the subject of Barrier and of RankExchange.       *)
(***************************************************************************)
EXTENDS Integers, FiniteSets

CONSTANTS
    Ranks,          \* the MPI ranks
    Part,           \* the partitions, one per rank and thread
    RankOf,         \* the rank of a partition
    Latency,        \* Latency[p][q]: smallest latency of the links from p to q
    MaxTime,        \* MAX_SIMTIME_T, also "no link" and "never"
    StopAt,         \* time of the StopAction of every TimeVortex (--stop-at)
    CkptPeriod,     \* --checkpoint-sim-period, 0 when not given
    DirectLinks,    \* --interthread-links
    SetupEvents,    \* the events components send to themselves before run()
    MaxDelay,       \* bound: largest extra delay given to Link::send
    MaxPending      \* bound: events in flight in the whole simulation

VARIABLES
    now,            \* currentSimCycle of a partition
    last,           \* time of the last event it executed, -1 before the first
    tv,             \* the events in its TimeVortex
    threadQ,        \* events in the ThreadSyncQueues
    rankQ,          \* events in the RankSyncQueues
    syncAt,         \* delivery time of the partition's SyncManager
    syncType,       \* next_sync_type_
    phase,          \* "run", "sync" (inside SyncManager::execute) or "ended"
    fault,          \* time_fault
    rankNext,       \* RankSync's next sync time, one per rank
    threadNext,     \* ThreadSync's nextSyncTime
    ckptNext        \* CheckpointAction::next_sim_time_

vars == <<now, last, tv, threadQ, rankQ, syncAt, syncType, phase, fault,
          rankNext, threadNext, ckptNext>>

Time == 0 .. MaxTime

ASSUME PartAssumption ==
    /\ IsFiniteSet(Part)
    /\ RankOf \in [Part -> Ranks]
    /\ \A r \in Ranks : \E p \in Part : RankOf[p] = r

ASSUME TimeAssumption ==
    /\ MaxTime \in Nat
    /\ StopAt \in Time
    /\ CkptPeriod \in Time
    /\ MaxDelay \in Nat
    /\ MaxPending \in Nat

ASSUME LinkAssumption ==
    /\ DirectLinks \in BOOLEAN
    /\ Latency \in [Part -> [Part -> Time]]

Event == [src : Part, dst : Part, time : Time]

ASSUME SetupAssumption ==
    /\ SetupEvents \subseteq Event
    /\ \A e \in SetupEvents : e.src = e.dst

SameRank(p, q) == RankOf[p] = RankOf[q]
SingleRank == \A r, s \in Ranks : r = s

(* SimTime_t is a 64 bit unsigned integer: a sum past its maximum wraps. *)
Add(a, b) == IF a + b <= MaxTime THEN a + b ELSE a + b - (MaxTime + 1)

(* The least element of a set of times, MAX_SIMTIME_T for the empty set. *)
MinTime(S) ==
    CHOOSE t \in S \cup {MaxTime} : \A s \in S \cup {MaxTime} : t <= s

(***************************************************************************)
(* The sync intervals.  Without a link to serve the interval is            *)
(* MAX_SIMTIME_T and the sync object is an EmptyRankSync or an             *)
(* EmptyThreadSync, except that several ranks that checkpoint by simulated *)
(* time keep a RankSync for that purpose.                                  *)
(***************************************************************************)
RankLatencies ==
    {Latency[pq[1]][pq[2]] : pq \in {x \in Part \X Part : ~SameRank(x[1], x[2])}}

RankPeriod ==
    LET low == MinTime(RankLatencies)
    IN  IF low = MaxTime /\ ~SingleRank /\ CkptPeriod # 0 THEN CkptPeriod ELSE low

ThreadLatencies(r) ==
    {Latency[pq[1]][pq[2]] : pq \in
        {x \in Part \X Part : x[1] # x[2] /\ RankOf[x[1]] = r /\ RankOf[x[2]] = r}}

ThreadPeriod(r) == MinTime(ThreadLatencies(r))

(***************************************************************************)
(* When the next rank and thread sync are due, from the earliest pending   *)
(* activity.  Only the thread sync guards its sum against wrapping.  The   *)
(* direct thread sync does not say what its interval is                    *)
(* (ThreadSync::findSyncInterval), so that findThreadSyncInterval has      *)
(* replaced it by an EmptyThreadSync before the run starts.                *)
(***************************************************************************)
(* Mutant of NextRankSync: one cycle too late. *)
NextRankSyncLate(min) ==
    IF RankPeriod = MaxTime THEN MaxTime ELSE Add(min, RankPeriod + 1)

(* Mutant of NextRankSync: the interval is not added. *)
NextRankSyncNoInterval(min) == IF RankPeriod = MaxTime THEN MaxTime ELSE min

NextRankSync(min) ==
    IF RankPeriod = MaxTime THEN MaxTime ELSE Add(min, RankPeriod)

NextThreadSync(r, min) ==
    IF ThreadPeriod(r) = MaxTime \/ DirectLinks
    THEN MaxTime
    ELSE LET plus == Add(min, ThreadPeriod(r))
         IN  IF min > plus THEN min ELSE plus

(* getNextSyncTime of the direct thread sync is one less than nextSyncTime. *)
FirstThreadSync(r) ==
    IF ThreadPeriod(r) # MaxTime /\ DirectLinks
    THEN ThreadPeriod(r) - 1 ELSE ThreadPeriod(r)

(* Mutant of NextSyncTime: the checkpoint is not considered. *)
NextSyncTimeNoCheckpoint(nextRank, nextThread, nextCkpt) ==
    IF nextRank <= nextThread THEN nextRank ELSE nextThread

(* SyncManager::computeNextInsert: which sync comes next, and when. *)
NextSyncTime(nextRank, nextThread, nextCkpt) ==
    LET next == IF nextRank <= nextThread THEN nextRank ELSE nextThread
    IN  IF nextCkpt < next THEN nextCkpt ELSE next

NextSyncType(nextRank, nextThread, nextCkpt) ==
    LET next == IF nextRank <= nextThread THEN nextRank ELSE nextThread
    IN  IF nextCkpt < next
        THEN IF SingleRank THEN "THREAD" ELSE "RANK"
        ELSE IF nextRank <= nextThread THEN "RANK" ELSE "THREAD"

FirstCheckpoint == IF CkptPeriod = 0 THEN MaxTime ELSE CkptPeriod

Init ==
    /\ now = [p \in Part |-> 0]
    /\ last = [p \in Part |-> -1]
    /\ tv = [p \in Part |-> {e \in SetupEvents : e.dst = p}]
    /\ threadQ = {}
    /\ rankQ = {}
    /\ phase = [p \in Part |-> "run"]
    /\ fault = [p \in Part |-> FALSE]
    /\ rankNext = [r \in Ranks |-> RankPeriod]
    /\ threadNext = [p \in Part |-> FirstThreadSync(RankOf[p])]
    /\ ckptNext = [p \in Part |-> FirstCheckpoint]
    /\ syncAt = [p \in Part |->
            NextSyncTime(RankPeriod, FirstThreadSync(RankOf[p]), FirstCheckpoint)]
    /\ syncType = [p \in Part |->
            NextSyncType(RankPeriod, FirstThreadSync(RankOf[p]), FirstCheckpoint)]

-----------------------------------------------------------------------------
(***************************************************************************)
(* The run loop.  Activities of one time are ordered by priority: the      *)
(* SyncManager (25) before the StopAction (30) before events (50).         *)
(***************************************************************************)
Running(p) == phase[p] = "run" /\ ~fault[p]

SyncIsFront(p) == syncAt[p] <= StopAt /\ \A e \in tv[p] : syncAt[p] <= e.time

StopIsFront(p) == ~SyncIsFront(p) /\ \A e \in tv[p] : StopAt <= e.time

(* Mutant of EventIsFront: events come before the SyncManager of their time. *)
EventIsFrontFirst(p, e) ==
    /\ e \in tv[p]
    /\ e.time <= syncAt[p] /\ e.time < StopAt
    /\ \A f \in tv[p] : e.time <= f.time

EventIsFront(p, e) ==
    /\ e \in tv[p]
    /\ e.time < syncAt[p] /\ e.time < StopAt
    /\ \A f \in tv[p] : e.time <= f.time

(* The activity popped sets the clock; a time before it is a time fault. *)
AdvanceTo(p, t) ==
    /\ fault' = [fault EXCEPT ![p] = t < now[p]]
    /\ now' = [now EXCEPT ![p] = t]

(* The events one handler of p may send at time t: Link::send_impl. *)
Sendable(p, t) ==
    {[src |-> p, dst |-> qd[1], time |-> Add(t, Latency[p][qd[1]] + qd[2])] :
        qd \in {x \in Part \X (0 .. MaxDelay) : Latency[p][x[1]] # MaxTime}}

ToTimeVortex(e) == e.src = e.dst \/ (DirectLinks /\ SameRank(e.src, e.dst))
ToThreadQueue(e) == ~ToTimeVortex(e) /\ SameRank(e.src, e.dst)
ToRankQueue(e) == ~SameRank(e.src, e.dst)

InFlight == threadQ \cup rankQ \cup UNION {tv[p] : p \in Part}

(* Event::execute: the handler runs and sends the events of S. *)
ExecuteEvent(p, e, S) ==
    /\ Running(p)
    /\ EventIsFront(p, e)
    /\ S \subseteq Sendable(p, e.time)
    /\ AdvanceTo(p, e.time)
    /\ last' = [last EXCEPT ![p] = e.time]
    /\ tv' = [q \in Part |->
                (IF q = p THEN tv[q] \ {e} ELSE tv[q])
                    \cup {f \in S : f.dst = q /\ ToTimeVortex(f)}]
    /\ threadQ' = threadQ \cup {f \in S : ToThreadQueue(f)}
    /\ rankQ' = rankQ \cup {f \in S : ToRankQueue(f)}
    /\ UNCHANGED <<syncAt, syncType, phase, rankNext, threadNext, ckptNext>>

(* StopAction::execute. *)
ExecuteStop(p) ==
    /\ Running(p)
    /\ StopIsFront(p)
    /\ AdvanceTo(p, StopAt)
    /\ phase' = [phase EXCEPT ![p] = "ended"]
    /\ UNCHANGED <<last, tv, threadQ, rankQ, syncAt, syncType, rankNext,
                   threadNext, ckptNext>>

(* The SyncManager is popped: its execute() starts with a barrier. *)
EnterSync(p) ==
    /\ Running(p)
    /\ SyncIsFront(p)
    /\ AdvanceTo(p, syncAt[p])
    /\ phase' = [phase EXCEPT ![p] = "sync"]
    /\ UNCHANGED <<last, tv, threadQ, rankQ, syncAt, syncType, rankNext,
                   threadNext, ckptNext>>

-----------------------------------------------------------------------------
(***************************************************************************)
(* SyncManager::execute.                                                   *)
(***************************************************************************)
(* Mutant of AllInSync: the barrier lets the first thread through. *)
AllInSyncNoBarrier(P, type) ==
    (\E p \in P : phase[p] = "sync") /\ (\A p \in P : syncType[p] = type)

AllInSync(P, type) == \A p \in P : phase[p] = "sync" /\ syncType[p] = type

PartsOf(r) == {p \in Part : RankOf[p] = r}

(* The TimeVortices once the queued events of Q are delivered. *)
Deliver(Q) == [p \in Part |-> tv[p] \cup {e \in Q : e.dst = p}]

(* Mutant of MinActivity: computed before the queues are delivered. *)
MinActivityBeforeDelivery(P, newTv) ==
    MinTime({StopAt} \cup {e.time : e \in UNION {tv[p] : p \in P}})

(* getLocalMinimumNextActivityTime over the partitions of P. *)
MinActivity(P, newTv) ==
    MinTime({StopAt} \cup {e.time : e \in UNION {newTv[p] : p \in P}})

(* CheckpointAction::check when the sync of time t is executed. *)
CheckCheckpoint(p) ==
    IF now[p] = ckptNext[p] THEN Add(ckptNext[p], CkptPeriod) ELSE ckptNext[p]

LeaveSync(P, nextRank, nextThread, nextCkpt) ==
    /\ syncAt' = [p \in Part |-> IF p \in P
            THEN NextSyncTime(nextRank, nextThread[p], nextCkpt[p]) ELSE syncAt[p]]
    /\ syncType' = [p \in Part |-> IF p \in P
            THEN NextSyncType(nextRank, nextThread[p], nextCkpt[p]) ELSE syncType[p]]
    /\ phase' = [p \in Part |-> IF p \in P THEN "run" ELSE phase[p]]

RankSyncExecute ==
    /\ AllInSync(Part, "RANK")
    /\ LET newTv == Deliver(threadQ \cup rankQ)
           nextRank == NextRankSync(MinActivity(Part, newTv))
           nextThread == [p \in Part |->
                NextThreadSync(RankOf[p], MinActivity(PartsOf(RankOf[p]), newTv))]
           nextCkpt == [p \in Part |-> CheckCheckpoint(p)]
       IN  /\ tv' = newTv
           /\ rankNext' = [r \in Ranks |-> nextRank]
           /\ threadNext' = nextThread
           /\ ckptNext' = nextCkpt
           /\ LeaveSync(Part, nextRank, nextThread, nextCkpt)
    /\ threadQ' = {}
    /\ rankQ' = {}
    /\ UNCHANGED <<now, last, fault>>

(***************************************************************************)
(* Only a single-rank job checks for a checkpoint in a THREAD sync; with   *)
(* several ranks next_checkpoint_time stays MAX_SIMTIME_T.                 *)
(***************************************************************************)
ThreadSyncExecute(r) ==
    /\ AllInSync(PartsOf(r), "THREAD")
    /\ LET mine == {e \in threadQ : RankOf[e.dst] = r}
           newTv == Deliver(mine)
           nextThread == [p \in Part |-> IF RankOf[p] = r
                THEN NextThreadSync(r, MinActivity(PartsOf(r), newTv))
                ELSE threadNext[p]]
           nextCkpt == [p \in Part |-> IF RankOf[p] = r /\ SingleRank
                THEN CheckCheckpoint(p) ELSE ckptNext[p]]
       IN  /\ tv' = newTv
           /\ threadQ' = threadQ \ mine
           /\ threadNext' = nextThread
           /\ ckptNext' = nextCkpt
           /\ LeaveSync(PartsOf(r), rankNext[r], nextThread,
                        IF SingleRank THEN nextCkpt ELSE [p \in Part |-> MaxTime])
    /\ UNCHANGED <<now, last, rankQ, rankNext, fault>>

AllEnded == \A p \in Part : phase[p] = "ended"

(* The run is over: the program goes on to complete() and finish(). *)
Done == AllEnded /\ UNCHANGED vars

(* Bound for TLC: events in flight after a handler has run. *)
WithinPending == Cardinality(InFlight') <= MaxPending

Step(p) ==
    \/ \E e \in tv[p] : \E S \in SUBSET Sendable(p, e.time) :
            ExecuteEvent(p, e, S) /\ WithinPending
    \/ ExecuteStop(p)
    \/ EnterSync(p)

Next ==
    \/ \E p \in Part : Step(p)
    \/ RankSyncExecute
    \/ \E r \in Ranks : ThreadSyncExecute(r)
    \/ Done

Spec == Init /\ [][Next]_vars

(* Every thread of every rank keeps running. *)
Fairness ==
    /\ \A p \in Part : WF_vars(Step(p))
    /\ WF_vars(RankSyncExecute)
    /\ \A r \in Ranks : WF_vars(ThreadSyncExecute(r))

FairSpec == Spec /\ Fairness

-----------------------------------------------------------------------------
TypeOK ==
    /\ now \in [Part -> Time]
    /\ last \in [Part -> Time \cup {-1}]
    /\ tv \in [Part -> SUBSET Event]
    /\ threadQ \subseteq Event
    /\ rankQ \subseteq Event
    /\ syncAt \in [Part -> Time]
    /\ syncType \in [Part -> {"RANK", "THREAD"}]
    /\ phase \in [Part -> {"run", "sync", "ended"}]
    /\ fault \in [Part -> BOOLEAN]
    /\ rankNext \in [Ranks -> Time]
    /\ threadNext \in [Part -> Time]
    /\ ckptNext \in [Part -> Time]

(***************************************************************************)
(* Simulation::run ends with a fatal error when an activity is earlier     *)
(* than the one before it.  No partition ever gets there: an event that    *)
(* another partition sends is in the TimeVortex before the clock reaches   *)
(* its time.                                                               *)
(***************************************************************************)
NoTimeFault == \A p \in Part : ~fault[p]

(***************************************************************************)
(* The lookahead of the two sync objects is safe: the destination of an    *)
(* event that still waits in a ThreadSyncQueue or a RankSyncQueue has      *)
(* executed only earlier events, whatever the partitions did since the     *)
(* last sync.  With the earliest latency and the earliest activity the     *)
(* bound is tight, so events of one time from two partitions are never     *)
(* separated by an executed one.                                           *)
(***************************************************************************)
NoLateArrival ==
    \A e \in threadQ \cup rankQ : now[e.dst] <= e.time /\ last[e.dst] < e.time

(***************************************************************************)
(* Each thread computes the time and the type of the next sync on its own  *)
(* (SyncManager::computeNextInsert).  They agree: whoever waits in a sync  *)
(* waits for threads that will come to the same sync.                      *)
(***************************************************************************)
SyncAgreement ==
    \A p, q \in Part :
        /\ SameRank(p, q) => syncAt[p] = syncAt[q] /\ syncType[p] = syncType[q]
        /\ phase[p] = "sync" /\ phase[q] = "sync" /\ syncType[p] = "RANK"
                /\ syncType[q] = "RANK" => now[p] = now[q]

(***************************************************************************)
(* A checkpoint by simulated time (CheckpointAction::check) is taken       *)
(* before any event at or after its time is executed.                      *)
(***************************************************************************)
CheckpointBeforeEvents == \A p \in Part : last[p] < ckptNext[p]

(***************************************************************************)
(* A checkpoint is a consistent cut: when it is taken all partitions that  *)
(* take it stand at one time and no event is left in a sync queue, so that *)
(* the TimeVortices hold everything that is in flight.                     *)
(***************************************************************************)
CheckpointIsCut ==
    [][ckptNext' # ckptNext =>
        /\ threadQ' = {} /\ rankQ' = {}
        /\ \A p, q \in Part : now'[p] = now'[q] /\ ckptNext'[p] = ckptNext'[q]
      ]_vars

(***************************************************************************)
(* The parallel run is a sequential one: seen as one set of pending        *)
(* events, wherever they are queued, every partition executes the earliest *)
(* event addressed to it, at its time, and no handler sends an event into  *)
(* the past of its receiver.                                               *)
(***************************************************************************)
Sequential == INSTANCE SequentialRun WITH pending <- InFlight
RefinesSequential == Sequential!Spec

(***************************************************************************)
(* Every partition reaches its StopAction: no thread waits for ever inside *)
(* SyncManager::execute for one that will not come.                        *)
(***************************************************************************)
Termination == <>AllEnded

-----------------------------------------------------------------------------
(***************************************************************************)
(* The configurations for which the run phase is safe: the simulation      *)
(* stops early enough for no time to wrap, interthread links go through    *)
(* the sync queues, and checkpoints by simulated time are used on one rank *)
(* or on one thread per rank.                                              *)
(***************************************************************************)
NoWrap ==
    /\ StopAt + CkptPeriod < MaxTime
    /\ \A p, q \in Part : Latency[p][q] # MaxTime =>
            StopAt + Latency[p][q] + MaxDelay < MaxTime

OneThread == \A p, q \in Part : SameRank(p, q) => p = q

SafeConfig == NoWrap /\ ~DirectLinks /\ (CkptPeriod = 0 \/ SingleRank \/ OneThread)

(* The clock is between the last event and everything still to execute. *)
ClockInv ==
    \A p \in Part :
        /\ last[p] <= now[p] /\ last[p] < syncAt[p]
        /\ now[p] <= StopAt /\ now[p] <= syncAt[p]
        /\ phase[p] = "sync" => now[p] = syncAt[p]
        /\ \A e \in tv[p] : e.dst = p /\ now[p] <= e.time

(* What the threads keep separately is the same where it has to be. *)
AgreeInv ==
    /\ \A r, s \in Ranks : rankNext[r] = rankNext[s]
    /\ \A p, q \in Part : ckptNext[p] = ckptNext[q]
    /\ \A p, q \in Part : SameRank(p, q) => threadNext[p] = threadNext[q]
    /\ CkptPeriod = 0 => \A p \in Part : ckptNext[p] = MaxTime

(* No sync that is due is forgotten when the SyncManager is inserted. *)
ScheduleInv ==
    \A p \in Part :
        /\ syncAt[p] = NextSyncTime(rankNext[RankOf[p]], threadNext[p], ckptNext[p])
        /\ syncType[p] = NextSyncType(rankNext[RankOf[p]], threadNext[p], ckptNext[p])

(***************************************************************************)
(* The lookahead: a sync is due no later than the earliest event that may  *)
(* still be executed plus the interval, hence no queued event is due       *)
(* before the sync that delivers it.                                       *)
(***************************************************************************)
ThreadLookahead ==
    /\ \A p \in Part :
        /\ ThreadPeriod(RankOf[p]) = MaxTime => threadNext[p] = MaxTime
        /\ \A e \in tv[p] : threadNext[p] <= e.time + ThreadPeriod(RankOf[p])
    /\ \A e \in threadQ : SameRank(e.src, e.dst) /\ threadNext[e.dst] <= e.time

RankLookahead ==
    /\ \A p \in Part : \A e \in tv[p] : rankNext[RankOf[p]] <= e.time + RankPeriod
    /\ \A e \in threadQ : rankNext[RankOf[e.dst]] <= e.time + RankPeriod
    /\ \A e \in rankQ : ~SameRank(e.src, e.dst) /\ rankNext[RankOf[e.dst]] <= e.time

(***************************************************************************)
(* The inductive invariant behind NoTimeFault, NoLateArrival and           *)
(* CheckpointBeforeEvents: what the run loop and computeNextInsert         *)
(* maintain together.                                                      *)
(***************************************************************************)
IndInv ==
    TypeOK /\ NoTimeFault /\ ClockInv /\ AgreeInv /\ ScheduleInv /\ ThreadLookahead
        /\ RankLookahead
=============================================================================
