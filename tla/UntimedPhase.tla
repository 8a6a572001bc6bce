----------------------------- MODULE UntimedPhase -----------------------------
(***************************************************************************)
(* The untimed phases: Simulation::initialize before the run and           *)
(* Simulation::complete after it.  In rounds, all components are called    *)
(* and may send untimed data on their links, for the next round; a phase   *)
(* ends with the first round in which nobody, on any rank, has sent        *)
(* anything.  The threads of a rank count the messages in one atomic       *)
(* counter, the ranks add theirs up, and every thread decides by itself    *)
(* whether to go on.                                                       *)
(*                                                                         *)
(* A link that stays in one thread ends in the receiver's InitQueue; one   *)
(* that does not goes through the same ThreadSyncQueue or RankSyncQueue as *)
(* the events of the run.  The run itself is ParallelRun; here it is one   *)
(* step, which may leave events in those queues if --stop-at has ended it  *)
(* between two syncs.                                                      *)
(***************************************************************************)
EXTENDS Integers, FiniteSets, Sequences, FiniteSetsExt

CONSTANTS
    Ranks,          \* the MPI ranks
    Part,           \* the partitions, one thread of one rank each
    RankOf,         \* the rank of a partition
    Master,         \* thread 0 of every rank
    Links,          \* pairs <<p, q>>: a component of p has a link to one of q
    StopAt,         \* --stop-at is given
    RunTime,        \* a time of the run, later than any round
    PhaseLimit,     \* untimed_phase is an unsigned int below this
    MaxPhase        \* bound: components send in rounds before this one

ASSUME UntimedAssumption ==
    /\ IsFiniteSet(Part)
    /\ RankOf \in [Part -> Ranks]
    /\ Master \in [Ranks -> Part] /\ \A r \in Ranks : RankOf[Master[r]] = r
    /\ Links \subseteq Part \X Part
    /\ StopAt \in BOOLEAN
    /\ {PhaseLimit, MaxPhase, RunTime} \subseteq Nat
    /\ MaxPhase + 2 < PhaseLimit /\ PhaseLimit < RunTime

VARIABLES
    pc,             \* where each thread is
    stage,          \* "init" or "complete"
    phase,          \* untimed_phase of each Simulation
    count,          \* untimed_msg_count of each rank
    queue,          \* per link: what waits in its sync queue
    box             \* per link: the InitQueue at the receiver's end

vars == <<pc, stage, phase, count, queue, box>>

PartsOf(r) == {p \in Part : RankOf[p] = r}
IsMaster(p) == p = Master[RankOf[p]]

(* The links that stay in a thread, cross threads, and cross ranks. *)
Local == {l \in Links : l[1] = l[2]}
CrossThread == {l \in Links \ Local : RankOf[l[1]] = RankOf[l[2]]}
CrossRank == {l \in Links : RankOf[l[1]] # RankOf[l[2]]}

(* Untimed data carry the round they are for, events of the run their time. *)
Data(k) == [time |-> k, untimed |-> TRUE]
RunEvent == [time |-> RunTime, untimed |-> FALSE]

Init ==
    /\ pc = [p \in Part |-> "begin"]
    /\ stage = [p \in Part |-> "init"]
    /\ phase = [p \in Part |-> 0]
    /\ count = [r \in Ranks |-> 0]
    /\ queue = [l \in Links |-> <<>>]
    /\ box = [l \in Links |-> <<>>]

Goto(p, l) == pc' = [pc EXCEPT ![p] = l]

-----------------------------------------------------------------------------
(* Mutant of Beyond: only thread 0 waits before setup() for the objects to be final. *)
BeyondNoFinal(p, l) ==
    CASE l = "begin" -> IF IsMaster(p) THEN "update" ELSE "top"
      [] l = "ended" -> IF IsMaster(p) THEN "finalize" ELSE "setup"
      [] l = "top" -> IF IsMaster(p) THEN "zero" ELSE "reset"
      [] l = "untimed1" -> IF IsMaster(p) THEN "exchange" ELSE "untimed2"
      [] OTHER -> [reset |-> "components", sent |-> "untimed0", untimed0 |-> "threadData",
                   untimed2 |-> "counted", counted |-> "test", final |-> "setup",
                   complete |-> "prepare", prepared |-> "top"][l]

(***************************************************************************)
(* The barriers: initBarrier or completeBarrier at "begin", "top", "reset", *)
(* "sent" and "counted", LinkUntimedBarrier_ around the two exchanges, and *)
(* setupBarrier at "ended", "final" and "run".                             *)
(***************************************************************************)
Beyond(p, l) ==
    CASE l = "begin" -> IF IsMaster(p) THEN "update" ELSE "top"
      [] l = "top" -> IF IsMaster(p) THEN "zero" ELSE "reset"
      [] l = "reset" -> "components"
      [] l = "sent" -> "untimed0"
      [] l = "untimed0" -> "threadData"
      [] l = "untimed1" -> IF IsMaster(p) THEN "exchange" ELSE "untimed2"
      [] l = "untimed2" -> "counted"
      [] l = "counted" -> "test"
      [] l = "ended" -> IF IsMaster(p) THEN "finalize" ELSE "final"
      [] l = "final" -> "setup"
      [] l = "complete" -> "prepare"
      [] l = "prepared" -> "top"

Barriers ==
    {"begin", "top", "reset", "sent", "untimed0", "untimed1", "untimed2", "counted",
     "ended", "final", "complete", "prepared"}

(* Mutant of Together: at the top of the loop nobody waits. *)
TogetherNotAtTop(p, q) == pc[p] = "top" \/ pc[p] = pc[q]

(* A barrier lets p go when q stands there too. *)
Together(p, q) == pc[p] = pc[q]

Release(p) ==
    /\ pc[p] \in Barriers
    /\ pc[p] = "ended" => stage[p] = "init"
    /\ \A q \in PartsOf(RankOf[p]) : Together(p, q)
    /\ pc' = [q \in Part |->
            IF RankOf[q] = RankOf[p] /\ pc[q] = pc[p] THEN Beyond(q, pc[q]) ELSE pc[q]]
    /\ UNCHANGED <<stage, phase, count, queue, box>>

(* Mutant of Reset: once anything was sent, the counter stays set. *)
ResetToFlag(p) ==
    /\ pc[p] = "zero"
    /\ Goto(p, "reset")
    /\ count' = [count EXCEPT ![RankOf[p]] = IF @ > 0 THEN 1 ELSE 0]
    /\ UNCHANGED <<stage, phase, queue, box>>

(* Thread 0 resets the counter of its rank. *)
Reset(p) ==
    /\ pc[p] = "zero"
    /\ Goto(p, "reset")
    /\ count' = [count EXCEPT ![RankOf[p]] = 0]
    /\ UNCHANGED <<stage, phase, queue, box>>

(* Mutant of Available: one round too late. *)
AvailableLate(m, k) == m.time < k

(* Link::recvUntimedData returns the first message, if its round has come. *)
Available(m, k) == m.time <= k

(* What is left of an InitQueue when recvUntimedData returns a null pointer. *)
Unreceived(s, k) ==
    LET blocked == {i \in DOMAIN s : ~Available(s[i], k)}
    IN  IF blocked = {} THEN <<>> ELSE SubSeq(s, Min(blocked), Len(s))

(***************************************************************************)
(* BaseComponent::init or complete of all components of p: they receive    *)
(* all there is and send on the links of S (Link::sendUntimedData).        *)
(***************************************************************************)
Components(p, S) ==
    /\ pc[p] = "components"
    /\ phase[p] < MaxPhase \/ S = {}
    /\ Goto(p, "sent")
    /\ count' = [count EXCEPT ![RankOf[p]] = @ + Cardinality(S)]
    /\ box' = [l \in Links |->
            LET kept == IF l[2] = p THEN Unreceived(box[l], phase[p]) ELSE box[l]
            IN  IF l \in S \cap Local THEN Append(kept, Data(phase[p] + 1)) ELSE kept]
    /\ queue' = [l \in Links |->
            IF l \in S \ Local THEN Append(queue[l], Data(phase[p] + 1)) ELSE queue[l]]
    /\ UNCHANGED <<stage, phase>>

(* ThreadSyncSimpleSkip::processLinkUntimedData. *)
ThreadData(p) ==
    LET mine == {l \in CrossThread : l[2] = p}
    IN  /\ pc[p] = "threadData"
        /\ Goto(p, "untimed1")
        /\ box' = [l \in Links |-> IF l \in mine THEN box[l] \o queue[l] ELSE box[l]]
        /\ queue' = [l \in Links |-> IF l \in mine THEN <<>> ELSE queue[l]]
        /\ UNCHANGED <<stage, phase, count>>

Masters == {Master[r] : r \in Ranks}

(***************************************************************************)
(* RankSync::exchangeLinkUntimedData, by thread 0 of all ranks: the data   *)
(* are exchanged, and the counts added up by an MPI_Allreduce, for which   *)
(* even an EmptyRankSync comes here.                                       *)
(***************************************************************************)
ExchangeData ==
    /\ \A p \in Masters : pc[p] = "exchange"
    /\ pc' = [p \in Part |-> IF p \in Masters THEN "untimed2" ELSE pc[p]]
    /\ box' = [l \in Links |-> IF l \in CrossRank THEN box[l] \o queue[l] ELSE box[l]]
    /\ queue' = [l \in Links |-> IF l \in CrossRank THEN <<>> ELSE queue[l]]
    /\ count' = [r \in Ranks |-> MapThenSumSet(LAMBDA s : count[s], Ranks)]
    /\ UNCHANGED <<stage, phase>>

NextPhase(k) == (k + 1) % PhaseLimit

(* Each thread looks at the counter and decides; thread 0 also updates the shared objects. *)
Test(p) ==
    LET done == count[RankOf[p]] = 0
        updates == IsMaster(p) /\ stage[p] = "init"
    IN  /\ pc[p] = "test"
        /\ phase' = [phase EXCEPT ![p] = NextPhase(@)]
        /\ Goto(p, CASE updates /\ done -> "updateLast"
                     [] updates /\ ~done -> "update"
                     [] ~updates /\ done -> "ended"
                     [] OTHER -> "top")
        /\ UNCHANGED <<stage, count, queue, box>>

(***************************************************************************)
(* SharedObjectDataManager::updateState, by thread 0 of all ranks: before  *)
(* the first round, after every round, and to finalize, between the first  *)
(* two barriers of Simulation::setup.  Its MPI_Allgathers need all ranks.  *)
(***************************************************************************)
Updating == {"update", "updateLast", "finalize"}

AfterUpdate(l) ==
    CASE l = "update" -> "top"
      [] l = "updateLast" -> "ended"
      [] l = "finalize" -> "final"

Update ==
    /\ \A p \in Masters : pc[p] \in Updating
    /\ pc' = [p \in Part |-> IF p \in Masters THEN AfterUpdate(pc[p]) ELSE pc[p]]
    /\ UNCHANGED <<stage, phase, count, queue, box>>

-----------------------------------------------------------------------------
(* BaseComponent::setup of all components of p. *)
Setup(p) ==
    /\ pc[p] = "setup"
    /\ Goto(p, "run")
    /\ UNCHANGED <<stage, phase, count, queue, box>>

(***************************************************************************)
(* After initialize() the InitQueues are deleted (finalizeConfiguration).  *)
(* The threads of a rank then run together.  A run that ends in a sync has *)
(* just emptied the sync queues, one that --stop-at ends has not.          *)
(***************************************************************************)
Run(r) ==
    /\ \A p \in PartsOf(r) : pc[p] = "run"
    /\ pc' = [p \in Part |-> IF RankOf[p] = r THEN "complete" ELSE pc[p]]
    /\ stage' = [p \in Part |-> IF RankOf[p] = r THEN "complete" ELSE stage[p]]
    /\ box' = [l \in Links |-> IF RankOf[l[2]] = r THEN <<>> ELSE box[l]]
    /\ \E S \in SUBSET {l \in CrossThread \cup CrossRank : RankOf[l[1]] = r} :
        /\ S = {} \/ StopAt
        /\ queue' = [l \in Links |->
                IF l \in S THEN Append(queue[l], RunEvent) ELSE queue[l]]
    /\ UNCHANGED <<phase, count>>

(* The start of complete(): Link::prepareForComplete forgets the TimeVortex. *)
Prepare(p) ==
    /\ pc[p] = "prepare"
    /\ phase' = [phase EXCEPT ![p] = 0]
    /\ box' = [l \in Links |-> IF l[2] = p THEN <<>> ELSE box[l]]
    /\ Goto(p, "prepared")
    /\ UNCHANGED <<stage, count, queue>>

Over == \A p \in Part : pc[p] = "ended" /\ stage[p] = "complete"
Done == Over /\ UNCHANGED vars

Step(p) ==
    \/ Release(p) \/ Reset(p) \/ ThreadData(p) \/ Test(p) \/ Setup(p) \/ Prepare(p)
    \/ \E S \in SUBSET {l \in Links : l[1] = p} : Components(p, S)

Next ==
    \/ \E p \in Part : Step(p)
    \/ ExchangeData
    \/ Update
    \/ \E r \in Ranks : Run(r)
    \/ Done

Spec == Init /\ [][Next]_vars

-----------------------------------------------------------------------------
(***************************************************************************)
(* Untimed data that were sent in a round are received in the next: when   *)
(* the components of a thread have been called, "Event if one is           *)
(* available" (Link::recvUntimedData) has left nothing of their round or   *)
(* an earlier one behind, in the InitQueue or on the way to it.            *)
(***************************************************************************)
ReceivedNextRound ==
    \A l \in Links : pc[l[2]] = "sent" =>
        \A m \in {box[l][i] : i \in DOMAIN box[l]} \cup
                {queue[l][i] : i \in DOMAIN queue[l]} :
            m.untimed => m.time > phase[l[2]]

(***************************************************************************)
(* "Initialization ends when no components have sent any data", for all    *)
(* threads of all ranks at once: while one has left the loop, nobody is in *)
(* another round of it, they have counted the same rounds, and no untimed  *)
(* data are left in a queue.                                               *)
(***************************************************************************)
Counted(p) ==
    IF pc[p] \in {"untimed2", "counted", "test"} THEN NextPhase(phase[p]) ELSE phase[p]

Leaving == {"untimed2", "counted", "test", "updateLast", "ended", "finalize", "final"}

EndTogether ==
    \A p, q \in Part :
        /\ pc[p] = "ended" /\ stage[p] = stage[q] =>
            /\ pc[q] \in Leaving
            /\ phase[p] = Counted(q)
            /\ \A l \in Links : l[2] = q /\ pc[q] = "ended" =>
                queue[l] = <<>> \/ pc[l[1]] # "ended" \/ stage[l[1]] # stage[q]
        /\ stage[p] = "complete" /\ stage[q] = "init" => pc[q] \in {"final", "setup", "run"}
=============================================================================
