----------------------------- MODULE SyncManager -----------------------------
(***************************************************************************)
(* SyncManager::execute as the threads run it, step by step: the barriers  *)
(* it waits on, and what the threads of all ranks agree on in a sync --    *)
(* signals of the operating system, requests for a checkpoint, for the     *)
(* interactive console and for a shutdown, and whether the simulation has  *)
(* ended.  Every thread takes its own branches; each barrier and each MPI  *)
(* collective below is reached only if all of them take the same ones.     *)
(*                                                                         *)
(* Simulated time is left to ParallelRun, where all threads of a rank are  *)
(* shown to agree on the type of the next sync; the barriers themselves    *)
(* are the ones of Barrier: nobody leaves before everybody has arrived.    *)
(***************************************************************************)
EXTENDS Naturals, FiniteSets

CONSTANTS
    Ranks,          \* the MPI ranks
    Part,           \* the partitions, one thread of one rank each
    RankOf,         \* the rank of a partition
    Master,         \* thread 0 of every rank
    ThreadLinks,    \* links cross threads: ThreadSyncSimpleSkip, else EmptyThreadSync
    Interactive,    \* an interactive console is loaded
    CkptPeriod,     \* --checkpoint-sim-period is given
    Primaries,      \* the threads with a primary component
    Signals,        \* the signals the operating system delivers
    Handler,        \* what the signals end, usr and alrm are set up to do
    ThreadSyncs,    \* THREAD syncs of a rank between two RANK syncs
    MaxRequests     \* bound: requests and signals in one run

VARIABLES
    pc,             \* where each thread is
    sched,          \* per rank: next_sync_type_, and whether a checkpoint is due then
    quota,          \* THREAD syncs left before the next RANK sync of a rank
    fromOs,         \* sig_*_from_os_ and signal_arrived_ of each process
    sigs,           \* the signals kept by thread 0's RealTimeManager
    threadFlags,    \* what ThreadSync holds, per rank
    rankFlags,      \* what RankSync holds, per rank
    ckptGenerate,   \* SyncManager::ckpt_generate_
    generate,       \* CheckpointAction::generate_ of each thread
    interactive,    \* enter_interactive_ of each thread
    shutdown,       \* enter_shutdown_ of each thread
    endSim,         \* endSim of each thread
    primary,        \* the thread has a component that does not want to end
    globalCount,    \* Exit::global_count_
    did,            \* history: what a thread has done in the present sync
    wanted,         \* history: a checkpoint was asked for since the last one
    budget          \* requests still to come

flags == <<threadFlags, rankFlags, ckptGenerate>>
asked == <<generate, interactive, shutdown>>
vars == <<pc, sched, quota, fromOs, sigs, flags, asked, endSim, primary,
          globalCount, did, wanted, budget>>

Signal == {"end", "usr", "alrm"}
SingleRank == \A r, s \in Ranks : r = s

ASSUME PartAssumption ==
    /\ IsFiniteSet(Part)
    /\ RankOf \in [Part -> Ranks]
    /\ Master \in [Ranks -> Part]
    /\ \A r \in Ranks : RankOf[Master[r]] = r

ASSUME OptionAssumption ==
    /\ {ThreadLinks, Interactive, CkptPeriod} \subseteq BOOLEAN
    /\ Primaries \subseteq Part /\ Signals \subseteq Signal
    /\ Handler \in [Signal -> {"exit", "checkpoint", "interactive", "status"}]
    /\ ThreadSyncs \in [Ranks -> Nat]
    /\ SingleRank \/ ThreadLinks \/ \A r \in Ranks : ThreadSyncs[r] = 0
    /\ MaxRequests \in Nat

PartsOf(r) == {p \in Part : RankOf[p] = r}
IsMaster(p) == p = Master[RankOf[p]]

(* No link leaves the thread: Simulation::independent. *)
Independent == SingleRank /\ ~ThreadLinks

NoFlags == [sig |-> {}, interactive |-> FALSE, shutdown |-> FALSE, ckpt |-> FALSE]

Schedules ==
    IF SingleRank
    THEN {[type |-> "THREAD", due |-> d] : d \in
            IF ~CkptPeriod THEN {FALSE} ELSE IF ThreadLinks THEN BOOLEAN ELSE {TRUE}}
    ELSE {[type |-> t, due |-> FALSE] : t \in {"RANK", "THREAD"}}

(* The type of the next sync once q THREAD syncs are left. *)
Fits(s, q) == SingleRank \/ (s.type = "RANK" <=> q = 0)

Init ==
    /\ pc = [p \in Part |-> "run"]
    /\ quota = ThreadSyncs
    /\ sched \in [Ranks -> Schedules]
    /\ \A r \in Ranks : Fits(sched[r], quota[r])
    /\ fromOs = [r \in Ranks |-> {}]
    /\ sigs = [r \in Ranks |-> {}]
    /\ threadFlags = [r \in Ranks |-> NoFlags]
    /\ rankFlags = [r \in Ranks |-> NoFlags]
    /\ ckptGenerate = [r \in Ranks |-> FALSE]
    /\ generate = [p \in Part |-> FALSE]
    /\ interactive = [p \in Part |-> FALSE]
    /\ shutdown = [p \in Part |-> FALSE]
    /\ endSim = [p \in Part |-> FALSE]
    /\ primary = [p \in Part |-> p \in Primaries]
    /\ globalCount = [r \in Ranks |-> 0]
    /\ did = [p \in Part |-> {}]
    /\ wanted = FALSE
    /\ budget = MaxRequests

Goto(p, l) == pc' = [pc EXCEPT ![p] = l]
Do(p, S) == did' = [did EXCEPT ![p] = @ \cup S]

-----------------------------------------------------------------------------
(***************************************************************************)
(* Between two syncs: the handlers of events raise requests, components    *)
(* agree to end, and the operating system delivers signals, at any time    *)
(* and to thread 0.  Signals are looked at after each activity.            *)
(***************************************************************************)
(* A watch point: WatchPoint::setEnterInteractive, consoleShutdown, setCheckpoint. *)
Request(p) ==
    /\ pc[p] = "run" /\ Interactive /\ budget > 0
    /\ budget' = budget - 1
    /\ \/ /\ interactive' = [interactive EXCEPT ![p] = TRUE]
          /\ UNCHANGED <<shutdown, generate, wanted>>
       \/ /\ shutdown' = [shutdown EXCEPT ![p] = TRUE]
          /\ UNCHANGED <<interactive, generate, wanted>>
       \/ /\ generate' = [generate EXCEPT ![p] = TRUE]
          /\ wanted' = TRUE
          /\ UNCHANGED <<interactive, shutdown>>
    /\ UNCHANGED <<pc, sched, quota, fromOs, sigs, flags, endSim, primary,
                   globalCount, did>>

(* SimulationSigEndHandler, SimulationSigUsrHandler, SimulationSigAlrmHandler. *)
SignalArrives(r) ==
    /\ budget > 0
    /\ pc[Master[r]] # "over"
    /\ budget' = budget - 1
    /\ \E s \in Signals : fromOs' = [fromOs EXCEPT ![r] = @ \cup {s}]
    /\ UNCHANGED <<pc, sched, quota, sigs, flags, asked, endSim, primary,
                   globalCount, did, wanted>>

(* Exit::refDec; an independent thread ends at once, in a StopAction. *)
OKToEndSim(p) ==
    /\ pc[p] = "run" /\ primary[p]
    /\ primary' = [primary EXCEPT ![p] = FALSE]
    /\ IF Independent
       THEN /\ endSim' = [endSim EXCEPT ![p] = TRUE]
            /\ Goto(p, "stopping")
       ELSE UNCHANGED <<endSim, pc>>
    /\ UNCHANGED <<sched, quota, fromOs, sigs, flags, asked, globalCount, did,
                   wanted, budget>>

(* The end of an iteration of the run loop: RealTimeManager::notifySignal. *)
LoopCheck(p) ==
    /\ pc[p] = "check" \/ (pc[p] = "run" /\ IsMaster(p) /\ fromOs[RankOf[p]] # {})
    /\ Goto(p, IF endSim[p] THEN "over" ELSE "run")
    /\ IF IsMaster(p)
       THEN /\ sigs' = [sigs EXCEPT ![RankOf[p]] = @ \cup fromOs[RankOf[p]]]
            /\ fromOs' = [fromOs EXCEPT ![RankOf[p]] = {}]
       ELSE UNCHANGED <<sigs, fromOs>>
    /\ UNCHANGED <<sched, quota, flags, asked, endSim, primary, globalCount, did,
                   wanted, budget>>

(* The SyncManager is popped from the thread's TimeVortex. *)
EnterSync(p) ==
    /\ pc[p] = "run"
    /\ Goto(p, IF sched[RankOf[p]].type = "RANK" THEN "rank0" ELSE "set")
    /\ did' = [did EXCEPT ![p] = {}]
    /\ UNCHANGED <<sched, quota, fromOs, sigs, flags, asked, endSim, primary,
                   globalCount, wanted, budget>>

-----------------------------------------------------------------------------
(***************************************************************************)
(* The barriers of a rank.  exitBarrier is waited on from the sync and, by *)
(* a thread that stops on its own, from the run loop.                      *)
(***************************************************************************)
IsRank(p) == sched[RankOf[p]].type = "RANK"

(* Where a thread goes from each barrier. *)
Beyond(p, l) ==
    CASE l = "rank0" -> "before"
      [] l = "rank1" -> "set"
      [] l = "serializeReady" -> "deliver"
      [] l = "slaveExchangeDone" -> IF IsMaster(p) THEN "reduce" ELSE "allDone"
      [] l = "allDone" -> "rank2"
      [] l = "rank2" -> "after"
      [] l = "rank5" -> "exit"
      [] l = "rank3" -> "end"
      [] l = "thread0" -> "before"
      [] l = "thread1" -> "after"
      [] l = "thread2" -> IF SingleRank THEN "signals" ELSE "end"
      [] l = "ic1" -> "load"
      [] l = "ic2" -> "clear"
      [] l = "exiting" -> "next"
      [] l = "stopping" -> "check"

RankBarriers == {"rank0", "rank1", "rank2", "rank3", "rank5"}
ExchangeBarriers == {"serializeReady", "slaveExchangeDone", "allDone"}
ThreadBarriers == {"thread0", "thread1", "thread2", "ic1", "ic2"}

Barriers == RankBarriers \cup ExchangeBarriers \cup ThreadBarriers
ExitBarrier == {"exiting", "stopping"}

Release(r) ==
    /\ LET l == pc[Master[r]]
       IN  \/ l \in Barriers /\ \A p \in PartsOf(r) : pc[p] = l
           \/ \A p \in PartsOf(r) : pc[p] \in ExitBarrier
    /\ pc' = [p \in Part |-> IF RankOf[p] = r THEN Beyond(p, pc[p]) ELSE pc[p]]
    /\ UNCHANGED <<sched, quota, fromOs, sigs, flags, asked, endSim, primary,
                   globalCount, did, wanted, budget>>

(* The last barrier; computeNextInsert has settled which sync is next. *)
LeaveSync(r) ==
    /\ \A p \in PartsOf(r) : pc[p] = "rank4"
    /\ pc' = [p \in Part |-> IF RankOf[p] = r THEN "check" ELSE pc[p]]
    /\ quota' = [quota EXCEPT ![r] =
            IF sched[r].type = "RANK" THEN ThreadSyncs[r]
            ELSE IF SingleRank THEN @ ELSE @ - 1]
    /\ \E s \in Schedules : Fits(s, quota'[r]) /\ sched' = [sched EXCEPT ![r] = s]
    /\ UNCHANGED <<fromOs, sigs, flags, asked, endSim, primary, globalCount, did,
                   wanted, budget>>

-----------------------------------------------------------------------------
(***************************************************************************)
(* The steps of one thread inside SyncManager::execute.                    *)
(***************************************************************************)
(* Mutant of AtTimeVortex: the barriers after the deliveries are missing. *)
AtTimeVortexNoWait(p) ==
    /\ pc[p] \in {"before", "deliver", "after", "next"}
    /\ Goto(p, CASE pc[p] = "before" -> IF IsRank(p) THEN "rank1" ELSE "after"
                [] pc[p] = "deliver" -> IF IsMaster(p) THEN "reduce" ELSE "allDone"
                [] pc[p] = "after" -> IF IsRank(p) THEN "signals" ELSE "thread2"
                [] pc[p] = "next" -> "rank4")
    /\ UNCHANGED <<sched, quota, fromOs, sigs, flags, asked, endSim, primary,
                   globalCount, did, wanted, budget>>

(* Steps on the TimeVortices: ThreadSync::before delivers to one's own,    *)
(* exchange_slave too, ThreadSync::after looks at those of all threads and *)
(* computeNextInsert inserts into one's own.                               *)
AtTimeVortex(p) ==
    /\ pc[p] \in {"before", "deliver", "after", "next"}
    /\ Goto(p, CASE pc[p] = "before" -> IF IsRank(p) THEN "rank1" ELSE "thread1"
                [] pc[p] = "deliver" -> "slaveExchangeDone"
                [] pc[p] = "after" -> IF IsRank(p) THEN "signals" ELSE "thread2"
                [] pc[p] = "next" -> "rank4")
    /\ UNCHANGED <<sched, quota, fromOs, sigs, flags, asked, endSim, primary,
                   globalCount, did, wanted, budget>>

(* Mutant of WithFlags: the alarm is forgotten. *)
WithFlagsNoAlarm(f, p) ==
    [sig |-> IF IsMaster(p) THEN sigs[RankOf[p]] \ {"alrm"} ELSE f.sig,
     interactive |-> f.interactive \/ (Interactive /\ interactive[p]),
     shutdown |-> f.shutdown \/ (Interactive /\ shutdown[p]),
     ckpt |-> f.ckpt \/ (Interactive /\ generate[p] /\ IsRank(p))]

(* Mutant of WithFlags: only thread 0 may enter the console or shut down. *)
WithFlagsMasterOnly(f, p) ==
    [sig |-> IF IsMaster(p) THEN sigs[RankOf[p]] ELSE f.sig,
     interactive |-> f.interactive \/ (Interactive /\ IsMaster(p) /\ interactive[p]),
     shutdown |-> f.shutdown \/ (Interactive /\ IsMaster(p) /\ shutdown[p]),
     ckpt |-> f.ckpt \/ (Interactive /\ generate[p] /\ IsRank(p))]

(* What thread p adds to the flags f of a sync object. *)
WithFlags(f, p) ==
    [sig |-> IF IsMaster(p) THEN sigs[RankOf[p]] ELSE f.sig,
     interactive |-> f.interactive \/ (Interactive /\ interactive[p]),
     shutdown |-> f.shutdown \/ (Interactive /\ shutdown[p]),
     ckpt |-> f.ckpt \/ (Interactive /\ generate[p] /\ IsRank(p))]

(* setSignals, setFlags and setCkptFlag; EmptyThreadSync keeps nothing. *)
SetFlags(p) ==
    LET r == RankOf[p]
    IN  /\ pc[p] = "set"
        /\ Goto(p, IF IsRank(p) THEN "serializeReady"
                   ELSE IF ThreadLinks THEN "thread0" ELSE "signals")
        /\ rankFlags' = IF IsRank(p)
                THEN [rankFlags EXCEPT ![r] = WithFlags(@, p)] ELSE rankFlags
        /\ threadFlags' = IF ~IsRank(p) /\ SingleRank /\ ThreadLinks
                THEN [threadFlags EXCEPT ![r] = WithFlags(@, p)] ELSE threadFlags
        /\ sigs' = IF IsMaster(p) /\ (IsRank(p) \/ SingleRank)
                THEN [sigs EXCEPT ![r] = {}] ELSE sigs
        /\ UNCHANGED <<sched, quota, fromOs, ckptGenerate, asked, endSim, primary,
                       globalCount, did, wanted, budget>>

(* The flags thread p finds; EmptyThreadSync leaves it with its own. *)
FlagsOf(p) ==
    IF IsRank(p) THEN rankFlags[RankOf[p]]
    ELSE IF ThreadLinks THEN threadFlags[RankOf[p]]
    ELSE [sig |-> {}, interactive |-> interactive[p], shutdown |-> shutdown[p],
          ckpt |-> FALSE]

(* RealTimeManager::performSignal for the signals of S on the threads of P. *)
Perform(P, S) ==
    LET acts == {Handler[s] : s \in S}
    IN  /\ endSim' = [p \in Part |-> endSim[p] \/ (p \in P /\ "exit" \in acts)]
        /\ generate' = [p \in Part |->
                generate[p] \/ (p \in P /\ "checkpoint" \in acts)]
        /\ interactive' = [p \in Part |->
                interactive[p] \/ (p \in P /\ "interactive" \in acts)]
        /\ wanted' = (wanted \/ "checkpoint" \in acts)
        /\ did' = [p \in Part |-> IF p \in P THEN did[p] \cup S ELSE did[p]]

(* getSignals: the end signal goes before the others. *)
HandleSignals(p) ==
    LET S == FlagsOf(p).sig
        now == IF "end" \in S THEN {"end"} ELSE S
    IN  /\ pc[p] = "signals"
        /\ Perform({p}, now \ {"alrm"})
        /\ Goto(p, IF "alrm" \in now THEN "alarm" ELSE "request")
        /\ UNCHANGED <<sched, quota, fromOs, sigs, flags, shutdown, primary,
                       globalCount, budget>>

(***************************************************************************)
(* A checkpoint that some thread asked for is taken by all.  In a RANK     *)
(* sync the RankSync has spread the word, in a THREAD sync of a single     *)
(* rank it is ckpt_generate_.                                              *)
(***************************************************************************)
CheckpointRequest(p) ==
    LET gen == generate[p] \/ rankFlags[RankOf[p]].ckpt
    IN  /\ pc[p] = "request"
        /\ IF IsRank(p)
           THEN /\ generate' = [generate EXCEPT ![p] = gen]
                /\ Goto(p, IF gen THEN "checkpoint" ELSE "flags")
                /\ UNCHANGED ckptGenerate
           ELSE /\ ckptGenerate' = [ckptGenerate EXCEPT ![RankOf[p]] = @ \/ generate[p]]
                /\ Goto(p, "ic1")
                /\ UNCHANGED generate
        /\ UNCHANGED <<sched, quota, fromOs, sigs, threadFlags, rankFlags, interactive,
                       shutdown, endSim, primary, globalCount, did, wanted, budget>>

LoadGenerate(p) ==
    LET gen == generate[p] \/ ckptGenerate[RankOf[p]]
    IN  /\ pc[p] = "load"
        /\ generate' = [generate EXCEPT ![p] = gen]
        /\ Goto(p, IF gen \/ sched[RankOf[p]].due THEN "checkpoint" ELSE "unset")
        /\ UNCHANGED <<sched, quota, fromOs, sigs, flags, interactive, shutdown, endSim,
                       primary, globalCount, did, wanted, budget>>

(* Mutant of UnsetGenerate: ckpt_generate_ is not reset. *)
UnsetGenerateMissing(p) ==
    /\ pc[p] = "unset"
    /\ Goto(p, "flags")
    /\ UNCHANGED <<sched, quota, fromOs, sigs, flags, asked, endSim, primary,
                   globalCount, did, wanted, budget>>

UnsetGenerate(p) ==
    /\ pc[p] = "unset"
    /\ ckptGenerate' = [ckptGenerate EXCEPT ![RankOf[p]] = FALSE]
    /\ Goto(p, "flags")
    /\ UNCHANGED <<sched, quota, fromOs, sigs, threadFlags, rankFlags, asked, endSim,
                   primary, globalCount, did, wanted, budget>>

(* getFlags: a shutdown goes before the interactive console. *)
HandleFlags(p) ==
    LET f == FlagsOf(p)
    IN  /\ pc[p] = "flags"
        /\ IF Interactive /\ f.shutdown
           THEN /\ endSim' = [endSim EXCEPT ![p] = TRUE]
                /\ Do(p, {"shutdown"})
                /\ Goto(p, "ic2")
           ELSE /\ UNCHANGED <<endSim, did>>
                /\ Goto(p, IF Interactive /\ f.interactive THEN "console"
                           ELSE IF IsRank(p) THEN "exit" ELSE "end")
        /\ UNCHANGED <<sched, quota, fromOs, sigs, flags, asked, primary, globalCount,
                       wanted, budget>>

(* clearFlags, by thread 0 in a RANK sync and by all in a THREAD sync. *)
ClearFlags(p) ==
    LET r == RankOf[p]
    IN  /\ pc[p] = "clear"
        /\ Goto(p, IF IsRank(p) THEN "rank5" ELSE "end")
        /\ rankFlags' = IF IsRank(p) /\ IsMaster(p)
                THEN [rankFlags EXCEPT ![r] = [NoFlags EXCEPT !.sig = rankFlags[r].sig]]
                ELSE rankFlags
        /\ threadFlags' = IF ~IsRank(p) /\ ThreadLinks
                THEN [threadFlags EXCEPT ![r] = [NoFlags EXCEPT !.sig = threadFlags[r].sig]]
                ELSE threadFlags
        /\ UNCHANGED <<sched, quota, fromOs, sigs, ckptGenerate, asked, endSim, primary,
                       globalCount, did, wanted, budget>>

(* Only thread 0 calls Exit::check. *)
SkipExitCheck(p) ==
    /\ pc[p] = "exit" /\ ~IsMaster(p)
    /\ Goto(p, "rank3")
    /\ UNCHANGED <<sched, quota, fromOs, sigs, flags, asked, endSim, primary,
                   globalCount, did, wanted, budget>>

(* endSimulation, once no primary component is left. *)
EndCheck(p) ==
    LET r == RankOf[p]
        ended == IF IsRank(p) THEN globalCount[r] = 0
                 ELSE SingleRank /\ \A q \in PartsOf(r) : ~primary[q]
    IN  /\ pc[p] = "end"
        /\ IF ended
           THEN /\ endSim' = [endSim EXCEPT ![p] = TRUE]
                /\ Do(p, {"ended"})
                /\ Goto(p, "exiting")
           ELSE Goto(p, "next") /\ UNCHANGED <<endSim, did>>
        /\ UNCHANGED <<sched, quota, fromOs, sigs, flags, asked, primary, globalCount,
                       wanted, budget>>

-----------------------------------------------------------------------------
(***************************************************************************)
(* The steps all threads of all ranks take together: MPI collectives, the  *)
(* checkpoint, the alarm's exchange of the elapsed time and the console.   *)
(***************************************************************************)
Masters == {Master[r] : r \in Ranks}

(* Mutant of Reduce: the shutdown is left out of the reduction. *)
ReduceNoShutdown ==
    /\ \A p \in Masters : pc[p] = "reduce"
    /\ pc' = [p \in Part |-> IF p \in Masters THEN "allDone" ELSE pc[p]]
    /\ rankFlags' = [r \in Ranks |->
            [sig |-> UNION {rankFlags[s].sig : s \in Ranks},
             interactive |-> \E s \in Ranks : rankFlags[s].interactive,
             shutdown |-> rankFlags[r].shutdown,
             ckpt |-> \E s \in Ranks : rankFlags[s].ckpt]]
    /\ UNCHANGED <<sched, quota, fromOs, sigs, threadFlags, ckptGenerate, asked, endSim,
                   primary, globalCount, did, wanted, budget>>

(* MPI_Allreduce of the signals and the flags at the end of an exchange. *)
Reduce ==
    /\ \A p \in Masters : pc[p] = "reduce"
    /\ pc' = [p \in Part |-> IF p \in Masters THEN "allDone" ELSE pc[p]]
    /\ LET all == [sig |-> UNION {rankFlags[r].sig : r \in Ranks},
                   interactive |-> \E r \in Ranks : rankFlags[r].interactive,
                   shutdown |-> \E r \in Ranks : rankFlags[r].shutdown,
                   ckpt |-> \E r \in Ranks : rankFlags[r].ckpt]
       IN  rankFlags' = [r \in Ranks |-> all]
    /\ UNCHANGED <<sched, quota, fromOs, sigs, threadFlags, ckptGenerate, asked, endSim,
                   primary, globalCount, did, wanted, budget>>

(* AlrmSignalAction::execute. *)
Alarm ==
    /\ \A p \in Part : pc[p] = "alarm"
    /\ pc' = [p \in Part |-> "request"]
    /\ Perform(Part, {"alrm"})
    /\ UNCHANGED <<sched, quota, fromOs, sigs, flags, shutdown, primary, globalCount,
                   budget>>

(* CheckpointAction::createCheckpoint, called from check(). *)
CreateCheckpoint ==
    /\ \A p \in Part : pc[p] = "checkpoint"
    /\ pc' = [p \in Part |-> IF IsRank(p) THEN "flags" ELSE "unset"]
    /\ generate' = [p \in Part |-> FALSE]
    /\ wanted' = FALSE
    /\ did' = [p \in Part |-> did[p] \cup {"checkpoint"}]
    /\ UNCHANGED <<sched, quota, fromOs, sigs, flags, interactive, shutdown, endSim,
                   primary, globalCount, budget>>

(* InteractiveConsole::execute; the user may order a shutdown there. *)
Console ==
    /\ \A p \in Part : pc[p] = "console"
    /\ pc' = [p \in Part |-> IF IsRank(p) THEN "clear" ELSE "ic2"]
    /\ interactive' = [p \in Part |-> FALSE]
    /\ did' = [p \in Part |-> did[p] \cup {"console"}]
    /\ \/ UNCHANGED <<shutdown, budget>>
       \/ /\ budget > 0
          /\ budget' = budget - 1
          /\ \E p \in Part : shutdown' = [shutdown EXCEPT ![p] = TRUE]
    /\ UNCHANGED <<sched, quota, fromOs, sigs, flags, generate, endSim, primary,
                   globalCount, wanted>>

(* Exit::check: how many ranks still have a primary component. *)
ExitCheck ==
    /\ \A p \in Masters : pc[p] = "exit"
    /\ pc' = [p \in Part |-> IF p \in Masters THEN "rank3" ELSE pc[p]]
    /\ globalCount' = [r \in Ranks |->
            Cardinality({s \in Ranks : \E q \in PartsOf(s) : primary[q]})]
    /\ UNCHANGED <<sched, quota, fromOs, sigs, flags, asked, endSim, primary, did,
                   wanted, budget>>

AllOver == \A p \in Part : pc[p] = "over"
Done == AllOver /\ UNCHANGED vars

Step(p) ==
    \/ EnterSync(p) \/ LoopCheck(p)
    \/ AtTimeVortex(p) \/ SetFlags(p) \/ HandleSignals(p)
    \/ CheckpointRequest(p) \/ LoadGenerate(p) \/ UnsetGenerate(p)
    \/ HandleFlags(p) \/ ClearFlags(p) \/ SkipExitCheck(p) \/ EndCheck(p)

Together == Reduce \/ Alarm \/ CreateCheckpoint \/ Console \/ ExitCheck

Next ==
    \/ \E p \in Part : Step(p) \/ Request(p) \/ OKToEndSim(p)
    \/ \E r \in Ranks : Release(r) \/ LeaveSync(r) \/ SignalArrives(r)
    \/ Together
    \/ Done

Spec == Init /\ [][Next]_vars

(* Every thread keeps running; nobody has to raise a request. *)
Fairness ==
    /\ \A p \in Part : WF_vars(Step(p))
    /\ \A r \in Ranks : WF_vars(Release(r)) /\ WF_vars(LeaveSync(r))
    /\ WF_vars(Together)

FairSpec == Spec /\ Fairness

-----------------------------------------------------------------------------
Label ==
    {"run", "check", "over", "set", "before", "deliver", "reduce", "after", "signals",
     "alarm", "request", "load", "unset", "checkpoint", "flags", "console", "clear",
     "exit", "end", "next", "rank4"} \cup Barriers
        \cup ExitBarrier

Flags == [sig : SUBSET Signal, interactive : BOOLEAN, shutdown : BOOLEAN, ckpt : BOOLEAN]

TypeOK ==
    /\ pc \in [Part -> Label]
    /\ sched \in [Ranks -> Schedules]
    /\ quota \in [Ranks -> Nat]
    /\ fromOs \in [Ranks -> SUBSET Signal] /\ sigs \in [Ranks -> SUBSET Signal]
    /\ threadFlags \in [Ranks -> Flags] /\ rankFlags \in [Ranks -> Flags]
    /\ ckptGenerate \in [Ranks -> BOOLEAN]
    /\ generate \in [Part -> BOOLEAN] /\ interactive \in [Part -> BOOLEAN]
    /\ shutdown \in [Part -> BOOLEAN]
    /\ endSim \in [Part -> BOOLEAN] /\ primary \in [Part -> BOOLEAN]
    /\ globalCount \in [Ranks -> 0 .. Cardinality(Ranks)]
    /\ did \in [Part -> SUBSET (Signal \cup {"checkpoint", "shutdown", "console",
                                       "ended"})]
    /\ wanted \in BOOLEAN
    /\ budget \in 0 .. MaxRequests

(***************************************************************************)
(* The TimeVortices and the signals of a sync object have no lock.  While  *)
(* a thread looks at the TimeVortices of all threads                       *)
(* (getLocalMinimumNextActivityTime) no other thread inserts into its own, *)
(* and while one reads the signals of the sync nobody sets them.           *)
(***************************************************************************)
NoDataRace ==
    \A p, q \in Part : p # q /\ RankOf[p] = RankOf[q] =>
        /\ pc[p] \in {"after", "reduce"} =>
                pc[q] \notin {"run", "before", "deliver", "next"}
        /\ pc[p] = "signals" /\ (ThreadLinks \/ IsRank(p)) =>
                pc[q] # "reduce" /\ ~(pc[q] = "set" /\ IsMaster(q))

(***************************************************************************)
(* The threads that take part in a sync, of all ranks in a RANK sync, have *)
(* done the same in it when they leave: performed the same signals, taken  *)
(* the checkpoint, entered the console, shut down or ended, all or none.   *)
(***************************************************************************)
SameDecision ==
    \A p, q \in Part :
        /\ pc[p] = "rank4" /\ pc[q] = "rank4"
        /\ RankOf[p] = RankOf[q] \/ (IsRank(p) /\ IsRank(q))
        => did[p] = did[q]

(***************************************************************************)
(* What holds of every state of the sync managers: the types, no data race *)
(* between the threads of a rank, and one decision for all in a sync.      *)
(***************************************************************************)
SyncInv == TypeOK /\ NoDataRace /\ SameDecision

(***************************************************************************)
(* A checkpoint is taken when a thread has asked for one since the last,   *)
(* or when it is due by simulated time: "Generate a checkpoint next time   *)
(* check() is called", not at every later check.                           *)
(***************************************************************************)
CheckpointOnRequest ==
    [][\A p \in Part : "checkpoint" \in did'[p] \ did[p] =>
            wanted \/ sched[RankOf[p]].due]_vars

(***************************************************************************)
(* Whatever asks for the end of the simulation -- the last primary         *)
(* component, an end signal at one rank, a shutdown ordered on one thread  *)
(* -- every thread of every rank leaves the run loop.                      *)
(***************************************************************************)
StopRequested ==
    \/ \A p \in Part : ~primary[p]
    \/ \E p \in Part : shutdown[p]
    \/ \E r \in Ranks : "end" \in fromOs[r] \cup sigs[r]

StopIsHonoured == StopRequested ~> AllOver

(***************************************************************************)
(* A request for a checkpoint or for the console that one thread has made  *)
(* between two syncs is served, unless the simulation ends first.          *)
(***************************************************************************)
RequestsServed ==
    \A p \in Part :
        /\ generate[p] ~> (~generate[p] \/ AllOver)
        /\ interactive[p] ~> (~interactive[p] \/ AllOver)

(***************************************************************************)
(* A signal that thread 0 has taken note of is handed to the sync: "For    *)
(* parallel runs, we delay handling until the next sync"                   *)
(* (RealTimeManager::notifySignal).  It is cleared there, so what the sync *)
(* object does not keep is lost.                                           *)
(***************************************************************************)
SignalsReachSync ==
    [][\A r \in Ranks :
            sigs[r] \ sigs'[r] \subseteq threadFlags'[r].sig \cup rankFlags'[r].sig]_vars

(***************************************************************************)
(* A thread that has entered SyncManager::execute, or waits for the others *)
(* to stop, does not wait for ever.                                        *)
(***************************************************************************)
SyncCompletes == \A p \in Part : pc[p] # "run" ~> pc[p] \in {"run", "over"}
=============================================================================
