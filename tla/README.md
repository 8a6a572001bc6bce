# TLA+ models of the SST core

The SST core is a parallel discrete-event simulation kernel. It reads a model
description, partitions its components over MPI ranks and over the threads of
every rank, wires up their links, calls the components in untimed rounds
(`init`), runs them in simulated time, calls them in untimed rounds again
(`complete`), and finishes; it can write checkpoints and restart from them on
another number of ranks and threads. This directory holds TLA+ models of the
parts whose correctness depends on the order in which threads, ranks, handlers,
processes and signals happen to act, or on state that survives from one step to
another; TLC configurations that check small instances of them; and TLAPS proofs
for instances of any size. Paths below are relative to `src/src/sst/core/`.

`PROJECT.json` lists the components, the runs, the source lines behind every
definition (`map`), the hazards, the findings and the theorems.

## 1. Inventory

| component | state | operations | interacts with |
|---|---|---|---|
| Run loop (`simulation.cc`) | `currentSimCycle`, `currentPriority`, `endSim`, TimeVortex | `run`, `insertActivity`, `endSimulation` | pops clocks, events, SyncManager, StopAction, Exit |
| TimeVortex (`impl/timevortex/`) | a priority queue, or a map of time units with the current one | `insert`, `front`, `pop`, `getContents` | everything that is scheduled; another thread with `--interthread-links` |
| Links (`link.cc`, `initQueue.cc`, `sync/syncQueue.cc`) | mode, `send_queue`, latency, untimed queues | `send`, `sendUntimedData`, `recvUntimedData`, `finalizeConfiguration`, `prepareForComplete`, `serialize` | TimeVortex, InitQueue or sync queue |
| SyncManager (`sync/syncManager.cc`) | `next_sync_type_`, ten barriers, request flags | `execute`, `computeNextInsert`, `exchangeLinkUntimedData`, `registerLink`, `exchangeLinkInfo` | sync objects, Exit, CheckpointAction, RealTimeManager, console |
| Thread syncs (`sync/threadSync*.cc`) | queues per thread, `link_map`, `nextSyncTime`, flags | `before`, `execute`, `after`, `setSignals`, `setFlags` | TimeVortices of the rank |
| Rank syncs (`sync/rankSync*.cc`) | buffers per connection, work queues, `link_maps`, `myNextSyncTime`, flags | `execute`, `exchange_master`, `exchange_slave`, `exchangeLinkUntimedData` | MPI, BoundedQueue, TimeVortices |
| Barrier, queues, locks (`threadsafe.h`) | `count`, `generation`; cells with sequence numbers | `wait`; `try_insert`, `try_remove` | all threads of a rank |
| Memory pools (`mempool.cc`) | free and overflow lists per thread and size, shared lists, arenas | `operator new`, `operator delete` | all threads |
| Clock (`clock.cc`) | handler vector, `current_cycle_`, `scheduled_`; `index_`, `active_` of a handler | `registerHandler`, `unregisterHandler`, `execute`, `getNextCycle` | run loop, user handlers |
| Statistics, one-shots (`statapi/`, `impl/oneshotManager.cc`) | collected data, rates, start and stop times; one-shots by time | registration, `addData`, output, clock and one-shot events, restart | clocks, run loop, checkpoint |
| Untimed phases (`simulation.cc`) | `untimed_phase`, `untimed_msg_count` | `initialize`, `setup`, `complete` | links, sync queues, shared objects, `MPI_Allreduce` |
| Shared objects (`shared/`) | data, share and publish counts, change sets | `initialize`, `write`, `publish`, `updateState` | all threads of all ranks, between untimed rounds |
| Exit (`exit.cc`) | `ref_count_`, `thread_counts_`, `end_time_`, `global_count_` | `refInc`, `refDec`, `check`, `computeEndTime` | SyncManager, StopAction |
| CheckpointAction (`checkpointAction.cc`) | `next_sim_time_`, `generate_`, `checkpoint_id` | `check`, `setCheckpoint`, `createCheckpoint` | SyncManager, watch points, files |
| Restart (`simulation.cc`, `link.cc`, `model/restart/`) | registry, blobs; `link_restart_tracking`, lists of unmatched links | `restart`, `discoverRemoteLinks`, unpacking of links | sync objects, ring of threads and ranks |
| Serialization (`serialization/`) | pointer tables, tags of shared pointers, buffer | sizing, packing, unpacking | checkpoint, restart, messages |
| Wire-up and partitioning (`main.cc`, `model/configGraph.cc`, `impl/partitioners/`) | ConfigGraph, places, latencies | description, checks, partitioning, distribution, `prepareLinks` | all ranks by MPI, threads by shared maps |
| RealTimeManager (`realtime.cc`) | signals noted, intervals | `notifySignal`, `getSignals`, `performSignal`, `checkSignal` | the operating system, SyncManager |
| Interactive console, watch points | requests of a thread | `setEnterInteractive`, shutdown, checkpoint | SyncManager |
| Interprocess tunnel (`interprocess/`) | shared region, circular buffers, spin lock | attach, `write`, `read`, `readNB`, `clearBuffer` | child processes |
| ELI, options and input files, units, output, random numbers, profiling, port modules, interfaces | no interaction, or start-up only | | |

What makes this code hard to test:

* **Lookahead.** Partitions run on their own clocks between two syncs. The time
  of the next sync is computed from the earliest pending activity and the
  smallest latency; if it is one cycle late an event reaches a partition that
  has passed its time, but only under some schedules.
* **Agreement without messages.** Every thread computes by itself when the next
  sync is, of what type, whether there is another untimed round, and which
  barriers of `SyncManager::execute` it passes. Two that differ wait for ever.
* **Lock-free hand-over.** The barrier and the bounded queue use plain atomics;
  the TimeVortices use no lock at all and rely on the barriers around them;
  memory moves between the pools of threads.
* **State kept from one sync to the next.** Flags, buffer sizes and queues are
  reused; what is not reset, or reset too early, is acted on again or lost.
* **Re-entrance.** Handlers called in a loop change what the loop iterates over;
  objects are unpacked while others already point to them.
* **Descriptions in pieces.** Ranks that load in parallel each describe a part;
  a restart finds the two ends of a link on different ranks than they were.
* **The end.** A simulation ends by StopAction, by agreement of the primary
  components, by a signal or from the console, on some threads before others.

The correctness properties that follow from this are in sections 3 and 4;
the `hazards` of `PROJECT.json` give the lines where they bite.

## 2. Modules

    SequentialRun  <--refines--  ParallelRun    <- MCParallelRun, ParallelRunProofs
    BarrierPromise <--refines--  Barrier        <- MCThreadShared, ThreadSharedProofs
                                 BoundedQueue   <- MCThreadShared, ThreadSharedProofs
                                 RankExchange   <- MCThreadShared, RankExchangeProofs
                                 Exit, Tunnel   <- MCThreadShared, ThreadSharedProofs
                                 MemPool        <- MCThreadShared, ThreadSharedProofs
                                 SyncManager    <- MCSyncManager, SyncManagerProofs
                                 Clock          <- MCClock       <- MCTimed
                                 Clock          <- ClockProofs
                                 Statistics     <- MCStatistics  <- MCTimed
                                 TimeVortex     <- MCTimeVortex  <- MCTimed
                     TimeVortex, Statistics     <- TimedProofs
         UntimedPhase <-         SharedObject   <- MCSharedObject, UntimedPhaseProofs
         Partition    <-         WireUp         <- MCWireUp      <- MCStartUp
                                 Restart        <- MCRestart     <- MCStartUp
                                 Serializer     <- MCSerializer  <- MCStartUp

`MCThreadShared`, `MCTimed` and `MCStartUp` put components that do not interact
side by side: a behaviour is about one of them, chosen in its first state, and
leaves the variables of the others alone. One run then checks all of them.

The modules look at the same program with different granularity and lean on
each other. `ParallelRun` takes a whole collective `SyncManager::execute` as one
step; `SyncManager` opens that step up, thread by thread, and takes from
`ParallelRun` that the threads of a rank agree on the type of the next sync. The
barriers of `SyncManager`, `RankExchange` and `UntimedPhase` let everybody go
when everybody has arrived, which is what `BarrierHolds` proves of the real one.
`RankExchange` opens up the `execute` of the rank sync, and uses the work queues
that `BoundedQueue` describes access by access. `WireUp` and `Restart` produce
what `ParallelRun` takes as constants (places, links, latencies, intervals).
`TimeVortex` is the queue that `ParallelRun`, `Clock` and `Statistics` take for
an ordered set.

**ParallelRun** has, per partition, the clock (`now`), the events of the
TimeVortex (`tv`), the SyncManager's delivery time and type (`syncAt`,
`syncType`), and the sync objects' next times; sync queues are sets of events.
Its actions are one iteration of the run loop (`ExecuteEvent`, in which a
handler sends any events its links allow; `ExecuteStop`; `EnterSync`) and the
two syncs (`RankSyncExecute`, `ThreadSyncExecute`), each with everything the
code does in it: deliver, compute the minimum, compute both next times, check
the checkpoint, insert the SyncManager again. Priorities decide which activity
of one time is the front. Times wrap at `MaxTime` (`Add`).
**SequentialRun** is the promise: one set of pending events, of which every
partition executes the earliest addressed to it.

**Barrier** has one action per atomic access of `Barrier::wait` and a
`generation` that wraps; `entered`, `left` and `released` are history.
**BarrierPromise** says that nobody returns from the k-th `wait` before
everybody has called it k times.

**SyncManager** follows each thread through `SyncManager::execute`; its `pc`
names the barriers of the code (`RankExecBarrier_`, `LinkUntimedBarrier_`,
`ic_barrier_` and so on) and the places between them. Signals arrive
(`SignalArrives`) and handlers raise requests (`Request`) at any time; MPI
collectives are joint steps of the threads 0. Simulated time is left out: what
kind of sync comes next is a choice, in the pattern `ThreadSyncs` gives.

**BoundedQueue** has one action per access to shared memory of `try_insert` and
`try_remove`: load of the pointer, load of the sequence number, compare and
exchange, access to the data, release. With one cell the sequence number for
"full" is also the one for "free"; such a queue, which a rank with a single
connection uses, is safe only for callers that never offer a second element
before the first is taken, and the model's callers respect that.

**RankExchange** follows thread 0 through the MPI of `exchange_master`, and all
threads through the serialization, deserialization and delivery work they take
from the shared queues, for several exchanges. Sends are matched with the
receive that waits for them; a buffer that MPI copies early only frees the
sender sooner, and the sender waits for all of them before the reduction anyway.

**Exit** follows each thread's clock and reference count to the end that the
Exit action, a StopAction, a thread sync or a rank sync brings about, for all
layouts of ranks, threads and links, and to the time that is reported. The value
of the reference count per component is not told apart: a thread wants to go on
or has agreed to end.

**MemPool** has an item per slot of an arena. An operation of a pool touches the
lists that are shared (and locked) at most once, so it is one step. **Tunnel**
has one action per access to shared memory: attaching, the lock, the slots and
the two indices.

**Clock** has the handler vector, the call loop with its two iterators, and the
registration calls that events and clock handlers make. It tracks the capacity
of the vector: a handler that makes the vector grow while the loop runs over it
leaves the iterators dangling, which has no defined outcome, so such a step is
left out of the model; so is registration after the end of the simulation.

**Statistics** has the StatisticProcessingEngine with its clocks, groups and
one-shots (the OneShotManager has no other user in the core), three types of
statistics, and a restart, which rebuilds the engine from what the statistics
have saved of themselves. What a statistic should have collected is kept next to
it (`given`), and never cleared.

**TimeVortex** has the priority queue as a set with insertion order, and the
binned map with its units, the lazy sort, the free pool and, for the thread-safe
variant, one step per lock; another thread inserts behind the next sync. The
restart collects the events per handler from `getContents` and inserts them in
any order of the handlers.

**UntimedPhase** follows each thread through the rounds of `initialize`, through
`setup`, and through `complete`: the barriers, the thread and rank exchange, the
updates of shared objects and the decision to stop. The run between the two
phases is one step that may leave events in the sync queues if `--stop-at` ends
it. **SharedObject** extends it with the instances that components create, write
and publish, and puts `updateState` into its place in the rounds.

**Partition** holds the partitioners as operators on the collapsed graph.
**WireUp** follows every rank from the calls that describe links through the
checks, the partitioner, the distribution of the graph (recursive halving) or,
in a parallel load, the pairwise exchange of link identifiers, to the threads,
which prepare their links in any order; the ends of a link that the syncs serve
register on both sides. Three loads are distinguished: serial, parallel with
non-local links, and parallel with every rank describing all ("ghost"). A
parallel load may contain a mistake of one rank.

**Restart** starts with the threads of a job that write checkpoints, the job
dies at any point, and the restart reads the last registry with the same, one
or another number of partitions: unpacking of components and links, the ring in
which unmatched ends travel, the registration with the syncs and the intervals.

**Serializer** goes three times over an object graph: sizing, packing,
unpacking. The recursion of `serialize_order` is a stack of fields to do.

## 3. Runs

Passing runs:

| run | instance | shows |
|---|---|---|
| `parallel_ranks` | 2 ranks of 1 thread, latencies 2 (1 inside), checkpoint every 3, stop at 6, up to 3 events in flight | `NoTimeFault`, `NoLateArrival`, `CheckpointBeforeEvents`, `CheckpointIsCut`, `RefinesSequential`, `Termination` |
| `parallel_hybrid` | 2 ranks of 2 threads, threads closer than ranks, links of different latency in the two directions, no checkpoint | `IndInv`, where THREAD and RANK syncs alternate |
| `sync_manager_threads` | 1 rank of 2 threads, console, checkpoint period, all three kinds of signals, 2 requests | `NoDataRace`, `CheckpointOnRequest`, `SignalsReachSync`, `RequestsServed` |
| `sync_manager_ranks` | 2 ranks of 2 threads, one of them with a THREAD sync between RANK syncs, 1 request | `SyncInv` (types, no data race, same decision), `StopIsHonoured` |
| `thread_shared` | barrier: 4 threads, 4 rounds, generation modulo 2. Queue: 3 threads, 1 or 2 cells, 4 insertions. Exit: 7 layouts of 1 or 2 ranks and threads, with and without `--stop-at`. Pools: 2 threads, 2 sizes, 3 arenas of 2 items. Tunnel: 2 threads, a child, 3 slots, 4 messages. Exchange: 2 ranks of 2 threads, 3 connections, 2 exchanges, messages that fit and that do not (1.1 million states) | `RefinesPromise` (barrier), `QueueKept`, `ReportsLastTime`, `ItemsOnce`, `TunnelKept`, `ExchangeKept`, `RoundsEnd` (barrier and exchange) |
| `timed` | clocks: 3 (periods 1, 2, 1; priorities 40, 40, 85), 3 handlers, time up to 3. Statistics: 2 of 6 configurations, 2 calls, 1 restart. TimeVortex: 3 forms, 3 events, 2 handlers, 2 syncs (2.0 million states) | `Bookkeeping`, `CycleIsTime`, `EveryHandlerCalled`, `NextCycleIsKept`; `CollectedExactly`, `WrittenOnTime`; `VortexKept` |
| `shared_object` | a rank of 2 threads and one of 1; links of all three kinds; data sent in the first 2 rounds; or 2 instances of an array, map or set of one key, 2 values, 2 writes | `ReceivedNextRound`, `EndTogether`; `SameContents`, `PublishedIsFinal`, `QuietUpdate`; `SharedPhasesEnd` |
| `start_up` | wire-up: 4 components, up to 3 links, 4 worlds of up to 4 partitions, 5 partitioners, 3 ways to load, 3 mistakes. Restart: 3 components, 4 links, 6 worlds to 7, 2 checkpoints. Serializer: a root, two nodes, a vector, all combinations of 6 kinds of fields | `EndsMeet`, `LookaheadHolds`, `NoCutKept`, `MistakesAreFatal`; `RestoredWhole`, `RefusalsJustified`; `RoundTrip` |

What the properties of the last four runs say:

* `QueueKept`: elements come out in the order of insertion, each once; a cell has
  one thread at a time; no more elements than cells. `ExchangeKept`: every
  message reaches the thread it is for exactly once, before the next sync time is
  computed, and both ends of a connection agree on the size of the buffer.
  `ReportsLastTime`: the time reported is that of the thread that ended last.
  `ItemsOnce`: an item is in use or in one list, and none is lost. `TunnelKept`:
  messages come out in order, each once, whoever reads, clears or fails to get
  the lock.
* `Bookkeeping`: a handler is where its `index_` says, and a clock is scheduled
  once. `CycleIsTime`, `EveryHandlerCalled`, `NextCycleIsKept`: the cycle a
  handler is called with, that it is called, and that it is called next when
  `getNextClockCycle` or `reregisterClock` has said. `CollectedExactly`: what a
  statistic has written and holds is what it was given between `startat` and
  `stopat`, also after a restart, and bins add up. `WrittenOnTime`: one row per
  multiple of the rate. `VortexKept`: activities are popped in order of time,
  priority, order tag and insertion, each once, also after a restart.
* `SameContents`: after an update an object is the same on all ranks and holds
  every write, so contradictory writes have been detected wherever they were made.
  `PublishedIsFinal`: what is in an object that a rank sees fully published changes
  no more, unless an instance was initialized since. `QuietUpdate`: no component of
  a rank runs while its objects are updated, which takes no lock.
  `ReceivedNextRound`: untimed data are received in the round after the one they
  were sent in. `EndTogether`: all threads of all ranks leave a phase after the same
  round, with nothing left in a queue. `SharedPhasesEnd`: the phases end, unless a
  conflict is fatal.
* `EndsMeet`: every end of a link sends to the end that the description names,
  through the queue that leads there. `LookaheadHolds`: no link is faster than the
  interval of the sync it crosses. `NoCutKept`. `MistakesAreFatal`: a description
  that ranks do not agree on ends the job. `RestoredWhole`: every component is
  restored once, ends meet again, delays are kept and intervals are no longer than
  they may be. `RefusalsJustified`: a restart is only refused when the numbers of
  partitions do not allow it. `RoundTrip`: what is unpacked has the shape of what
  was packed.

**Bounds, and why they suffice.** Two partitions and two kinds of latency are
enough for one partition to run ahead of another, for two syncs to coincide and
for a checkpoint to fall on, before and after a sync; stopping at 6 with
latencies of 1 and 2 leaves room for at least two syncs after the first, so that
values left over from one are used in the next. Three events in flight are
enough for each of two partitions to hold one while one is queued. In `Barrier`
the generation wraps every second round, so a late thread may see it return to
an old value, and four rounds cover two wraps. A queue of two cells with four
insertions wraps twice, one of one cell four times; three threads allow one to be
overtaken by two. Two exchanges are the fewest in which buffers of one are used
by the next. With three arenas of two items a pool fills an overflow list, hands
it on, and another pool takes it up. A buffer of three slots with
four messages wraps. Three handlers are the fewest for which compaction moves one
past a removed one while another is still to be called. Two statistics may share a
clock or a one-shot, and a checkpoint at 2 lies between the start and stop times 1
and 3. Three events are the fewest for a unit to be sorted, popped from and
inserted into again. In `UntimedPhase` the counter of rounds is cut at 5 and never
reached, as in the program. Four ranks take two halvings of the graph and three
rounds of pairs; three components of a triangle have links inside a partition,
across threads and across ranks at once. Two nodes and a container make all
sharing and cycles of length up to three.

**Fairness.** Weak fairness on the steps of every thread: the operating system
schedules all threads, and the code's waits are spins with no way to be starved
by a lock. Collective steps (barriers, MPI collectives) are weakly fair because
each participant is there and stays. No fairness is assumed of what the
environment does: requests, signals, agreement of a component to end. `Barrier`
also assumes that every thread comes back to the barrier until `MaxRounds`;
`UntimedPhase` that components stop sending (from round `MaxPhase` on), without
which the phases need not end, and that the run ends.

**Deadlock** is checked in all passing runs: a state in which threads wait for
each other is an error even where no liveness property is checked. Where a model
ends, it stutters in its final state only (`Done`, `Over`).

## 4. Where code and documentation disagree

Four runs end with a counterexample. In each the model does what the code
does, and the property is what a comment or the documentation says.

* `checkpoint_time_fault` (`NoTimeFault`). Two ranks of two threads with
  `--checkpoint-sim-period`. A THREAD sync passes `MAX_SIMTIME_T` as the time of
  the next checkpoint to `computeNextInsert`, so the SyncManager is not inserted
  for it. The next RANK sync is later than the checkpoint;
  `CheckpointAction::check` compares with `==`, returns the time that is past,
  and the SyncManager is inserted there. The run ends with the time fault.
* `interthread_links` (`NoTimeFault`). With `--interthread-links` the
  ThreadSyncDirectSkip does not override `findSyncInterval`, is taken for one
  without links and replaced by an EmptyThreadSync. Nothing keeps the threads in
  step after that. (A restart switches the option off.)
* `independent_threads` (`SyncCompletes`). One rank, threads without links
  between them, and a checkpoint period: a thread that ends on its own waits on
  `exitBarrier`, the other in the sync for the checkpoint.
* `binned_checkpoint` (`RestartKeepsEvents`). `getContents` of the binned map is a
  stub, so a checkpoint of a simulation that uses it saves no pending event, and
  nothing warns of it.

Smaller disagreements show in the same way, by hand: with the configuration of
that name or, where constants are given instead, with a configuration that
replaces these in the one of the passing run and checks the property alone (under
`VortexSpec` for MCTimeVortex, `Spec` for the other modules of one component):

| configuration | module | property violated | what happens |
|---|---|---|---|
| `SyncManagerRepeat.cfg` | MCSyncManager | `CheckpointOnRequest` | With several ranks the request for a checkpoint stays in `generate_ckpt_` of the RankSync, which is cleared only after a shutdown or the console; all later RANK syncs take one ("Generate a checkpoint next time check() is called", `checkpointAction.h:88`). |
| `SyncManagerSignal.cfg` | MCSyncManager | `SignalsReachSync` | Without links between the threads of a single rank the sync takes the signals from the RealTimeManager and the EmptyThreadSync drops them ("For parallel runs, we delay handling until the next sync", `realtime.cc:650`). |
| `SharedObjectStopAt.cfg` | MCSharedObject | `ReceivedNextRound` | Events that `--stop-at` leaves in the sync queues are delivered into the InitQueues by the first exchange of `complete()` and hide the data behind them ("Event if one is available", `link.h:268`). |
| `InPlace = TRUE` | MCSharedObject | `SameContents` | A map or set that is not verified keeps the first value of a key in `update_write`, so a value that is modified in place differs between ranks afterwards ("you want to do in-place modifications as you initialize", `shared/sharedMap.h:62-65`). |
| `ThreadSharedIndependent.cfg` | MCThreadShared | `ReportsLastTime` | Two ranks whose threads are all independent: the time reported is that of one thread and not of the last (`simulation.cc:1256`). |
| `Scripts <- NoLatencyScripts` | MCWireUp | `LatencyAssigned` | A link that has a latency at one end only, and no default, passes the checks of the graph and has latency 0 at the other end. |
| `Jobs <- PartialJobs`, `Partial = TRUE` | MCRestart | `RestoredOnce` | A serial restart from a checkpoint of a parallel job that died while the registry was written restores the part that is registered, without a message. |
| `StatisticsRestart.cfg` | MCStatistics | `CollectedExactly` | A checkpoint exactly at `startat` or `stopat` comes before the one-shot (priority 25 against 85); the restart finds the time not in the future and never starts, or stops, the statistic (`statapi/statengine.cc:394-462`). |
| `AsPtrElem = TRUE` | MCSerializer | `RoundTrip` | A shared pointer serialized with `as_ptr_elem` drops the option on unpacking (`serialization/impl/serialize_shared_ptr.h:273` against `serialization/serialize.h:66-68`). |
| `Heaps <- ContainerHeaps` | MCSerializer | `RoundTrip` | A container that is reached through a pointer is not reported before its elements are unpacked (`serialization/impl/serialize_insertable.h:283`), so a cycle through it does not close. |
| `Kinds <- DirectKinds` | MCTimeVortex | `UnitIsOwned` | In the thread-safe binned map another thread may insert into the current unit while it is popped from ("only one thread at a time can access the current time unit. Thus, no mutex.", `impl/timevortex/timeVortexBinnedMap.cc:88-90`). |
| `ClockReregister.cfg` | MCClock | `NextCycleIsKept` | A handler reregistered from within a tick of its own clock is called in that tick, one cycle before the one `reregisterClock` has returned ("Time of next time clock handler will fire", `baseComponent.h:485`). |
| `ClockUnregister.cfg` | MCClock | `EveryHandlerCalled` | A handler unregistered from within a tick of its own clock shifts the others under the iterator; one is skipped ("Calls callback functions (handlers) on a specified period", `clock.h:34`). |

The passing runs exclude exactly these situations, each by a constant of its
configuration (`SelfChange`, `StopAt`, `InPlace`, `Partial`, `AsPtrElem`,
`CheckpointTimes`, the sets of layouts, heaps, scripts and forms); the passing
runs of `ParallelRun` and the proofs exclude `checkpoint_time_fault` and
`interthread_links` (`SafeConfig`).

Met while modelling, and not shown by a run:

* `model/restart/sstcptmodel.cc:274-276`: the size of the last section of the
  globals is read and the buffer resized, but the section is not read before it is
  unpacked. A restart on the same number of partitions registers every link that
  the syncs serve twice, which `RestoredWhole` shows to be harmless.
* A parallel load in which a rank names the wrong *thread* of the right rank is
  accepted.
* A histogram counts a call that adds N items as one in `m_itemsBinnedCount`
  (`statapi/stathistogram.h:137`); a minimum that is not a multiple of the width
  loses bins. The smallest positive number is where the maximum of negative
  floating-point data starts (`numeric_limits<T>::min()`).
* The flag for output at the end of the simulation is set and never consulted
  (`statapi/statbase.h:93`); a statistic with an event rate in a group is never
  output; one registered after its `stopat` never stops.
* Two children that attach to a tunnel at once may both load the same
  `expectedChildren` (`interprocess/tunneldef.h:142-143`); the region is then never
  unlinked. A circular buffer of one slot takes no message.
* An item larger than an arena makes pools of 0 items; a failed `mmap` leaves
  `numAlloc` incremented (`mempool.cc`).
* `TimeVortexPQ`, thread-safe, returns from `pop` on an empty queue with its lock
  held (`impl/timevortex/timeVortexPQ.cc:78-79`); the run loop never does that.

## 5. Proofs

**ParallelRunProofs** proves, for every set of ranks and partitions, every latency,
every stop time and any number of events:

| theorem | statement |
|---|---|
| `IndInvariance` | if `SafeConfig` then `Spec => []IndInv` |
| `TypeCorrect` | the same `=> []TypeOK` |
| `TimeNeverRunsBackwards` | the same `=> []NoTimeFault` |
| `LookaheadIsSafe` | the same `=> []NoLateArrival` |
| `ThreadsAgreeOnSync` | the same `=> []SyncAgreement` |
| `CheckpointsOnTime` | the same `=> []CheckpointBeforeEvents` |
| `CheckpointsAreCuts` | the same `=> CheckpointIsCut` |
| `ParallelIsSequential` | the same `=> RefinesSequential` |

**Assumptions.** `PartAssumption`, `TimeAssumption`, `LinkAssumption`,
`SetupAssumption` fix what the constants are. `SafeConfig` is what the code
needs: no time wraps before the stop time (`NoWrap`; the rank sync adds without
a test), no `--interthread-links`, and checkpoints by simulated time only on a
single rank or with one thread per rank. Without the last two the theorems are
false: the first two counterexamples of section 4.

**The invariant.** None of the properties is inductive: that no event is late
depends on when the sync comes, which depends on what was pending at the last
sync. `IndInv` is the conjunction of `TypeOK` and `NoTimeFault` with

* `ClockInv`: the clock is between the last event executed and everything that
  is in the TimeVortex, and not past the sync or the stop;
* `AgreeInv`: what each thread keeps for itself is equal where it has to be;
* `ScheduleInv`: the SyncManager is in the TimeVortex at the earliest of the
  three times that are due, with the matching type. It is this one that a
  checkpoint on several ranks of several threads breaks;
* `ThreadLookahead`, `RankLookahead`: the next thread (rank) sync is no later
  than any pending event plus the interval, and no later than any event in its
  queues. An event executed before the sync therefore sends only events that
  are due at or after it, and a sync delivers all that could be due before the
  next one.

There is one lemma per action (`InitIndInv`, `ExecuteEventIndInv`,
`StopOrEnterIndInv`, `RankSyncIndInv`, `ThreadSyncIndInv`) and
below them lemmas on the operators: `MinTime` is the least element, the bounds
of `NextRankSync`, `NextThreadSync`, `NextSyncTime`, `Sendable`, `MinActivity`.
The refinement maps `pending` to the union of all TimeVortices and sync queues;
a sync is a stuttering step, and that an executed event is the earliest one
addressed to its partition is what the two lookaheads say about the queues.

**RankExchangeProofs** proves `ExchangeIsKept` (`ExchangeSpec => []ExchangeKept`) for
any ranks, threads, links, message sizes and number of exchanges. `ExchangeInd` says
how far each connection is, from both of its ends:

* `StageInv`: the barriers keep the threads of a rank in the same part of `execute`;
  `HandInv`, `QueuesInv`, `HeaderInv`: what hands and work queues may hold.
* The sender: a message not yet sent is in one place, a work queue or a hand
  (`SerializeOnce`); the receive buffer is one exchange behind exactly while it is
  still to be sent or under way, and the RankSyncQueue is not cleared before that
  (`SendInv`); `my_send_count` counts these messages (`ToSendInv`).
* The connection (`NetInv`): nothing, a message that fits, a header with its message,
  or the message after its header; the two sizes differ only in the third case.
* The receiver: the same for what is received but not delivered (`DeserializeOnce`,
  `ReceiveInv`, `DeliverInv`), and `my_recv_count` counts it (`ToDeliverInv`).

Neither end knows the other's exchange; that an end which is a round ahead finds the
right message follows because both relate their own round to the receive buffer.
`ExchangeAssumption` only says what the constants are.

**SyncManagerProofs**, for any ranks and threads, any pattern of THREAD and RANK syncs:

| theorem | statement |
|---|---|
| `BarriersPreventRaces` | `Spec => []NoDataRace` |
| `ThreadsDecideAlike` | `Spec => []SyncInv` |
| `SignalsAreHandedOver` | if `ThreadLinks` or there are several ranks, `Spec => SignalsReachSync` |
| `CheckpointsAreWanted` | on a single rank, `Spec => CheckpointOnRequest` |

The last two hypotheses are needed: without the first `SyncManagerSignal.cfg`, without
the second `SyncManagerRepeat.cfg` finds a counterexample (section 4). `BaseInd` is
the type, that the kind of the next sync follows from the THREAD syncs left
(`ScheduleInv`), and `SegmentInv`: two threads of a rank are in the same segment between
two barriers. From the last the absence of races follows. Agreement needs more
(`SyncInd`): what a thread has done is determined by where it is and by the flags
(`DidInv`), the threads checkpoint and enter the console together (`TogetherInv`), a
thread that shuts down alone in a THREAD sync is held at a barrier the others do not
reach (`HeldInv`), and the ranks have reduced the flags to the same values
(`ReducedInv`). `CheckpointInv` ties the request flags to a wish that is
still open.

**ClockProofs**, for any clocks, periods, priorities and handlers:

| theorem | statement |
|---|---|
| `ClocksStayInStep` | `Spec => []CycleIsTime` |
| `PlacesAreKept` | if `~SelfChange`, `Spec => []Bookkeeping` |
| `HandlersAreCalled` | if `~SelfChange`, `Spec => []EveryHandlerCalled` |
| `PromisesAreKept` | if `~SelfChange`, `Spec => []NextCycleIsKept` |

`~SelfChange` says that a handler does not register or unregister on the very clock
that is calling it; otherwise `ClockReregister.cfg` and `ClockUnregister.cfg` violate
the last two. That clocks stay in step needs no hypothesis and only `TimeInd`: a
clock is in the TimeVortex once if it is scheduled and not running, and not otherwise
(`QueueInv`), at its next multiple. For the others `ClockInd` adds that a clock with
handlers stays scheduled (`MapInv`), and describes the vector in the middle of a tick:
the positions that hold (`Live`) are those already compacted and those still to come,
`index_` is right for exactly these (`PlaceInv`), those before the iterator have been
called in this tick and those after it have not (`CallInv`), and a promised cycle is
not yet past (`PromiseInv`).

**UntimedPhaseProofs**, for any ranks, threads, links and rounds:

| theorem | statement |
|---|---|
| `PhasesEndTogether` | `Spec => []EndTogether` |
| `DataReceivedNextRound` | if `~StopAt`, `Spec => []ReceivedNextRound` |
| `SharedImplementsUntimed` | `SharedSpec => Spec` |
| `SharedEndTogether`, `SharedReceivedNextRound` | the same two of `SharedSpec` |
| `UpdatesAreQuiet` | `SharedSpec => []QuietUpdate` |

`UntimedInd` places a thread by its round and the last barrier it has passed
(`Placed`), keeps the threads of a rank within one barrier of each other (`Mates`) and
the ranks within one collective (`Beside`), and says when a queue is empty (`Drained`).
`DataInd` adds which round the data in a queue and in an InitQueue belong to; it needs
that `--stop-at` leaves nothing behind (`SharedObjectStopAt.cfg`). That the specification
with shared objects implements the one without is what lets the theorems carry over.

**The contents of shared objects** are the second part of `UntimedPhaseProofs`, for any
ranks, instances, keys, values and number of writes, in any order:

| theorem | statement |
|---|---|
| `PublishedMeansFinal` | `SharedSpec => PublishedIsFinal` |
| `ExchangedIsSame` | if `~InPlace`, `SharedSpec => []SameContents` |

Nothing is said of what follows a fatal error: `PublishInv` and `ContentInv` are
"fatal, or". For the first theorem the counters are those of the instances
(`CountsInd`), and once a rank sees the object fully published every instance that was
known then has published, so that nobody but a newcomer can have put anything into a
change set (`PublishedInd`). For the second, `ContentInd` says what holds *between* two
exchanges: an array has no holes (`LengthInd`, which is what makes its size tell which
indices it has); the change set agrees with the rank's own data, for an array in its
latest entry for an index (`ChangesInd`); at a key that no rank has a change for the
ranks agree, except that one may not know the array's length yet (`AgreeInd`); a write
is kept on its rank, and everywhere else once it is not waiting to be exchanged
(`KeptInd`). That an exchange then makes all ranks equal is `ExchangeMeans`: the changes
of the other ranks are applied one rank after the other, and if none of these is
fatal all ranks with a change for a key must have the same value for it, because each of
them meets the others' changes (`AllCompatible`). `~InPlace` is needed: with it the
property is false (section 4).

**TimedProofs** proves, of the TimeVortex, `ExecutionIsOrdered`: if `KindsHandled`, then
`VortexSpec => []VortexKept`, for any handlers, priorities, times, size of a unit and
number of activities. `KindsHandled` leaves out two of the forms that TLC checks: the
binned map that another thread inserts into, lock by lock, and a restart of a binned map.
`VortexInd`: everything pending is not before what was popped last, has its own insertion
order, and is exactly the events sent and not yet executed and, but in a sync, the
SyncManager (`PendingInv`, `PoppedInv`); the units of the binned map that are in use hold
activities of their own time only, each once, and in order if they are marked sorted,
the current one is the earliest, and the pool holds empty ones that are not in use
(`UnitInv`); a thread between two steps of an insertion or a pop finds the units as it
left them (`OwnerInv`); the depth counts what is there, one off while an operation is
under way (`DepthInv`); a restart brings back what was saved (`SavedInv`).

Of the statistics it proves `RowsAreTimely`: `StatSpec => []WrittenOnTime`, for any
statistics, parameters and data and any checkpoint times. `StatInd` says that a statistic with a rate has a clock if it is
registered and none of its clocks is behind (`StatClocks`): the next tick is the first
multiple that is not past, counting this cycle as past once its clocks have run
(`TickKept`). The rows a statistic has are then those of the multiples before the next tick,
each once (`StatRows`). A restart makes all clocks again, from nothing but the current time;
that they come out the same is `RejoinRun`, along the fold over the statistics in the order
they were registered. That the one-shots of a time leave the clocks alone is `HandleRun`.

It also proves `EverythingIsCollected`: if `WindowsSound` and `BinsAligned`, then
`StatSpec => []CollectedExactly`, again for any statistics, parameters, data and number of
calls and restarts. Two invariants are added to `StatInd`. `StatWindows` ties the
engine's bookkeeping to the parameters: from the times of `startat`, `stopat` and
registration alone it says what the two flags of a statistic are and whether it is enabled
(`FlagsKept`); a statistic is in the engine's map of start times, at its `startat`,
exactly while its flag is set, and so for stop times (`MapsKept`); each time in a map has a
one-shot with one handler of that kind, and the earliest one-shot is in the vortex
(`ShotsKept`). So between the one-shots of two times a statistic is enabled exactly when
what it collects counts (`EnabledInWindow`). A restart finds each factor by searching the
maps and registers it again (`SavedTimes`, `RejoinedMore`), which leads to the same maps.
`StatData` is the account of one statistic: each field that adds up is, in what it holds
and in the rows after which it was cleared together, what it would be had the statistic
never been cleared (`Accounted`); a value adds the same to both (`FieldsAdd`), a row moves
what is held to the rows (`RowKept`, `RowCut`); and the bins of a histogram, with what is
below and above, are its count (`Total`), because a value between the limits falls in
exactly one of them (`OneBin`).

* `WindowsSound`: no checkpoint is taken exactly at a `startat` or `stopat`, without which
  the property is false (`StatisticsRestart.cfg`, section 4); and the two, if not 0,
  differ. If they are the same, whether the statistic is left enabled depends on which of
  two handlers comes first, and that on which kind any other statistic asked for first at
  that time.
* `BinsAligned`: `MinValue` is a multiple of `BinWidth`. A value is counted under
  the multiple of the width below it (`stathistogram.h:143-145`), while the bins that are
  written start at `MinValue` (`stathistogram.h:309-313`): otherwise the two do not
  meet and what was counted is not written.

`Timed.cfg` satisfies both.

**ThreadSharedProofs** holds the proofs of what the threads of a process share: the
barrier, the bounded queue, the memory pools, the tunnel and Exit.

| theorem | statement |
|---|---|
| `BarrierInvariance`, `BarrierHolds` | `Spec => []BarrierInv`, `Spec => RefinesPromise` of Barrier |
| `QueueKeepsOrder` | `QueueSpec => []QueueKept` |
| `ItemsAreKept` | `PoolSpec => []ItemsOnce` |
| `MessagesAreKept` | `TunnelSpec => [](MessagesInOrder /\ NoneShutOut)`, for any number of children |
| `TunnelIsKept` | with one child, `TunnelSpec => []TunnelKept` |
| `LastTimeIsReported` | if `TimeIsCollected`, `ExitSpec => []ReportsLastTime` |

*Barrier*, for any finite set of threads, any number of rounds and any `GenMax >= 1`:
`BarrierInv` adds to the type `RoundInv` (where a thread is and which generation it has
loaded tell the round it is in: the current or, if it has not yet noticed the release,
the last) and `CountInv` (`count` is what the current round still waits for, by counting
the threads that have subtracted; only one thread is between the subtraction to zero and
the release).

*BoundedQueue*, for any threads, number of cells and number of insertions: `QueueInd`
describes the cells as the pointers see them. Every cell is free or full for some
position that falls on it (`CellInv`); a thread between its compare-and-exchange and its
release owns the position it has claimed (`ClaimInv`), alone (`UniqueInv`); a thread about
to claim has not loaded past the pointer, and if its position is still the next one, the
cell is ready (`LoadInv`); what was removed is what was inserted at that position, and
`rPtr <= wPtr` (`OrderInv`). With one cell the sequence numbers for "free" and "full"
coincide; `OfferInv` is the caller's discipline that makes up for it.

*MemPool*, for any number of threads, sizes and items of an arena: `PoolInd` says that an
item that is not in use is at one place of one list, a thread's own, its overflow or a
shared one (`ListedOnce`); that an overflow list is shorter than an arena and a shared one
as long (`PoolLengths`); and that the lengths of all lists add up to the items not in use,
and the counters of the threads to those in use (`PoolCounts`). The last are sums over
lists and over threads: each operation changes them by what it changes in one place
(`SumUpdate` of `FoldLemmas`).

*Tunnel*: `MessageInd` says that the lock has one holder (`LockInv`); that the slots
between the two indices, modulo the size of the buffer, hold what was sent and not yet
taken (`RingInv`); that a writer or reader in the middle of its operation finds the slot
as it left it (`AtSlotInv`). That the region is unlinked when all have attached
(`NameRemoved`, the third part of `TunnelKept`) holds for one child, and not for two that
race (section 4).

*Exit*: `ExitInd` says that while the simulation runs, `end_time_` is the last agreement
of a rank's threads, and what every thread will report is what the others ended at, by
way of the Exit action, a stop, a thread sync or a rank sync (`RunningInv`); at the end
rank 0 has it (`OverInv`). `TimeIsCollected` excludes several ranks whose threads are
all independent, where the code reports the time of one thread
(`ThreadSharedIndependent.cfg`).

**FoldLemmas.** The prover cannot use an induction theorem that takes the induction
hypothesis as an operator. Where a proof needs induction, over a set that is folded or
over a sequence, it takes the set of the arguments for which the claim holds, and the
least that is not in it (`LeastNat`, from the well-foundedness of `<`); `SetInduction`
does this once for finite sets, `SetRecursion` shows that the function a fold is defined
by exists, and `SumIter` and `SumUpdate` follow for sums. `LargestElement` is that a finite
set of numbers has a greatest.

**Only model-checked.**

* All liveness (`Termination`, `RoundsEnd`, `StopIsHonoured`, `RequestsServed`,
  `SharedPhasesEnd`): fairness is outside the prover's reach.
* `RestoredWhole`, `RefusalsJustified` and `RoundTrip`: no proof has been attempted;
  `RoundTrip` speaks about graphs of any depth and would need induction over them.
* `EndsMeet`, `LookaheadHolds`, `NoCutKept`, `MistakesAreFatal` of WireUp: it uses
  `Partition`, which has a recursive operator, as the code does
  (`getConnectedNoCutComps`), and cannot be proved about as it stands.

## 6. Abstractions

* Events carry source, destination and time. Sets of events merge two with the
  same three; the properties do not tell them apart. In `ParallelRun` the order of
  activities of equal time and priority is left open (any may be the front);
  `TimeVortex` has it.
* In `ParallelRun` handlers are arbitrary: they send any subset of what their
  links allow, with an extra delay up to `MaxDelay`. Clocks and one-shots are
  not separate activities there: what they send is what an event handler at
  their time could send.
* Atomics are sequentially consistent. The code orders the stores that hand
  something over by acquire and release and leaves the queue's two pointers
  relaxed; reorderings this allows are not explored.
* MPI is reliable and keeps the order of messages of one pair and tag. A fatal
  error of one rank ends the job (`MPI_Abort`).
* Wall-clock intervals: the alarm is one more signal, and its collective
  rescheduling one joint step (`Alarm`).
* A component in a checkpoint is its identity and the number of the checkpoint;
  a file is written whole or not at all, and the sections of the registry are
  appended one by one.
* Data of a statistic are small numbers, data of an object its own address; types,
  widths and formats are left out.

## 7. Not modelled, and the plan

To be modelled:

1. **Real-time intervals** (`AlrmSignalAction`): several intervals on one alarm,
   kept equal over the ranks.
2. **UnboundedQueue and Spinlock** of `threadsafe.h`.
3. Polling links, port modules and attached tools on a link.
4. The restart of clocks (`registerHandler_restart`) together with `Restart`.

To be proved: `VortexKept` of TimeVortex for the two forms that `KindsHandled` leaves out,
and `RestoredWhole` of Restart, at least that the two ends of a link meet again.

Left out for good, with the reason:

* **Options, model input and output** (`config*.cc`, `model/python/`,
  `model/json/`, `params.cc`, `configGraphOutput.cc`): sequential text processing
  before or after the simulation. What the calls of a model do to links is in
  `WireUp`.
* **Element loading and component base classes** (`eli/`, `factory.cc`,
  `baseComponent.*`, `componentInfo.cc`): registries of user code filled by static
  constructors, and forwarding calls; what user code calls appears as the inputs of
  the actions.
* **The object map and the commands of the interactive console**
  (`serialization/objectMap.*`, `impl/interactive/`): user interface on a stopped
  simulation. Its requests and its place in a sync are in `SyncManager`.
* **Bytes of data types** in serialization, **formats** of statistics, output and
  profiling, **units** and **random numbers**: conversions and arithmetic without
  interaction.
* **Interfaces** (`interfaces/stdMem.h`, `simpleNetwork.h` and so on): abstract
  classes that elements outside the repository implement.
* **Test elements and examples** (`testElements/`, `tests/`): users of the core, not
  part of it.

These are most of the repository's lines, and the reason why the map covers a
small share of them.
