------------------------------ MODULE Statistics ------------------------------
(***************************************************************************)
(* The statistics of one simulation thread: what a statistic collects,     *)
(* when StatisticProcessingEngine outputs, clears, enables and disables    *)
(* it, the OneShotManager that does the latter, and what is left of all    *)
(* that after a restart from a checkpoint.                                 *)
(*                                                                         *)
(* Every activity has a time and a priority.  The priorities that matter   *)
(* here are those of checkpoints, components, the statistics and the end   *)
(* of the simulation; a restart resumes at the first of them.  Clocks and  *)
(* one-shots of the statistics that fall on the same time may run in any   *)
(* order: nothing is collected while they do.                              *)
(***************************************************************************)
EXTENDS Integers, Sequences, FiniteSets, FiniteSetsExt, SequencesExt, Functions, TLC

CONSTANTS
    Stats,              \* the statistics
    Configs,            \* the parameters that they may be given
    GroupRate,          \* outputFrequency of the statistic group, 0 for none
    MinValue, BinWidth, NumBins,        \* of the histograms
    Data,               \* <<N, value>>: what addDataNTimes is called with, addData if N is 1
    CheckpointTimes,    \* when a checkpoint is taken that is restarted from
    LastTime, MaxCalls, MaxRestarts      \* bounds

ASSUME StatisticsAssumption ==
    /\ Configs \subseteq [type : {"accumulator", "histogram", "unique"},
                          mode : {"time", "event"}, rate : Nat,
                          startat : Nat, stopat : Nat,
                          reset : BOOLEAN, group : BOOLEAN]
    /\ {GroupRate, MinValue, LastTime, MaxCalls, MaxRestarts} \subseteq Nat
    /\ {BinWidth, NumBins} \subseteq Nat \ {0}
    /\ Data \subseteq (Nat \ {0}) \X Nat

VARIABLES
    config,     \* of each statistic
    order,      \* the statistics that exist, as they were registered
    engine,     \* the engine, see Engine
    phase,      \* "build", "init", "run", "finish" or "over"
    now, prio,  \* currentSimCycle, currentPriority
    started,    \* simulation_started_
    rows,       \* what the outputs of a statistic have written
    statCalls, restarts,    \* how often components called, and restarts
    regAt,      \* when a statistic was registered
    given       \* a statistic that collects what it should and is never cleared

statVars == <<config, order, engine, phase, now, prio, started, rows, statCalls, restarts,
          regAt, given>>

SYNC == 25
EVENT == 50
STATISTICCLOCK == 85
EXIT == 99

Registered == ToSet(order)
Drop(f, x) == Restrict(f, DOMAIN f \ {x})
With(f, x, y) == [z \in DOMAIN f \cup {x} |-> IF z = x THEN y ELSE f[z]]

-----------------------------------------------------------------------------
(* The values of a statistic of each type. *)

(* numeric_limits<T>::max(), no value is above it *)
Largest == Max({d[2] : d \in Data} \cup {0}) + 1

Cleared(type) ==
    CASE type = "accumulator" -> [sum |-> 0, min |-> Largest, max |-> 0]
      [] type = "histogram" ->
            [bins |-> <<>>, below |-> 0, above |-> 0, binned |-> 0, sum |-> 0]
      [] OTHER -> {}

AddToAccumulator(d, n, v) ==
    [sum |-> d.sum + n * v, min |-> Min({v, d.min}), max |-> Max({v, d.max})]

MaxValue == BinWidth * NumBins + MinValue - 1
BinStart(v) == (v \div BinWidth) * BinWidth
Count(bins, b) == IF b \in DOMAIN bins THEN bins[b] ELSE 0

AddToHistogram(d, n, v) ==
    IF v < MinValue THEN [d EXCEPT !.below = @ + n]
    ELSE IF v > MaxValue THEN [d EXCEPT !.above = @ + n]
    ELSE [d EXCEPT !.sum = @ + n * v,
                   !.binned = @ + 1,
                   !.bins = [b \in DOMAIN @ \cup {BinStart(v)} |->
                                Count(@, b) + (IF b = BinStart(v) THEN n ELSE 0)]]

AddImpl(type, d, n, v) ==
    CASE type = "accumulator" -> AddToAccumulator(d, n, v)
      [] type = "histogram" -> AddToHistogram(d, n, v)
      [] OTHER -> d \cup {v}

(* outputStatisticFields: the fields of a row. *)
Fields(type, d, count) ==
    CASE type = "accumulator" ->
            [f \in {<<"sum">>, <<"count">>, <<"min">>, <<"max">>} |->
                CASE f = <<"sum">> -> d.sum
                  [] f = <<"count">> -> count
                  [] f = <<"min">> -> IF count = 0 THEN 0 ELSE d.min
                  [] OTHER -> IF count = 0 THEN 0 ELSE d.max]
      [] type = "histogram" ->
            [f \in {<<"sum">>, <<"count">>, <<"binned">>, <<"below">>, <<"above">>}
                   \cup {<<"bin", y>> : y \in 0..NumBins - 1} |->
                CASE f = <<"sum">> -> d.sum
                  [] f = <<"count">> -> count
                  [] f = <<"binned">> -> d.binned
                  [] f = <<"below">> -> d.below
                  [] f = <<"above">> -> d.above
                  [] OTHER -> Count(d.bins, MinValue + f[2] * BinWidth)]
      [] OTHER -> [f \in {<<"unique">>} |-> Cardinality(d)]

-----------------------------------------------------------------------------
(* A statistic, as constructed and with its rate. *)
NewStat(c) ==
    [enabled |-> TRUE, current |-> 0, output |-> 0,
     limit |-> IF c.mode = "event" THEN c.rate ELSE 0,
     startAtFlag |-> FALSE, stopAtFlag |-> FALSE, data |-> Cleared(c.type)]

(* setCollectionCount(0) is part of it for all types but one. *)
ClearData(c, st) ==
    LET counts == IF c.type = "unique" THEN st ELSE [st EXCEPT !.current = 0, !.output = 0]
    IN  [counts EXCEPT !.data = Cleared(c.type)]

RowOf(s, st, why) ==
    [at |-> now, why |-> why, fields |-> Fields(config[s].type, st.data, st.current)]

(* The rest of performStatisticOutputImpl: reset the count, clear the data. *)
AfterOutput(s, st) ==
    LET counted == IF config[s].mode = "event" /\ ~config[s].group
                   THEN [st EXCEPT !.output = 0] ELSE st
    IN  IF config[s].reset THEN ClearData(config[s], counted) ELSE counted

(* An output of the statistics S from the engine e; nothing is written     *)
(* before the simulation starts, and nothing cleared at its end.           *)
Output(S, why, e) ==
    /\ rows' = [s \in Stats |->
                    IF started /\ s \in S THEN Append(rows[s], RowOf(s, e.stat[s], why))
                    ELSE rows[s]]
    /\ engine' = [e EXCEPT !.stat = [s \in Stats |->
                    IF started /\ s \in S /\ why # "end" THEN AfterOutput(s, @[s]) ELSE @[s]]]

-----------------------------------------------------------------------------
(* The engine: its clocks and when they fire next, the statistics that are *)
(* to be started and stopped at a time, and the one-shots that do it.      *)

NoEngine(st) == [stat |-> st, clocks |-> <<>>, groupClock |-> 0,
                 starts |-> <<>>, stops |-> <<>>, oneshots |-> <<>>]

(* OneShotManager::scheduleNextOneShot: only the first one is in the vortex. *)
ScheduleNext(o) ==
    IF DOMAIN o = {} THEN o ELSE [o EXCEPT ![Min(DOMAIN o)].scheduled = TRUE]

(* OneShotManager::registerHandlerBase *)
RegisterOneShot(o, t, h) ==
    IF t < now \/ (t = now /\ STATISTICCLOCK <= prio) THEN o
    ELSE LET list == IF t \in DOMAIN o THEN o[t] ELSE [handlers |-> <<>>, scheduled |-> FALSE]
         IN  ScheduleNext(With(o, t, [list EXCEPT !.handlers = Append(@, h)]))

AddTo(m, t, s) == With(m, t, {s} \cup IF t \in DOMAIN m THEN m[t] ELSE {})

SetStartTime(e, s, t) ==
    IF t <= now THEN e
    ELSE [e EXCEPT !.oneshots = IF t \in DOMAIN e.starts THEN @ ELSE RegisterOneShot(@, t, "start"),
                   !.starts = AddTo(@, t, s),
                   !.stat[s].enabled = FALSE,
                   !.stat[s].startAtFlag = TRUE]

SetStopTime(e, s, t) ==
    IF t <= now THEN e
    ELSE [e EXCEPT !.oneshots = IF t \in DOMAIN e.stops THEN @ ELSE RegisterOneShot(@, t, "stop"),
                   !.stops = AddTo(@, t, s),
                   !.stat[s].stopAtFlag = TRUE]

(* Mutant of FirstTick: a clock never fires in the cycle that starts it. *)
ScheduleNextCycle(f) == (now \div f) * f + f

(* Clock::schedule for a clock of the statistics' priority. *)
FirstTick(f) ==
    IF prio < STATISTICCLOCK /\ now # 0 /\ now % f = 0 THEN now ELSE (now \div f) * f + f

(* addPeriodicBasedStatistic: one clock for all statistics of a rate. *)
AddPeriodic(e, f) ==
    IF f = 0 \/ f \in DOMAIN e.clocks THEN e
    ELSE [e EXCEPT !.clocks = With(@, f, FirstTick(f))]

(* The common part of registerStatisticWithEngine and reregister... *)
Join(e, s, startat, stopat) ==
    LET c == config[s]
        timed == IF c.mode = "time" /\ ~c.group THEN AddPeriodic(e, c.rate) ELSE e
    IN  SetStopTime(SetStartTime(timed, s, startat), s, stopat)

(* finalizeInitialization: the clock of the group. *)
Finalize(e) == IF GroupRate = 0 THEN e ELSE [e EXCEPT !.groupClock = FirstTick(GroupRate)]

-----------------------------------------------------------------------------
StatInit ==
    /\ config \in [Stats -> Configs]
    /\ \A s \in Stats : config[s].group => config[s].mode = "time"
    /\ order = <<>>
    /\ engine = NoEngine([s \in Stats |-> NewStat(config[s])])
    /\ phase = "build" /\ now = 0 /\ prio = 0 /\ started = FALSE
    /\ rows = [s \in Stats |-> <<>>]
    /\ statCalls = 0 /\ restarts = 0
    /\ regAt = [s \in Stats |-> 0]
    /\ given = [s \in Stats |-> [data |-> Cleared(config[s].type), count |-> 0]]

(* A component registers a statistic, while it is built or, if the output  *)
(* supports it, later.                                                     *)
Register(s) ==
    /\ \/ phase = "build"
       \/ phase = "run" /\ prio = EVENT /\ ~config[s].group
    /\ s \notin Registered
    /\ order' = Append(order, s)
    /\ engine' = Join(engine, s, config[s].startat, config[s].stopat)
    /\ regAt' = [regAt EXCEPT ![s] = now]
    /\ UNCHANGED <<config, phase, now, prio, started, rows, statCalls, restarts, given>>

(* performWireUp ends the construction. *)
WireUpFinished ==
    /\ phase = "build"
    /\ phase' = "init"
    /\ engine' = Finalize(engine)
    /\ UNCHANGED <<config, order, now, prio, started, rows, statCalls, restarts, regAt, given>>

(* prepare_for_run *)
PrepareForRun ==
    /\ phase = "init"
    /\ phase' = "run" /\ prio' = EVENT /\ started' = TRUE
    /\ UNCHANGED <<config, order, engine, now, rows, statCalls, restarts, regAt, given>>

(* Whether what is collected now counts, from the parameters alone: after  *)
(* startat and up to stopat, unless these had passed when the statistic    *)
(* was registered.                                                         *)
Passed(t) == t < now \/ (t = now /\ STATISTICCLOCK < prio)
InWindow(s) ==
    LET c == config[s]
        starts == c.startat > regAt[s]
        stops == c.stopat > regAt[s]
    IN  /\ starts => Passed(c.startat)
        /\ stops /\ Passed(c.stopat) => starts /\ c.stopat < c.startat

(* checkEventForOutput *)
OutputIsDue(s, st) == config[s].mode = "event" /\ st.output >= st.limit /\ st.limit >= 1

(* addData and addDataNTimes *)
AddData(s, n, v) ==
    LET old == engine.stat[s]
        st == [old EXCEPT !.data = AddImpl(config[s].type, @, n, v),
                          !.current = @ + n, !.output = @ + n]
        due == old.enabled /\ OutputIsDue(s, st) /\ started
    IN  /\ phase \in {"init", "run", "finish"}
        /\ phase = "run" => prio = EVENT
        /\ s \in Registered /\ statCalls < MaxCalls
        /\ statCalls' = statCalls + 1
        /\ given' = [given EXCEPT ![s] =
                        IF InWindow(s)
                        THEN [data |-> AddImpl(config[s].type, @.data, n, v), count |-> @.count + n]
                        ELSE @]
        /\ engine' = [engine EXCEPT !.stat[s] =
                        IF ~old.enabled THEN old ELSE IF due THEN AfterOutput(s, st) ELSE st]
        /\ rows' = IF due THEN [rows EXCEPT ![s] = Append(@, RowOf(s, st, "count"))] ELSE rows
        /\ UNCHANGED <<config, order, phase, now, prio, started, restarts, regAt>>

(* performGlobalStatisticOutput, called by a component *)
OutputAll ==
    /\ phase = "run" /\ prio = EVENT /\ statCalls < MaxCalls
    /\ statCalls' = statCalls + 1
    /\ Output(Registered, "asked", engine)
    /\ UNCHANGED <<config, order, phase, now, prio, started, restarts, regAt, given>>

-----------------------------------------------------------------------------
(* handleStatisticEngineClockEvent *)
ClockEvent(f) ==
    /\ phase = "run" /\ prio = STATISTICCLOCK
    /\ f \in DOMAIN engine.clocks /\ engine.clocks[f] = now
    /\ Output({s \in Registered : config[s].mode = "time" /\ config[s].rate = f /\ ~config[s].group},
              "clock", [engine EXCEPT !.clocks[f] = now + f])
    /\ UNCHANGED <<config, order, phase, now, prio, started, statCalls, restarts, regAt, given>>

(* handleGroupClockEvent *)
GroupClockEvent ==
    /\ phase = "run" /\ prio = STATISTICCLOCK
    /\ engine.groupClock = now /\ GroupRate # 0
    /\ Output({s \in Registered : config[s].group}, "clock",
              [engine EXCEPT !.groupClock = now + GroupRate])
    /\ UNCHANGED <<config, order, phase, now, prio, started, statCalls, restarts, regAt, given>>

(* handleStatisticEngineStartTimeEvent and ...StopTimeEvent *)
Handle(e, h) ==
    IF h = "start"
    THEN [e EXCEPT !.stat = [s \in Stats |-> IF s \in e.starts[now]
                                THEN [@[s] EXCEPT !.enabled = TRUE, !.startAtFlag = FALSE] ELSE @[s]],
                   !.starts = Drop(@, now)]
    ELSE [e EXCEPT !.stat = [s \in Stats |-> IF s \in e.stops[now]
                                THEN [@[s] EXCEPT !.enabled = FALSE, !.stopAtFlag = FALSE] ELSE @[s]],
                   !.stops = Drop(@, now)]

(* Mutant of Callback: the next one-shot is not scheduled. *)
CallbackOnly(o) == Drop(o, now)

(* OneShot::execute and OneShotManager::oneshotCallback *)
Callback(o) == ScheduleNext(Drop(o, now))

OneShotDue == now \in DOMAIN engine.oneshots /\ engine.oneshots[now].scheduled

OneShotExecute ==
    /\ phase = "run" /\ prio = STATISTICCLOCK /\ OneShotDue
    /\ LET e == FoldLeft(Handle, engine, engine.oneshots[now].handlers)
       IN  engine' = [e EXCEPT !.oneshots = Callback(@)]
    /\ UNCHANGED <<config, order, phase, now, prio, started, rows, statCalls, restarts, regAt, given>>

-----------------------------------------------------------------------------
NothingDue ==
    /\ \A f \in DOMAIN engine.clocks : engine.clocks[f] # now
    /\ GroupRate # 0 => engine.groupClock # now
    /\ ~OneShotDue

(* The run loop goes on to the next priority or the next time. *)
Advance ==
    /\ phase = "run"
    /\ \/ prio = SYNC /\ prio' = EVENT /\ now' = now
       \/ prio = EVENT /\ prio' = STATISTICCLOCK /\ now' = now
       \/ prio = STATISTICCLOCK /\ NothingDue /\ prio' = EXIT /\ now' = now
       \/ prio = EXIT /\ now < LastTime /\ prio' = SYNC /\ now' = now + 1
    /\ UNCHANGED <<config, order, engine, phase, started, rows, statCalls, restarts, regAt, given>>

(* The factors are written next to the statistic, found by searching the   *)
(* engine's maps, when its flags say that they are there.                  *)
FactorOf(m, s) == IF \E t \in DOMAIN m : s \in m[t] THEN Min({t \in DOMAIN m : s \in m[t]}) ELSE 0
SavedStart(s) == IF engine.stat[s].startAtFlag THEN FactorOf(engine.starts, s) ELSE 0
SavedStop(s) == IF engine.stat[s].stopAtFlag THEN FactorOf(engine.stops, s) ELSE 0

(* reregisterStatisticWithEngine *)
Rejoin(e, s) == Join(e, s, SavedStart(s), SavedStop(s))

(* A checkpoint, and a new job that is restarted from it: the components   *)
(* bring their statistics back, which register themselves again.           *)
Restart ==
    /\ phase = "run" /\ prio = SYNC /\ now \in CheckpointTimes
    /\ restarts < MaxRestarts
    /\ restarts' = restarts + 1
    /\ engine' = Finalize(FoldLeft(Rejoin, NoEngine(engine.stat), order))
    /\ UNCHANGED <<config, order, phase, now, prio, started, rows, statCalls, regAt, given>>

(* The simulation stops, before the events of a time or after all of it.   *)
EndRun ==
    /\ phase = "run" /\ prio \in {SYNC, EXIT}
    /\ phase' = "finish"
    /\ UNCHANGED <<config, order, engine, now, prio, started, rows, statCalls, restarts, regAt, given>>

(* endOfSimulation *)
EndOfSimulation ==
    /\ phase = "finish"
    /\ phase' = "over"
    /\ Output(Registered, "end", engine)
    /\ UNCHANGED <<config, order, now, prio, started, statCalls, restarts, regAt, given>>

Over == phase = "over" /\ UNCHANGED statVars

StatNext ==
    \/ \E s \in Stats : Register(s) \/ \E d \in Data : AddData(s, d[1], d[2])
    \/ \E f \in DOMAIN engine.clocks : ClockEvent(f)
    \/ WireUpFinished \/ PrepareForRun \/ OutputAll \/ GroupClockEvent
    \/ OneShotExecute \/ Advance \/ Restart \/ EndRun \/ EndOfSimulation \/ Over

StatSpec == StatInit /\ [][StatNext]_statVars

-----------------------------------------------------------------------------
(* The fields that add up over rows if the data are cleared in between. *)
Additive(c) ==
    CASE c.type = "accumulator" -> {<<"sum">>, <<"count">>}
      [] c.type = "histogram" -> {<<"sum">>, <<"count">>, <<"below">>, <<"above">>}
                                    \cup {<<"bin", y>> : y \in 0..NumBins - 1}
      [] OTHER -> IF c.reset THEN {} ELSE {<<"unique">>}

ClearedRows(s) == {i \in DOMAIN rows[s] : config[s].reset /\ rows[s][i].why # "end"}
HeldField(s, f) == Fields(config[s].type, engine.stat[s].data, engine.stat[s].current)[f]
Reported(s, f) == HeldField(s, f) + SumFunction([i \in ClearedRows(s) |-> rows[s][i].fields[f]])

GivenIsReported ==
    \A s \in Registered : \A f \in Additive(config[s]) :
        Reported(s, f) = Fields(config[s].type, given[s].data, given[s].count)[f]

(* The bins of a row, and the counts of what lies outside of them, make up its count. *)
BinSum(r) == SumFunction([y \in 0..NumBins - 1 |-> r.fields[<<"bin", y>>]])
BinsAddUp ==
    \A s \in Registered : config[s].type = "histogram" =>
        \A i \in DOMAIN rows[s] : LET r == rows[s][i] IN
            BinSum(r) + r.fields[<<"below">>] + r.fields[<<"above">>] = r.fields[<<"count">>]

(***************************************************************************)
(* What a statistic holds, and has written before it was cleared, is what  *)
(* it was given after its startat and up to its stopat: no item is lost or *)
(* counted twice by outputs of any kind, by one-shots that share a time,   *)
(* or by restarts; and the bins of a histogram account for all of it.      *)
(***************************************************************************)
CollectedExactly == GivenIsReported /\ BinsAddUp

(***************************************************************************)
(* A statistic with a rate is written at every multiple of it from its     *)
(* registration on, once, however often the job is restarted on the way,   *)
(* and no other statistic is written by a clock.                           *)
(***************************************************************************)
RateOf(s) == IF config[s].group THEN GroupRate ELSE config[s].rate
ClockRows(s) == {i \in DOMAIN rows[s] : rows[s][i].why = "clock"}
Written(s) == {rows[s][i].at : i \in ClockRows(s)}
Due(s) == {t \in 1..now : t >= regAt[s] /\ t % RateOf(s) = 0}
WrittenOnTime ==
    \A s \in Registered :
        IF config[s].mode = "time" /\ RateOf(s) # 0
        THEN /\ {t \in Due(s) : Passed(t)} \subseteq Written(s) /\ Written(s) \subseteq Due(s)
             /\ \A i, j \in ClockRows(s) : rows[s][i].at = rows[s][j].at => i = j
        ELSE ClockRows(s) = {}
=============================================================================
