-------------------------- MODULE ParallelRunProofs --------------------------
(***************************************************************************)
(* Proofs about ParallelRun: for every partitioning, every set of link     *)
(* latencies and every behaviour of the components, the lookahead of the   *)
(* two sync objects is safe and the parallel run is a sequential one.      *)
(***************************************************************************)
EXTENDS ParallelRun, WellFoundedInduction, TLAPS

-----------------------------------------------------------------------------
(* Times. *)

(* A set of natural numbers that is not empty has a least element. *)
LEMMA LeastElement ==
    ASSUME NEW S, S \subseteq Nat, S # {}
    PROVE  \E x \in S : \A y \in S : x <= y
<1>1. PICK x \in S : \A y \in S : ~(<<y, x>> \in OpToRel(<, Nat))
  BY NatLessThanWellFounded, WFMin
<1>2. \A y \in S : ~(y < x)
  BY <1>1 DEF OpToRel
<1>. QED  BY <1>2

(* MinTime is a lower bound that is reached, or MAX_SIMTIME_T. *)
LEMMA MinTimeIsLeast ==
    ASSUME NEW S, S \subseteq Time
    PROVE  /\ MinTime(S) \in S \cup {MaxTime}
           /\ MinTime(S) \in Time
           /\ \A s \in S : MinTime(S) <= s
<1>. DEFINE T == S \cup {MaxTime}
<1>1. T \subseteq Nat /\ T # {} /\ T \subseteq Time
  BY TimeAssumption DEF Time
<1>2. \E t \in T : \A s \in T : t <= s
  BY <1>1, LeastElement
<1>3. MinTime(S) = CHOOSE t \in T : \A s \in T : t <= s
  BY DEF MinTime
<1>4. MinTime(S) \in T /\ \A s \in T : MinTime(S) <= s
  BY <1>2, <1>3
<1>. QED  BY <1>1, <1>4

(* The constants as numbers. *)
LEMMA ConstantTypes ==
    /\ MaxTime \in Nat /\ StopAt \in Nat /\ StopAt <= MaxTime
    /\ CkptPeriod \in Nat /\ CkptPeriod <= MaxTime
    /\ MaxDelay \in Nat
    /\ \A t : t \in Time <=> t \in Nat /\ t <= MaxTime
    /\ \A p, q \in Part : Latency[p][q] \in Nat /\ Latency[p][q] <= MaxTime
<1>1. \A p, q \in Part : Latency[p][q] \in Time
  BY LinkAssumption
<1>2. MaxTime \in Nat /\ StopAt \in Time /\ CkptPeriod \in Time /\ MaxDelay \in Nat
  BY TimeAssumption
<1>3. \A t : t \in Time <=> t \in Nat /\ t <= MaxTime
  BY <1>2 DEF Time
<1>. QED  BY <1>1, <1>2, <1>3

(* The two intervals are at most the latency of every link they serve. *)
LEMMA RankPeriodBound ==
    ASSUME SafeConfig
    PROVE  /\ RankPeriod \in Time
           /\ RankPeriod # MaxTime => StopAt + RankPeriod <= MaxTime
           /\ \A p, q \in Part : ~SameRank(p, q) /\ Latency[p][q] # MaxTime =>
                RankPeriod <= Latency[p][q]
<1>. DEFINE low == MinTime(RankLatencies)
<1>1. RankLatencies \subseteq Time
  BY LinkAssumption DEF RankLatencies
<1>2. low \in RankLatencies \cup {MaxTime} /\ low \in Time
  BY <1>1, MinTimeIsLeast
<1>3. \A p, q \in Part : ~SameRank(p, q) => low <= Latency[p][q]
  <2>. SUFFICES ASSUME NEW p \in Part, NEW q \in Part, ~SameRank(p, q)
                PROVE  low <= Latency[p][q]
    OBVIOUS
  <2>1. Latency[p][q] \in RankLatencies
    <3>1. <<p, q>> \in {x \in Part \X Part : ~SameRank(x[1], x[2])}
      OBVIOUS
    <3>. QED  BY <3>1 DEF RankLatencies
  <2>. QED  BY <2>1, <1>1, MinTimeIsLeast
<1>4. low # MaxTime => StopAt + low < MaxTime
  <2>. SUFFICES ASSUME low # MaxTime PROVE StopAt + low < MaxTime
    OBVIOUS
  <2>1. PICK pq \in Part \X Part : low = Latency[pq[1]][pq[2]]
    BY <1>2 DEF RankLatencies
  <2>2. pq = <<pq[1], pq[2]>> /\ pq[1] \in Part /\ pq[2] \in Part
    OBVIOUS
  <2>3. StopAt + Latency[pq[1]][pq[2]] + MaxDelay < MaxTime
    BY <2>1, <2>2 DEF SafeConfig, NoWrap
  <2>4. Latency[pq[1]][pq[2]] = low
    BY <2>1, <2>2
  <2>5. low \in Nat
    BY <1>2, ConstantTypes
  <2>. HIDE DEF low
  <2>. QED  BY <2>3, <2>4, <2>5, ConstantTypes
<1>5. RankPeriod = low \/ (low = MaxTime /\ RankPeriod = CkptPeriod)
  BY DEF RankPeriod
<1>6. StopAt + CkptPeriod < MaxTime
  BY DEF SafeConfig, NoWrap
<1>7. \A p, q \in Part : ~SameRank(p, q) /\ Latency[p][q] # MaxTime =>
            low <= Latency[p][q] /\ low # MaxTime
  <2>. SUFFICES ASSUME NEW p \in Part, NEW q \in Part, ~SameRank(p, q),
                       Latency[p][q] # MaxTime
                PROVE  low <= Latency[p][q] /\ low # MaxTime
    OBVIOUS
  <2>. HIDE DEF low
  <2>. QED  BY <1>2, <1>3, ConstantTypes
<1>. HIDE DEF low
<1>8. CASE RankPeriod = low
  BY <1>2, <1>4, <1>7, <1>8, ConstantTypes
<1>9. CASE low = MaxTime /\ RankPeriod = CkptPeriod
  BY <1>6, <1>7, <1>9, ConstantTypes
<1>. QED  BY <1>5, <1>8, <1>9

LEMMA ThreadPeriodBound ==
    ASSUME SafeConfig, NEW r \in Ranks
    PROVE  /\ ThreadPeriod(r) \in Time
           /\ ThreadPeriod(r) # MaxTime => StopAt + ThreadPeriod(r) <= MaxTime
           /\ \A p, q \in Part : p # q /\ RankOf[p] = r /\ RankOf[q] = r =>
                ThreadPeriod(r) <= Latency[p][q]
<1>. DEFINE low == ThreadPeriod(r)
<1>1. ThreadLatencies(r) \subseteq Time
  BY LinkAssumption DEF ThreadLatencies
<1>2. low \in ThreadLatencies(r) \cup {MaxTime} /\ low \in Time
  BY <1>1, MinTimeIsLeast DEF ThreadPeriod
<1>3. \A p, q \in Part : p # q /\ RankOf[p] = r /\ RankOf[q] = r => low <= Latency[p][q]
  <2>. SUFFICES ASSUME NEW p \in Part, NEW q \in Part, p # q, RankOf[p] = r, RankOf[q] = r
                PROVE  low <= Latency[p][q]
    OBVIOUS
  <2>1. Latency[p][q] \in ThreadLatencies(r)
    <3>1. <<p, q>> \in {x \in Part \X Part :
                          x[1] # x[2] /\ RankOf[x[1]] = r /\ RankOf[x[2]] = r}
      OBVIOUS
    <3>. QED  BY <3>1 DEF ThreadLatencies
  <2>. QED  BY <2>1, <1>1, MinTimeIsLeast DEF ThreadPeriod
<1>4. low # MaxTime => StopAt + low < MaxTime
  <2>. SUFFICES ASSUME low # MaxTime PROVE StopAt + low < MaxTime
    OBVIOUS
  <2>1. PICK pq \in Part \X Part : low = Latency[pq[1]][pq[2]]
    BY <1>2 DEF ThreadLatencies
  <2>2. pq = <<pq[1], pq[2]>> /\ pq[1] \in Part /\ pq[2] \in Part
    OBVIOUS
  <2>3. StopAt + Latency[pq[1]][pq[2]] + MaxDelay < MaxTime
    BY <2>1, <2>2 DEF SafeConfig, NoWrap
  <2>4. Latency[pq[1]][pq[2]] = low
    BY <2>1, <2>2
  <2>5. low \in Nat
    BY <1>2, ConstantTypes
  <2>. HIDE DEF low
  <2>. QED  BY <2>3, <2>4, <2>5, ConstantTypes
<1>. QED  BY <1>2, <1>3, <1>4, ConstantTypes

(* Sums of a time the run reaches and an interval do not wrap. *)
LEMMA NextSyncBounds ==
    ASSUME SafeConfig, NEW min \in Time, min <= StopAt
    PROVE  /\ NextRankSync(min) \in Time
           /\ min <= NextRankSync(min) /\ NextRankSync(min) <= min + RankPeriod
           /\ \A r \in Ranks :
                /\ NextThreadSync(r, min) \in Time
                /\ min <= NextThreadSync(r, min)
                /\ NextThreadSync(r, min) <= min + ThreadPeriod(r)
                /\ ThreadPeriod(r) = MaxTime => NextThreadSync(r, min) = MaxTime
<1>. USE ConstantTypes
<1>1. RankPeriod \in Time /\ (RankPeriod # MaxTime => StopAt + RankPeriod <= MaxTime)
  BY RankPeriodBound
<1>2. /\ NextRankSync(min) \in Time
      /\ min <= NextRankSync(min) /\ NextRankSync(min) <= min + RankPeriod
  BY <1>1 DEF NextRankSync, Add
<1>3. ASSUME NEW r \in Ranks
      PROVE  /\ NextThreadSync(r, min) \in Time
             /\ min <= NextThreadSync(r, min)
             /\ NextThreadSync(r, min) <= min + ThreadPeriod(r)
             /\ ThreadPeriod(r) = MaxTime => NextThreadSync(r, min) = MaxTime
  <2>1. /\ ThreadPeriod(r) \in Time
        /\ ThreadPeriod(r) # MaxTime => StopAt + ThreadPeriod(r) <= MaxTime
    BY ThreadPeriodBound
  <2>2. ~DirectLinks
    BY DEF SafeConfig
  <2>. QED  BY <2>1, <2>2 DEF NextThreadSync, Add
<1>. QED  BY <1>2, <1>3

(* computeNextInsert picks the earliest of the three. *)
LEMMA NextSyncIsEarliest ==
    ASSUME NEW a \in Time, NEW b \in Time, NEW c \in Time
    PROVE  /\ NextSyncTime(a, b, c) \in Time
           /\ NextSyncTime(a, b, c) \in {a, b, c}
           /\ NextSyncTime(a, b, c) <= a
           /\ NextSyncTime(a, b, c) <= b
           /\ NextSyncTime(a, b, c) <= c
           /\ NextSyncType(a, b, c) \in {"RANK", "THREAD"}
           /\ NextSyncType(a, b, c) = "RANK" => NextSyncTime(a, b, c) \in {a, c}
           /\ ~SingleRank /\ NextSyncType(a, b, c) = "THREAD" => b < a
  BY ConstantTypes DEF NextSyncTime, NextSyncType

(* What an event handler sends arrives a link latency later or more. *)
LEMMA SendableBounds ==
    ASSUME SafeConfig, NEW p \in Part, NEW t \in Time, t < StopAt,
           NEW f \in Sendable(p, t)
    PROVE  /\ f \in Event /\ f.src = p
           /\ t <= f.time
           /\ Latency[p][f.dst] # MaxTime
           /\ t + Latency[p][f.dst] <= f.time
<1>. USE ConstantTypes
<1>1. PICK q \in Part, d \in 0 .. MaxDelay :
        /\ Latency[p][q] # MaxTime
        /\ f = [src |-> p, dst |-> q, time |-> Add(t, Latency[p][q] + d)]
  BY DEF Sendable
<1>2. StopAt + Latency[p][q] + MaxDelay < MaxTime
  BY <1>1 DEF SafeConfig, NoWrap
<1>3. Add(t, Latency[p][q] + d) = t + Latency[p][q] + d /\ d \in Nat /\ d <= MaxDelay
  BY <1>2 DEF Add
<1>4. f.time = t + Latency[p][q] + d /\ f.src = p /\ f.dst = q
  BY <1>1, <1>3
<1>5. f.time \in Time
  BY <1>2, <1>3, <1>4
<1>. QED  BY <1>1, <1>3, <1>4, <1>5 DEF Event

(* The earliest activity is a lower bound, and above every lower bound. *)
LEMMA MinActivityBounds ==
    ASSUME NEW P, P \subseteq Part, NEW newTv \in [Part -> SUBSET Event]
    PROVE  /\ MinActivity(P, newTv) \in Time
           /\ MinActivity(P, newTv) <= StopAt
           /\ \A p \in P : \A e \in newTv[p] : MinActivity(P, newTv) <= e.time
           /\ \A t \in Time : t <= StopAt /\ (\A p \in P : \A e \in newTv[p] : t <= e.time)
                => t <= MinActivity(P, newTv)
<1>. DEFINE S == {StopAt} \cup {e.time : e \in UNION {newTv[p] : p \in P}}
<1>1. S \subseteq Time
  BY TimeAssumption DEF Event
<1>2. MinActivity(P, newTv) = MinTime(S)
  BY DEF MinActivity
<1>3. /\ MinTime(S) \in S \cup {MaxTime} /\ MinTime(S) \in Time
      /\ \A s \in S : MinTime(S) <= s
  BY <1>1, MinTimeIsLeast
<1>4. StopAt \in S /\ \A p \in P : \A e \in newTv[p] : e.time \in S
  OBVIOUS
<1>5. ASSUME NEW t \in Time, t <= StopAt, \A p \in P : \A e \in newTv[p] : t <= e.time
      PROVE  t <= MinTime(S)
  <2>1. \A s \in S : t <= s
    BY <1>5
  <2>2. t <= MaxTime
    BY ConstantTypes
  <2>. QED  BY <1>3, <2>1, <2>2
<1>. HIDE DEF S
<1>. QED  BY <1>2, <1>3, <1>4, <1>5

-----------------------------------------------------------------------------
(* The inductive invariant. *)

(***************************************************************************)
(* The facts about a state that every action uses: all clocks are times,   *)
(* the SyncManager is inserted no later than any sync that is due, and a   *)
(* queued event is not due before its destination's SyncManager.           *)
(***************************************************************************)
LEMMA StateFacts ==
    ASSUME IndInv
    PROVE  /\ \A p \in Part :
                /\ RankOf[p] \in Ranks
                /\ now[p] \in Time /\ syncAt[p] \in Time
                /\ last[p] \in Time \cup {-1}
                /\ rankNext[RankOf[p]] \in Time /\ threadNext[p] \in Time
                /\ ckptNext[p] \in Time
                /\ syncAt[p] <= rankNext[RankOf[p]]
                /\ syncAt[p] <= threadNext[p] /\ syncAt[p] <= ckptNext[p]
                /\ \A e \in tv[p] : e \in Event
           /\ \A e \in Event : e.time \in Time /\ e.src \in Part /\ e.dst \in Part
           /\ \A e \in threadQ \cup rankQ : e \in Event /\ now[e.dst] <= syncAt[e.dst]
                                            /\ syncAt[e.dst] <= e.time
<1>1. \A p \in Part :
        /\ RankOf[p] \in Ranks
        /\ now[p] \in Time /\ syncAt[p] \in Time
        /\ last[p] \in Time \cup {-1}
        /\ rankNext[RankOf[p]] \in Time /\ threadNext[p] \in Time
        /\ ckptNext[p] \in Time
        /\ \A e \in tv[p] : e \in Event
  BY PartAssumption DEF IndInv, TypeOK
<1>2. \A p \in Part :
        /\ syncAt[p] <= rankNext[RankOf[p]]
        /\ syncAt[p] <= threadNext[p] /\ syncAt[p] <= ckptNext[p]
  BY <1>1, NextSyncIsEarliest DEF IndInv, ScheduleInv
<1>3. \A e \in Event : e.time \in Time /\ e.src \in Part /\ e.dst \in Part
  BY DEF Event
<1>4. ASSUME NEW e \in threadQ \cup rankQ
      PROVE  e \in Event /\ now[e.dst] <= syncAt[e.dst] /\ syncAt[e.dst] <= e.time
  <2>1. e \in Event
    BY DEF IndInv, TypeOK
  <2>2. now[e.dst] <= syncAt[e.dst]
    BY <1>3, <2>1 DEF IndInv, ClockInv
  <2>3. threadNext[e.dst] <= e.time \/ rankNext[RankOf[e.dst]] <= e.time
    BY DEF IndInv, ThreadLookahead, RankLookahead
  <2>. QED  BY <1>1, <1>2, <1>3, <2>1, <2>2, <2>3, ConstantTypes
<1>. QED  BY <1>1, <1>2, <1>3, <1>4

LEMMA InitIndInv == ASSUME SafeConfig, Init PROVE IndInv
<1>. USE ConstantTypes, PartAssumption DEF Init
<1>1. RankPeriod \in Time /\ FirstCheckpoint \in Time
  BY RankPeriodBound DEF FirstCheckpoint
<1>2. \A r \in Ranks : FirstThreadSync(r) = ThreadPeriod(r) /\ ThreadPeriod(r) \in Time
  BY ThreadPeriodBound DEF FirstThreadSync, SafeConfig
<1>3. \A p \in Part :
        LET t == FirstThreadSync(RankOf[p])
        IN  /\ NextSyncTime(RankPeriod, t, FirstCheckpoint) \in Time
            /\ NextSyncType(RankPeriod, t, FirstCheckpoint) \in {"RANK", "THREAD"}
  BY <1>1, <1>2, NextSyncIsEarliest
<1>4. TypeOK
  <2>1. tv \in [Part -> SUBSET Event] /\ threadQ \subseteq Event /\ rankQ \subseteq Event
    BY SetupAssumption
  <2>2. now \in [Part -> Time] /\ last \in [Part -> Time \cup {-1}]
    OBVIOUS
  <2>3. syncAt \in [Part -> Time] /\ syncType \in [Part -> {"RANK", "THREAD"}]
    BY <1>3
  <2>4. phase \in [Part -> {"run", "sync", "ended"}] /\ fault \in [Part -> BOOLEAN]
    OBVIOUS
  <2>5. /\ rankNext \in [Ranks -> Time] /\ threadNext \in [Part -> Time]
        /\ ckptNext \in [Part -> Time]
    BY <1>1, <1>2
  <2>. QED  BY <2>1, <2>2, <2>3, <2>4, <2>5 DEF TypeOK
<1>5. NoTimeFault
  BY DEF NoTimeFault
<1>6. ClockInv
  <2>1. \A p \in Part : \A e \in tv[p] : e.dst = p /\ e.time \in Time
    BY SetupAssumption DEF Event
  <2>2. \A p \in Part : syncAt[p] \in Time
    BY <1>4 DEF TypeOK
  <2>. QED  BY <2>1, <2>2 DEF ClockInv
<1>7. AgreeInv
  BY DEF AgreeInv, SameRank, FirstCheckpoint
<1>8. ScheduleInv
  BY DEF ScheduleInv
<1>9. ThreadLookahead
  <2>1. \A p \in Part : \A e \in tv[p] : e.time \in Time
    BY SetupAssumption DEF Event
  <2>. QED  BY <1>2, <2>1 DEF ThreadLookahead
<1>10. RankLookahead
  <2>1. \A p \in Part : \A e \in tv[p] : e.time \in Time
    BY SetupAssumption DEF Event
  <2>. QED  BY <1>1, <2>1 DEF RankLookahead
<1>. QED  BY <1>4, <1>5, <1>6, <1>7, <1>8, <1>9, <1>10 DEF IndInv

(* An event handler of p runs. *)
LEMMA ExecuteEventIndInv ==
    ASSUME SafeConfig, IndInv, NEW p \in Part, NEW e, NEW S, ExecuteEvent(p, e, S)
    PROVE  IndInv'
<1>. USE ConstantTypes
<1>1. /\ e \in tv[p] /\ e \in Event /\ e.time \in Time
      /\ e.time < syncAt[p] /\ e.time < StopAt
      /\ \A f \in tv[p] : e.time <= f.time
      /\ now[p] <= e.time
  BY StateFacts DEF ExecuteEvent, EventIsFront, IndInv, ClockInv
<1>2. \A f \in S : /\ f \in Event /\ f.src = p /\ f.dst \in Part /\ f.time \in Time
                   /\ e.time <= f.time /\ Latency[p][f.dst] # MaxTime
                   /\ e.time + Latency[p][f.dst] <= f.time
  BY <1>1, SendableBounds DEF ExecuteEvent, Event
<1>3. ~DirectLinks
  BY DEF SafeConfig
<1>4. /\ now' = [now EXCEPT ![p] = e.time]
      /\ last' = [last EXCEPT ![p] = e.time]
      /\ \A q \in Part : ~fault'[q]
  <2>1. now' = [now EXCEPT ![p] = e.time] /\ last' = [last EXCEPT ![p] = e.time]
    BY DEF ExecuteEvent, AdvanceTo
  <2>2. ~(e.time < now[p])
    BY <1>1, StateFacts
  <2>3. fault' = [fault EXCEPT ![p] = e.time < now[p]]
    BY DEF ExecuteEvent, AdvanceTo
  <2>4. \A q \in Part : ~fault'[q]
    BY <2>2, <2>3 DEF IndInv, NoTimeFault, TypeOK
  <2>. QED  BY <2>1, <2>4
<1>5. /\ UNCHANGED <<syncAt, syncType, phase, rankNext, threadNext, ckptNext>>
      /\ phase[p] = "run"
  BY DEF ExecuteEvent, Running
<1>6. /\ \A q \in Part : \A f \in tv'[q] : f \in tv[q] \/ (q = p /\ f \in S /\ f.dst = p)
      /\ \A q \in Part : tv'[q] \subseteq Event
  BY <1>2, <1>3, StateFacts DEF ExecuteEvent, ToTimeVortex
<1>7. /\ \A f \in threadQ' : f \in threadQ
            \/ (f \in S /\ f.dst # p /\ SameRank(p, f.dst))
      /\ \A f \in rankQ' : f \in rankQ \/ (f \in S /\ ~SameRank(p, f.dst))
  BY <1>2 DEF ExecuteEvent, ToThreadQueue, ToRankQueue, ToTimeVortex
<1>8. TypeOK'
  <2>1. tv' \in [Part -> SUBSET Event]
    BY <1>6 DEF ExecuteEvent
  <2>2. threadQ' \subseteq Event /\ rankQ' \subseteq Event
    BY <1>2, <1>7 DEF IndInv, TypeOK
  <2>3. fault' \in [Part -> BOOLEAN]
    BY DEF ExecuteEvent, AdvanceTo, IndInv, TypeOK
  <2>. QED  BY <1>1, <1>4, <1>5, <2>1, <2>2, <2>3 DEF IndInv, TypeOK
<1>9. NoTimeFault'
  BY <1>4 DEF NoTimeFault
<1>10. ClockInv'
  <2>1. \A q \in Part : now'[q] = (IF q = p THEN e.time ELSE now[q])
                     /\ last'[q] = (IF q = p THEN e.time ELSE last[q])
    BY <1>4 DEF IndInv, TypeOK
  <2>2. \A q \in Part : \A f \in tv'[q] : f.dst = q /\ now'[q] <= f.time
    BY <1>1, <1>2, <1>6, <2>1 DEF IndInv, ClockInv
  <2>3. \A q \in Part :
        /\ last'[q] <= now'[q] /\ last'[q] < syncAt'[q]
        /\ now'[q] <= StopAt /\ now'[q] <= syncAt'[q]
        /\ phase'[q] = "sync" => now'[q] = syncAt'[q]
    BY <1>1, <1>5, <2>1, StateFacts DEF IndInv, ClockInv
  <2>. QED  BY <2>2, <2>3 DEF ClockInv
<1>11. AgreeInv' /\ ScheduleInv'
  BY <1>5 DEF IndInv, AgreeInv, ScheduleInv
<1>12. ThreadLookahead'
  <2>1. threadNext[p] <= e.time + ThreadPeriod(RankOf[p])
    BY <1>1 DEF IndInv, ThreadLookahead
  <2>2. \A q \in Part : \A f \in tv'[q] : threadNext[q] <= f.time + ThreadPeriod(RankOf[q])
    <3>. SUFFICES ASSUME NEW q \in Part, NEW f \in tv'[q], f \in S, q = p
                  PROVE  threadNext[q] <= f.time + ThreadPeriod(RankOf[q])
      BY <1>6 DEF IndInv, ThreadLookahead
    <3>1. ThreadPeriod(RankOf[p]) \in Time
      BY StateFacts, ThreadPeriodBound
    <3>. QED  BY <1>1, <1>2, <2>1, <3>1, StateFacts
  <2>3. \A f \in threadQ' : SameRank(f.src, f.dst) /\ threadNext[f.dst] <= f.time
    <3>. SUFFICES ASSUME NEW f \in S, f.dst # p, SameRank(p, f.dst)
                  PROVE  SameRank(f.src, f.dst) /\ threadNext[f.dst] <= f.time
      BY <1>7 DEF IndInv, ThreadLookahead
    <3>1. threadNext[f.dst] = threadNext[p]
      BY <1>2 DEF IndInv, AgreeInv
    <3>2. ThreadPeriod(RankOf[p]) <= Latency[p][f.dst] /\ ThreadPeriod(RankOf[p]) \in Time
      BY <1>2, StateFacts, ThreadPeriodBound DEF SameRank
    <3>. QED  BY <1>1, <1>2, <2>1, <3>1, <3>2, StateFacts
  <2>. QED  BY <1>5, <2>2, <2>3 DEF IndInv, ThreadLookahead
<1>13. RankLookahead'
  <2>1. rankNext[RankOf[p]] <= e.time + RankPeriod /\ RankPeriod \in Time
    BY <1>1, RankPeriodBound DEF IndInv, RankLookahead
  <2>2. \A q \in Part : rankNext[RankOf[q]] = rankNext[RankOf[p]]
    BY StateFacts DEF IndInv, AgreeInv
  <2>3. \A f \in S : rankNext[RankOf[f.dst]] <= f.time + RankPeriod
    BY <1>1, <1>2, <2>1, <2>2, StateFacts
  <2>4. \A f \in S : ~SameRank(p, f.dst) => rankNext[RankOf[f.dst]] <= f.time
    <3>. SUFFICES ASSUME NEW f \in S, ~SameRank(p, f.dst)
                  PROVE  rankNext[RankOf[f.dst]] <= f.time
      OBVIOUS
    <3>1. RankPeriod <= Latency[p][f.dst]
      BY <1>2, RankPeriodBound
    <3>2. rankNext[RankOf[f.dst]] = rankNext[RankOf[p]]
      BY <1>2, <2>2
    <3>. QED  BY <1>1, <1>2, <2>1, <3>1, <3>2, StateFacts
  <2>5. \A q \in Part : \A f \in tv'[q] : rankNext[RankOf[q]] <= f.time + RankPeriod
    BY <1>6, <2>3 DEF IndInv, RankLookahead
  <2>6. \A f \in threadQ' : rankNext[RankOf[f.dst]] <= f.time + RankPeriod
    BY <1>7, <2>3 DEF IndInv, RankLookahead
  <2>7. \A f \in rankQ' : ~SameRank(f.src, f.dst) /\ rankNext[RankOf[f.dst]] <= f.time
    BY <1>2, <1>7, <2>4 DEF IndInv, RankLookahead
  <2>. QED  BY <1>5, <2>5, <2>6, <2>7 DEF RankLookahead
<1>. QED  BY <1>8, <1>9, <1>10, <1>11, <1>12, <1>13 DEF IndInv

(* The StopAction of p is executed, or its SyncManager is popped. *)
LEMMA StopOrEnterIndInv ==
    ASSUME SafeConfig, IndInv, NEW p \in Part, ExecuteStop(p) \/ EnterSync(p)
    PROVE  IndInv'
<1>. USE ConstantTypes
<1>1. PICK t \in Time : AdvanceTo(p, t) /\ t <= StopAt /\ t <= syncAt[p]
                     /\ (phase'[p] = "sync" => t = syncAt[p])
                     /\ \A e \in tv[p] : t <= e.time
  <2>1. CASE ExecuteStop(p)
    <3>1. /\ \A e \in tv[p] : StopAt <= e.time
          /\ ~(syncAt[p] <= StopAt /\ \A e \in tv[p] : syncAt[p] <= e.time)
      BY <2>1 DEF ExecuteStop, StopIsFront, SyncIsFront
    <3>2. StopAt < syncAt[p]
      BY <3>1, StateFacts
    <3>3. phase'[p] = "ended" /\ AdvanceTo(p, StopAt)
      BY <2>1 DEF ExecuteStop, IndInv, TypeOK
    <3>4. StopAt \in Time
      BY TimeAssumption
    <3>5. StopAt <= syncAt[p]
      BY <3>2, StateFacts
    <3>. QED  BY <3>1, <3>3, <3>4, <3>5
  <2>2. CASE EnterSync(p)
    <3>1. /\ syncAt[p] <= StopAt /\ \A e \in tv[p] : syncAt[p] <= e.time
          /\ AdvanceTo(p, syncAt[p])
      BY <2>2 DEF EnterSync, SyncIsFront
    <3>. QED  BY <3>1, StateFacts
  <2>. QED  BY <2>1, <2>2
<1>2. UNCHANGED <<last, tv, threadQ, rankQ, syncAt, syncType, rankNext, threadNext, ckptNext>>
  BY DEF ExecuteStop, EnterSync
<1>3. /\ now' = [now EXCEPT ![p] = t] /\ fault' = [fault EXCEPT ![p] = t < now[p]]
      /\ now[p] <= t
  <2>1. now[p] <= t
    <3>1. CASE ExecuteStop(p)
      BY <1>1, <3>1, StateFacts DEF ExecuteStop, AdvanceTo, IndInv, ClockInv, TypeOK
    <3>2. CASE EnterSync(p)
      BY <1>1, <3>2, StateFacts DEF EnterSync, AdvanceTo, IndInv, ClockInv, TypeOK
    <3>. QED  BY <3>1, <3>2
  <2>. QED  BY <1>1, <2>1 DEF AdvanceTo
<1>4. \A q \in Part : ~fault'[q]
  <2>1. ~(t < now[p])
    BY <1>3, StateFacts
  <2>. QED  BY <1>3, <2>1 DEF IndInv, NoTimeFault, TypeOK
<1>5. TypeOK'
  <2>1. phase' \in [Part -> {"run", "sync", "ended"}]
    BY DEF ExecuteStop, EnterSync, IndInv, TypeOK
  <2>2. fault' \in [Part -> BOOLEAN]
    BY <1>3 DEF IndInv, TypeOK
  <2>. QED  BY <1>2, <1>3, <2>1, <2>2 DEF IndInv, TypeOK
<1>6. ClockInv'
  <2>1. \A q \in Part : now'[q] = (IF q = p THEN t ELSE now[q])
    BY <1>3 DEF IndInv, TypeOK
  <2>2. \A q \in Part : q # p => phase'[q] = phase[q]
    BY DEF ExecuteStop, EnterSync, IndInv, TypeOK
  <2>3. last[p] <= t
    BY <1>3, StateFacts DEF IndInv, ClockInv
  <2>. QED  BY <1>1, <1>2, <2>1, <2>2, <2>3, StateFacts DEF IndInv, ClockInv
<1>7. NoTimeFault'
  BY <1>4 DEF NoTimeFault
<1>8. AgreeInv' /\ ScheduleInv' /\ ThreadLookahead' /\ RankLookahead'
  BY <1>2 DEF IndInv, AgreeInv, ScheduleInv, ThreadLookahead, RankLookahead
<1>. QED  BY <1>5, <1>6, <1>7, <1>8 DEF IndInv

(* The time of the next checkpoint moves forward and does not wrap. *)
LEMMA CheckCheckpointBounds ==
    ASSUME SafeConfig, IndInv, NEW p \in Part
    PROVE  /\ CheckCheckpoint(p) \in Time
           /\ ckptNext[p] <= CheckCheckpoint(p)
           /\ CkptPeriod = 0 => CheckCheckpoint(p) = MaxTime
<1>. USE ConstantTypes
<1>1. now[p] \in Time /\ ckptNext[p] \in Time /\ now[p] <= StopAt
  BY StateFacts DEF IndInv, ClockInv
<1>2. StopAt + CkptPeriod < MaxTime
  BY DEF SafeConfig, NoWrap
<1>3. CkptPeriod = 0 => ckptNext[p] = MaxTime
  BY DEF IndInv, AgreeInv
<1>. QED  BY <1>1, <1>2, <1>3 DEF CheckCheckpoint, Add

(* All partitions stand at one time when a RANK sync is executed. *)
LEMMA RankSyncTime ==
    ASSUME IndInv, NEW p \in Part, NEW q \in Part,
           syncType[p] = "RANK", syncType[q] = "RANK"
    PROVE  syncAt[p] = syncAt[q]
<1>. USE ConstantTypes
<1>1. rankNext[RankOf[p]] = rankNext[RankOf[q]] /\ ckptNext[p] = ckptNext[q]
  BY StateFacts DEF IndInv, AgreeInv
<1>2. /\ syncAt[p] \in {rankNext[RankOf[p]], ckptNext[p]}
      /\ syncAt[q] \in {rankNext[RankOf[q]], ckptNext[q]}
  BY StateFacts, NextSyncIsEarliest DEF IndInv, ScheduleInv
<1>. QED  BY <1>1, <1>2, StateFacts

(* Delivering events keeps every TimeVortex ahead of its clock. *)
LEMMA DeliverFacts ==
    ASSUME IndInv, NEW Q, Q \subseteq threadQ \cup rankQ
    PROVE  /\ Deliver(Q) \in [Part -> SUBSET Event]
           /\ \A p \in Part : \A e \in Deliver(Q)[p] :
                /\ e.dst = p /\ now[p] <= e.time /\ e.time \in Time
                /\ e \in tv[p] \/ e \in Q
<1>1. \A p \in Part : Deliver(Q)[p] = tv[p] \cup {e \in Q : e.dst = p}
  BY DEF Deliver
<1>2. Deliver(Q) \in [Part -> SUBSET Event]
  BY StateFacts DEF Deliver
<1>3. ASSUME NEW p \in Part, NEW e \in Deliver(Q)[p]
      PROVE  /\ e.dst = p /\ now[p] <= e.time /\ e.time \in Time
             /\ e \in tv[p] \/ e \in Q
  <2>1. CASE e \in tv[p]
    BY <2>1, StateFacts DEF IndInv, ClockInv
  <2>2. CASE e \in Q /\ e.dst = p
    BY <2>2, StateFacts, ConstantTypes
  <2>. QED  BY <1>1, <2>1, <2>2
<1>. QED  BY <1>2, <1>3

LEMMA RankSyncIndInv ==
    ASSUME SafeConfig, IndInv, RankSyncExecute
    PROVE  IndInv'
<1>. USE ConstantTypes
<1>. DEFINE newTv == Deliver(threadQ \cup rankQ)
            minAll == MinActivity(Part, newTv)
            minOf(p) == MinActivity(PartsOf(RankOf[p]), newTv)
            nextRank == NextRankSync(minAll)
            nextThread == [p \in Part |-> NextThreadSync(RankOf[p], minOf(p))]
            nextCkpt == [p \in Part |-> CheckCheckpoint(p)]
<1>1. /\ tv' = newTv /\ threadQ' = {} /\ rankQ' = {}
      /\ rankNext' = [r \in Ranks |-> nextRank]
      /\ threadNext' = nextThread /\ ckptNext' = nextCkpt
      /\ syncAt' = [p \in Part |-> NextSyncTime(nextRank, nextThread[p], nextCkpt[p])]
      /\ syncType' = [p \in Part |-> NextSyncType(nextRank, nextThread[p], nextCkpt[p])]
      /\ phase' = [p \in Part |-> "run"]
      /\ UNCHANGED <<now, last, fault>>
  BY DEF RankSyncExecute, LeaveSync
<1>2. \A p \in Part : phase[p] = "sync" /\ syncType[p] = "RANK" /\ now[p] = syncAt[p]
  BY DEF RankSyncExecute, AllInSync, IndInv, ClockInv
<1>3. \A p, q \in Part : now[p] = now[q]
  BY <1>2, RankSyncTime
<1>4. /\ newTv \in [Part -> SUBSET Event]
      /\ \A p \in Part : \A e \in newTv[p] :
            e.dst = p /\ now[p] <= e.time /\ e.time \in Time
  BY DeliverFacts
<1>. HIDE DEF newTv
<1>5. /\ minAll \in Time /\ minAll <= StopAt
      /\ \A p \in Part : now[p] <= minAll
      /\ \A p \in Part : \A e \in newTv[p] : minAll <= e.time
  <2>1. /\ minAll \in Time /\ minAll <= StopAt
        /\ \A p \in Part : \A e \in newTv[p] : minAll <= e.time
    BY <1>4, MinActivityBounds
  <2>2. ASSUME NEW p \in Part PROVE now[p] <= minAll
    <3>1. now[p] \in Time /\ now[p] <= StopAt
      BY StateFacts DEF IndInv, ClockInv
    <3>2. \A q \in Part : \A e \in newTv[q] : now[p] <= e.time
      BY <1>3, <1>4
    <3>. QED  BY <1>4, <3>1, <3>2, MinActivityBounds
  <2>. QED  BY <2>1, <2>2
<1>6. ASSUME NEW p \in Part
      PROVE  /\ minOf(p) \in Time /\ minOf(p) <= StopAt /\ now[p] <= minOf(p)
             /\ \A e \in newTv[p] : minOf(p) <= e.time
  <2>1. PartsOf(RankOf[p]) \subseteq Part /\ p \in PartsOf(RankOf[p])
    BY DEF PartsOf
  <2>2. now[p] \in Time /\ now[p] <= StopAt
    BY StateFacts DEF IndInv, ClockInv
  <2>3. \A q \in PartsOf(RankOf[p]) : \A e \in newTv[q] : now[p] <= e.time
    BY <1>3, <1>4, <2>1
  <2>. QED  BY <1>4, <2>1, <2>2, <2>3, MinActivityBounds
<1>. HIDE DEF minAll, minOf
<1>7. /\ nextRank \in Time /\ minAll <= nextRank /\ nextRank <= minAll + RankPeriod
      /\ RankPeriod \in Time
  BY <1>5, NextSyncBounds, RankPeriodBound
<1>8. \A p \in Part :
        /\ RankOf[p] \in Ranks
        /\ ThreadPeriod(RankOf[p]) \in Time
        /\ nextThread[p] \in Time
        /\ minOf(p) <= nextThread[p]
        /\ nextThread[p] <= minOf(p) + ThreadPeriod(RankOf[p])
        /\ ThreadPeriod(RankOf[p]) = MaxTime => nextThread[p] = MaxTime
  BY <1>6, NextSyncBounds, StateFacts, ThreadPeriodBound
<1>9. \A p \in Part : /\ nextCkpt[p] \in Time /\ ckptNext[p] <= nextCkpt[p]
                      /\ CkptPeriod = 0 => nextCkpt[p] = MaxTime
  BY CheckCheckpointBounds
<1>10. \A p, q \in Part : nextCkpt[p] = nextCkpt[q]
  BY <1>3 DEF CheckCheckpoint, IndInv, AgreeInv
<1>11. \A p, q \in Part : SameRank(p, q) => nextThread[p] = nextThread[q]
  BY DEF SameRank, minOf
<1>. HIDE DEF nextRank, nextThread, nextCkpt
<1>12. \A p \in Part : /\ syncAt'[p] \in Time /\ now[p] <= syncAt'[p]
                       /\ syncType'[p] \in {"RANK", "THREAD"}
  <2>. SUFFICES ASSUME NEW p \in Part
                PROVE  /\ syncAt'[p] \in Time /\ now[p] <= syncAt'[p]
                       /\ syncType'[p] \in {"RANK", "THREAD"}
    OBVIOUS
  <2>1. /\ syncAt'[p] = NextSyncTime(nextRank, nextThread[p], nextCkpt[p])
        /\ syncType'[p] = NextSyncType(nextRank, nextThread[p], nextCkpt[p])
    BY <1>1
  <2>2. now[p] <= nextRank /\ now[p] <= nextThread[p] /\ now[p] <= nextCkpt[p]
    BY <1>2, <1>5, <1>6, <1>7, <1>8, <1>9, StateFacts
  <2>. QED  BY <1>7, <1>8, <1>9, <2>1, <2>2, NextSyncIsEarliest
<1>13. TypeOK'
  <2>1. syncAt' \in [Part -> Time] /\ syncType' \in [Part -> {"RANK", "THREAD"}]
    BY <1>1, <1>12
  <2>2. tv' \in [Part -> SUBSET Event] /\ phase' \in [Part -> {"run", "sync", "ended"}]
    BY <1>1, <1>4
  <2>3. rankNext' \in [Ranks -> Time]
    BY <1>1, <1>7
  <2>4. threadNext' \in [Part -> Time]
    BY <1>1, <1>8 DEF nextThread
  <2>5. ckptNext' \in [Part -> Time]
    BY <1>1, <1>9 DEF nextCkpt
  <2>6. threadQ' \subseteq Event /\ rankQ' \subseteq Event
    BY <1>1
  <2>7. now' \in [Part -> Time] /\ last' \in [Part -> Time \cup {-1}]
        /\ fault' \in [Part -> BOOLEAN]
    BY <1>1 DEF IndInv, TypeOK
  <2>. QED  BY <2>1, <2>2, <2>3, <2>4, <2>5, <2>6, <2>7 DEF TypeOK
<1>14. NoTimeFault'
  BY <1>1 DEF IndInv, NoTimeFault
<1>15. ClockInv'
  <2>1. \A p \in Part : last[p] < syncAt'[p]
    BY <1>2, <1>12, StateFacts DEF IndInv, ClockInv
  <2>. QED  BY <1>1, <1>4, <1>12, <2>1 DEF IndInv, ClockInv
<1>16. AgreeInv'
  BY <1>1, <1>9, <1>10, <1>11 DEF AgreeInv
<1>17. ScheduleInv'
  BY <1>1, <1>8 DEF ScheduleInv
<1>18. ThreadLookahead'
  <2>1. \A p \in Part : \A e \in newTv[p] :
            nextThread[p] <= e.time + ThreadPeriod(RankOf[p])
    BY <1>4, <1>6, <1>8
  <2>. QED  BY <1>1, <1>8, <2>1 DEF ThreadLookahead
<1>19. RankLookahead'
  <2>1. \A p \in Part : \A e \in newTv[p] : nextRank <= e.time + RankPeriod
    BY <1>4, <1>5, <1>7
  <2>. QED  BY <1>1, <1>8, <2>1 DEF RankLookahead
<1>. QED  BY <1>13, <1>14, <1>15, <1>16, <1>17, <1>18, <1>19 DEF IndInv

(***************************************************************************)
(* A THREAD sync of rank r.  The one case in which it would forget a       *)
(* checkpoint, several ranks of several threads, is excluded by SafeConfig:*)
(* with one thread per rank no THREAD sync happens.                        *)
(***************************************************************************)
LEMMA ThreadSyncIndInv ==
    ASSUME SafeConfig, IndInv, NEW r \in Ranks, ThreadSyncExecute(r)
    PROVE  IndInv'
<1>. USE ConstantTypes
<1>. DEFINE mine == {e \in threadQ : RankOf[e.dst] = r}
            newTv == Deliver(mine)
            min == MinActivity(PartsOf(r), newTv)
            next == NextThreadSync(r, min)
            nextThread == [p \in Part |-> IF RankOf[p] = r THEN next ELSE threadNext[p]]
            nextCkpt == [p \in Part |-> IF RankOf[p] = r /\ SingleRank
                            THEN CheckCheckpoint(p) ELSE ckptNext[p]]
            passed == IF SingleRank THEN nextCkpt ELSE [p \in Part |-> MaxTime]
<1>1. /\ tv' = newTv /\ threadQ' = threadQ \ mine
      /\ threadNext' = nextThread /\ ckptNext' = nextCkpt
      /\ syncAt' = [p \in Part |-> IF p \in PartsOf(r)
            THEN NextSyncTime(rankNext[r], nextThread[p], passed[p]) ELSE syncAt[p]]
      /\ syncType' = [p \in Part |-> IF p \in PartsOf(r)
            THEN NextSyncType(rankNext[r], nextThread[p], passed[p]) ELSE syncType[p]]
      /\ phase' = [p \in Part |-> IF p \in PartsOf(r) THEN "run" ELSE phase[p]]
      /\ UNCHANGED <<now, last, rankQ, rankNext, fault>>
  BY DEF ThreadSyncExecute, LeaveSync
<1>2. \A p \in Part : p \in PartsOf(r) <=> RankOf[p] = r
  BY DEF PartsOf
<1>3. \A p \in Part : RankOf[p] = r =>
        phase[p] = "sync" /\ syncType[p] = "THREAD" /\ now[p] = syncAt[p]
  BY <1>2 DEF ThreadSyncExecute, AllInSync, IndInv, ClockInv
<1>4. \A p, q \in Part : RankOf[p] = r /\ RankOf[q] = r => now[p] = now[q]
  BY <1>3 DEF IndInv, ScheduleInv, AgreeInv, SameRank
<1>5. PICK w \in Part : RankOf[w] = r
  BY PartAssumption
<1>6. ~SingleRank => CkptPeriod = 0
  <2>. SUFFICES ASSUME ~SingleRank, OneThread PROVE FALSE
    BY DEF SafeConfig
  <2>1. ThreadLatencies(r) = {}
    BY DEF ThreadLatencies, OneThread, SameRank
  <2>2. ThreadPeriod(r) = MaxTime
    BY <2>1, MinTimeIsLeast DEF ThreadPeriod
  <2>3. threadNext[w] = MaxTime
    BY <1>5, <2>2 DEF IndInv, ThreadLookahead
  <2>4. NextSyncType(rankNext[RankOf[w]], threadNext[w], ckptNext[w]) = "THREAD"
    BY <1>3, <1>5 DEF IndInv, ScheduleInv
  <2>5. threadNext[w] < rankNext[RankOf[w]]
    BY <1>5, <2>4, StateFacts, NextSyncIsEarliest
  <2>. QED  BY <1>5, <2>3, <2>5, StateFacts
<1>7. /\ newTv \in [Part -> SUBSET Event]
      /\ \A p \in Part : \A e \in newTv[p] :
            /\ e.dst = p /\ now[p] <= e.time /\ e.time \in Time
            /\ e \in tv[p] \/ (e \in threadQ /\ RankOf[p] = r)
  <2>1. mine \subseteq threadQ \cup rankQ /\ \A e \in mine : RankOf[e.dst] = r
    OBVIOUS
  <2>. QED  BY <2>1, DeliverFacts
<1>8. \A e \in threadQ' : e \in threadQ /\ RankOf[e.dst] # r
  BY <1>1
<1>. HIDE DEF newTv, mine
<1>9. /\ min \in Time /\ min <= StopAt
      /\ \A p \in Part : RankOf[p] = r => now[p] <= min
      /\ \A p \in Part : RankOf[p] = r => \A e \in newTv[p] : min <= e.time
  <2>1. PartsOf(r) \subseteq Part
    BY DEF PartsOf
  <2>2. /\ min \in Time /\ min <= StopAt
        /\ \A p \in PartsOf(r) : \A e \in newTv[p] : min <= e.time
    BY <1>7, <2>1, MinActivityBounds
  <2>3. ASSUME NEW p \in Part, RankOf[p] = r PROVE now[p] <= min
    <3>1. now[p] \in Time /\ now[p] <= StopAt
      BY StateFacts DEF IndInv, ClockInv
    <3>2. \A q \in PartsOf(r) : \A e \in newTv[q] : now[p] <= e.time
      BY <1>2, <1>4, <1>7, <2>1, <2>3
    <3>. QED  BY <1>7, <2>1, <3>1, <3>2, MinActivityBounds
  <2>. QED  BY <1>2, <2>2, <2>3
<1>. HIDE DEF min
<1>10. /\ next \in Time /\ min <= next /\ next <= min + ThreadPeriod(r)
       /\ ThreadPeriod(r) \in Time
       /\ ThreadPeriod(r) = MaxTime => next = MaxTime
  BY <1>9, NextSyncBounds, ThreadPeriodBound
<1>. HIDE DEF next
<1>11. \A p \in Part : /\ nextThread[p] \in Time
                       /\ RankOf[p] = r => nextThread[p] = next /\ now[p] <= nextThread[p]
                       /\ RankOf[p] # r => nextThread[p] = threadNext[p]
  BY <1>9, <1>10, StateFacts
<1>12. \A p \in Part : /\ nextCkpt[p] \in Time /\ ckptNext[p] <= nextCkpt[p]
                       /\ CkptPeriod = 0 => nextCkpt[p] = MaxTime
                       /\ RankOf[p] # r => nextCkpt[p] = ckptNext[p]
                       /\ passed[p] = nextCkpt[p]
  <2>1. \A p \in Part : /\ nextCkpt[p] \in Time /\ ckptNext[p] <= nextCkpt[p]
                        /\ CkptPeriod = 0 => nextCkpt[p] = MaxTime
                        /\ RankOf[p] # r => nextCkpt[p] = ckptNext[p]
    BY CheckCheckpointBounds, StateFacts DEF IndInv, AgreeInv
  <2>2. \A p \in Part : passed[p] = nextCkpt[p]
    BY <1>6, <2>1
  <2>. QED  BY <2>1, <2>2
<1>13. \A p, q \in Part : nextCkpt[p] = nextCkpt[q]
  <2>1. CASE SingleRank
    <3>1. \A p \in Part : RankOf[p] = r
      BY <2>1, StateFacts DEF SingleRank
    <3>. QED  BY <1>4, <3>1 DEF CheckCheckpoint, IndInv, AgreeInv
  <2>2. CASE ~SingleRank
    BY <2>2 DEF IndInv, AgreeInv
  <2>. QED  BY <2>1, <2>2
<1>. HIDE DEF nextThread, nextCkpt, passed
<1>14. ASSUME NEW p \in Part
       PROVE  /\ syncAt'[p] \in Time /\ syncType'[p] \in {"RANK", "THREAD"}
              /\ syncAt'[p] = NextSyncTime(rankNext[RankOf[p]], nextThread[p], nextCkpt[p])
              /\ syncType'[p] = NextSyncType(rankNext[RankOf[p]], nextThread[p], nextCkpt[p])
              /\ now[p] <= syncAt'[p] /\ last[p] < syncAt'[p]
              /\ RankOf[p] # r => syncAt'[p] = syncAt[p]
  <2>1. CASE RankOf[p] = r
    <3>1. /\ syncAt'[p] = NextSyncTime(rankNext[r], nextThread[p], nextCkpt[p])
          /\ syncType'[p] = NextSyncType(rankNext[r], nextThread[p], nextCkpt[p])
      BY <1>1, <1>2, <1>12, <2>1
    <3>2. now[p] <= rankNext[r] /\ now[p] <= nextCkpt[p] /\ rankNext[r] \in Time
      BY <1>3, <1>12, <2>1, StateFacts
    <3>3. last[p] < now[p]
      BY <1>3, <2>1 DEF IndInv, ClockInv
    <3>4. /\ syncAt'[p] \in Time /\ syncType'[p] \in {"RANK", "THREAD"}
          /\ syncAt'[p] \in {rankNext[r], nextThread[p], nextCkpt[p]}
      BY <1>11, <1>12, <3>1, <3>2, NextSyncIsEarliest
    <3>5. now[p] <= syncAt'[p]
      BY <1>11, <2>1, <3>2, <3>4
    <3>. QED  BY <2>1, <3>1, <3>3, <3>4, <3>5, StateFacts
  <2>2. CASE RankOf[p] # r
    <3>1. syncAt'[p] = syncAt[p] /\ syncType'[p] = syncType[p]
      BY <1>1, <1>2, <2>2
    <3>2. nextThread[p] = threadNext[p] /\ nextCkpt[p] = ckptNext[p]
      BY <1>11, <1>12, <2>2
    <3>. QED  BY <3>1, <3>2, <2>2, StateFacts DEF IndInv, ScheduleInv, ClockInv, TypeOK
  <2>. QED  BY <2>1, <2>2
<1>15. TypeOK'
  <2>1. syncAt' \in [Part -> Time] /\ syncType' \in [Part -> {"RANK", "THREAD"}]
    BY <1>1, <1>14
  <2>2. tv' \in [Part -> SUBSET Event] /\ phase' \in [Part -> {"run", "sync", "ended"}]
    BY <1>1, <1>7 DEF IndInv, TypeOK
  <2>3. threadNext' \in [Part -> Time]
    BY <1>1, <1>11 DEF nextThread
  <2>4. ckptNext' \in [Part -> Time]
    BY <1>1, <1>12 DEF nextCkpt
  <2>5. threadQ' \subseteq Event /\ rankQ' \subseteq Event /\ rankNext' \in [Ranks -> Time]
    BY <1>1 DEF IndInv, TypeOK
  <2>6. now' \in [Part -> Time] /\ last' \in [Part -> Time \cup {-1}]
        /\ fault' \in [Part -> BOOLEAN]
    BY <1>1 DEF IndInv, TypeOK
  <2>. QED  BY <2>1, <2>2, <2>3, <2>4, <2>5, <2>6 DEF TypeOK
<1>16. NoTimeFault'
  BY <1>1 DEF IndInv, NoTimeFault
<1>17. ClockInv'
  <2>1. \A p \in Part : phase'[p] = "sync" => now'[p] = syncAt'[p]
    BY <1>1, <1>2, <1>14 DEF IndInv, ClockInv
  <2>. QED  BY <1>1, <1>7, <1>14, <2>1 DEF IndInv, ClockInv
<1>18. AgreeInv'
  BY <1>1, <1>11, <1>12, <1>13 DEF AgreeInv, IndInv, SameRank
<1>19. ScheduleInv'
  BY <1>1, <1>14 DEF ScheduleInv
<1>20. ThreadLookahead'
  <2>1. \A p \in Part : ThreadPeriod(RankOf[p]) = MaxTime => nextThread[p] = MaxTime
    BY <1>10, <1>11 DEF IndInv, ThreadLookahead
  <2>2. ASSUME NEW p \in Part, NEW e \in newTv[p]
        PROVE  nextThread[p] <= e.time + ThreadPeriod(RankOf[p])
    <3>1. CASE RankOf[p] = r
      BY <1>7, <1>9, <1>10, <1>11, <2>2, <3>1
    <3>2. CASE RankOf[p] # r
      BY <1>7, <1>11, <2>2, <3>2 DEF IndInv, ThreadLookahead
    <3>. QED  BY <3>1, <3>2
  <2>3. \A e \in threadQ' : SameRank(e.src, e.dst) /\ nextThread[e.dst] <= e.time
    BY <1>8, <1>11, StateFacts DEF IndInv, ThreadLookahead
  <2>. QED  BY <1>1, <2>1, <2>2, <2>3 DEF ThreadLookahead
<1>21. RankLookahead'
  <2>1. ASSUME NEW p \in Part, NEW e \in newTv[p]
        PROVE  rankNext[RankOf[p]] <= e.time + RankPeriod
    BY <1>7, <2>1 DEF IndInv, RankLookahead
  <2>. QED  BY <1>1, <1>8, <2>1 DEF IndInv, RankLookahead
<1>. QED  BY <1>15, <1>16, <1>17, <1>18, <1>19, <1>20, <1>21 DEF IndInv

LEMMA NextIndInv == ASSUME SafeConfig, IndInv, [Next]_vars PROVE IndInv'
<1>1. ASSUME NEW p \in Part, Step(p) PROVE IndInv'
  BY <1>1, ExecuteEventIndInv, StopOrEnterIndInv DEF Step
<1>2. CASE RankSyncExecute
  BY <1>2, RankSyncIndInv
<1>3. ASSUME NEW r \in Ranks, ThreadSyncExecute(r) PROVE IndInv'
  BY <1>3, ThreadSyncIndInv
<1>4. CASE UNCHANGED vars
  BY <1>4 DEF vars, IndInv, TypeOK, NoTimeFault, ClockInv, AgreeInv, ScheduleInv,
              ThreadLookahead, RankLookahead
<1>. QED  BY <1>1, <1>2, <1>3, <1>4 DEF Next, Done

-----------------------------------------------------------------------------
(* The theorems. *)

(***************************************************************************)
(* In a safe configuration, whatever the number of ranks and threads, the  *)
(* latencies and the events the components send, the state of the run      *)
(* phase (Simulation::run and SyncManager::execute) satisfies IndInv.      *)
(***************************************************************************)
THEOREM IndInvariance == ASSUME SafeConfig PROVE Spec => []IndInv
<1>1. Init => IndInv
  BY InitIndInv
<1>2. IndInv /\ [Next]_vars => IndInv'
  BY NextIndInv
<1>. QED  BY <1>1, <1>2, PTL DEF Spec

(* Every clock, queue and sync time keeps its type: no sum of times wraps. *)
THEOREM TypeCorrect == ASSUME SafeConfig PROVE Spec => []TypeOK
<1>1. IndInv => TypeOK
  BY DEF IndInv
<1>. QED  BY <1>1, IndInvariance, PTL

(***************************************************************************)
(* Simulation::run never stops with a time fault: no partition pops an     *)
(* activity that is earlier than its clock.                                *)
(***************************************************************************)
THEOREM TimeNeverRunsBackwards == ASSUME SafeConfig PROVE Spec => []NoTimeFault
<1>1. IndInv => NoTimeFault
  BY DEF IndInv
<1>. QED  BY <1>1, IndInvariance, PTL

(***************************************************************************)
(* The lookahead computed by RankSync::exchange and ThreadSync::after is   *)
(* safe: no event in a sync queue is due at or before the time of an event *)
(* that its destination has executed.                                      *)
(***************************************************************************)
THEOREM LookaheadIsSafe == ASSUME SafeConfig PROVE Spec => []NoLateArrival
<1>1. ASSUME IndInv PROVE NoLateArrival
  <2>. SUFFICES ASSUME NEW e \in threadQ \cup rankQ
                PROVE  now[e.dst] <= e.time /\ last[e.dst] < e.time
    BY DEF NoLateArrival
  <2>1. /\ e \in Event /\ e.dst \in Part /\ e.time \in Time
        /\ now[e.dst] <= syncAt[e.dst] /\ syncAt[e.dst] <= e.time
    BY <1>1, StateFacts
  <2>2. last[e.dst] < syncAt[e.dst]
    BY <1>1, <2>1 DEF IndInv, ClockInv
  <2>. QED  BY <1>1, <2>1, <2>2, StateFacts, ConstantTypes
<1>. QED  BY <1>1, IndInvariance, PTL

(***************************************************************************)
(* SyncManager::computeNextInsert, evaluated by every thread on its own,   *)
(* sends all threads that have to meet to the same sync.                   *)
(***************************************************************************)
THEOREM ThreadsAgreeOnSync == ASSUME SafeConfig PROVE Spec => []SyncAgreement
<1>1. ASSUME IndInv PROVE SyncAgreement
  <2>. SUFFICES ASSUME NEW p \in Part, NEW q \in Part
                PROVE  /\ SameRank(p, q) =>
                            syncAt[p] = syncAt[q] /\ syncType[p] = syncType[q]
                       /\ phase[p] = "sync" /\ phase[q] = "sync"
                            /\ syncType[p] = "RANK" /\ syncType[q] = "RANK"
                            => now[p] = now[q]
    BY DEF SyncAgreement
  <2>1. SameRank(p, q) => syncAt[p] = syncAt[q] /\ syncType[p] = syncType[q]
    BY <1>1 DEF IndInv, ScheduleInv, AgreeInv, SameRank
  <2>2. ASSUME phase[p] = "sync", phase[q] = "sync",
               syncType[p] = "RANK", syncType[q] = "RANK"
        PROVE  now[p] = now[q]
    <3>1. now[p] = syncAt[p] /\ now[q] = syncAt[q]
      BY <1>1, <2>2 DEF IndInv, ClockInv
    <3>. QED  BY <1>1, <2>2, <3>1, RankSyncTime
  <2>. QED  BY <2>1, <2>2
<1>. QED  BY <1>1, IndInvariance, PTL

(***************************************************************************)
(* A checkpoint by simulated time is never late: CheckpointAction::check   *)
(* is reached before any event at or after the checkpoint's time.          *)
(***************************************************************************)
THEOREM CheckpointsOnTime == ASSUME SafeConfig PROVE Spec => []CheckpointBeforeEvents
<1>1. ASSUME IndInv PROVE CheckpointBeforeEvents
  <2>. SUFFICES ASSUME NEW p \in Part PROVE last[p] < ckptNext[p]
    BY DEF CheckpointBeforeEvents
  <2>1. last[p] < syncAt[p] /\ syncAt[p] <= ckptNext[p]
    BY <1>1, StateFacts DEF IndInv, ClockInv
  <2>. QED  BY <1>1, <2>1, StateFacts, ConstantTypes
<1>. QED  BY <1>1, IndInvariance, PTL

(***************************************************************************)
(* A checkpoint is a consistent cut: CheckpointAction::check changes the   *)
(* time of the next checkpoint only when all partitions stand at one time  *)
(* and the sync queues have been emptied into the TimeVortices.            *)
(***************************************************************************)
THEOREM CheckpointsAreCuts == ASSUME SafeConfig PROVE Spec => CheckpointIsCut
<1>. DEFINE Cut == /\ threadQ' = {} /\ rankQ' = {}
                   /\ \A p, q \in Part : now'[p] = now'[q] /\ ckptNext'[p] = ckptNext'[q]
<1>1. ASSUME IndInv, IndInv', [Next]_vars, ckptNext' # ckptNext PROVE Cut
  <2>1. \A p, q \in Part : ckptNext'[p] = ckptNext'[q]
    BY <1>1 DEF IndInv, AgreeInv
  <2>2. CASE RankSyncExecute
    <3>1. threadQ' = {} /\ rankQ' = {} /\ now' = now
      BY <2>2 DEF RankSyncExecute
    <3>2. \A p \in Part : syncType[p] = "RANK" /\ now[p] = syncAt[p]
      BY <1>1, <2>2 DEF RankSyncExecute, AllInSync, IndInv, ClockInv
    <3>3. \A p, q \in Part : now[p] = now[q]
      BY <1>1, <3>2, RankSyncTime
    <3>. QED  BY <2>1, <3>1, <3>3
  <2>3. ASSUME NEW r \in Ranks, ThreadSyncExecute(r) PROVE Cut
    <3>1. SingleRank
      <4>. SUFFICES ASSUME ~SingleRank PROVE FALSE
        OBVIOUS
      <4>1. ckptNext' = [p \in Part |-> ckptNext[p]]
        BY <2>3 DEF ThreadSyncExecute
      <4>. QED  BY <1>1, <4>1 DEF IndInv, TypeOK
    <3>2. \A p \in Part : RankOf[p] = r
      BY <1>1, <3>1, StateFacts DEF SingleRank
    <3>3. threadQ' = threadQ \ {e \in threadQ : RankOf[e.dst] = r} /\ rankQ' = rankQ
          /\ now' = now
      BY <2>3 DEF ThreadSyncExecute
    <3>4. threadQ' = {}
      BY <1>1, <3>2, <3>3, StateFacts
    <3>5. rankQ' = {}
      <4>1. \A e \in rankQ : e.src \in Part /\ e.dst \in Part /\ ~SameRank(e.src, e.dst)
        BY <1>1, StateFacts DEF IndInv, RankLookahead
      <4>. QED  BY <3>2, <3>3, <4>1 DEF SameRank
    <3>6. \A p \in Part : now[p] = syncAt[p]
      BY <1>1, <2>3, <3>2 DEF ThreadSyncExecute, AllInSync, PartsOf, IndInv, ClockInv
    <3>7. \A p, q \in Part : syncAt[p] = syncAt[q]
      BY <1>1, <3>2 DEF IndInv, ScheduleInv, AgreeInv, SameRank
    <3>. QED  BY <2>1, <3>3, <3>4, <3>5, <3>6, <3>7
  <2>4. ASSUME NEW p \in Part, Step(p) PROVE FALSE
    BY <1>1, <2>4 DEF Step, ExecuteEvent, ExecuteStop, EnterSync
  <2>5. CASE UNCHANGED vars
    BY <1>1, <2>5 DEF vars
  <2>. QED  BY <1>1, <2>2, <2>3, <2>4, <2>5 DEF Next, Done
<1>2. IndInv /\ IndInv' /\ [Next]_vars => [ckptNext' # ckptNext => Cut]_vars
  BY <1>1
<1>. QED  BY <1>2, IndInvariance, PTL DEF Spec, CheckpointIsCut

(***************************************************************************)
(* The parallel run implements the sequential one: the run loops, the sync *)
(* queues and the two syncs together execute every event in order.         *)
(***************************************************************************)
LEMMA InFlightMembers ==
    /\ \A f : f \in InFlight <=>
            f \in threadQ \/ f \in rankQ \/ \E q \in Part : f \in tv[q]
    /\ \A f : f \in InFlight' <=>
            f \in threadQ' \/ f \in rankQ' \/ \E q \in Part : f \in tv'[q]
  BY DEF InFlight

LEMMA ExecuteEventRefines ==
    ASSUME SafeConfig, IndInv, IndInv', NEW p \in Part, NEW e, NEW S,
           ExecuteEvent(p, e, S)
    PROVE  e \in InFlight /\ Sequential!Execute(p, e)
<1>. USE ConstantTypes
<1>1. /\ e \in tv[p] /\ e \in Event /\ e.time \in Time /\ e.dst = p
      /\ e.time < syncAt[p] /\ e.time < StopAt
      /\ \A f \in tv[p] : e.time <= f.time
      /\ now[p] <= e.time
  BY StateFacts DEF ExecuteEvent, EventIsFront, IndInv, ClockInv
<1>2. \A f \in S : f \in Event /\ f.src = p /\ f.dst \in Part /\ f.time \in Time
                   /\ e.time <= f.time
  BY <1>1, SendableBounds DEF ExecuteEvent, Event
<1>3. \A q \in Part : tv'[q] = (IF q = p THEN tv[q] \ {e} ELSE tv[q])
                                \cup {f \in S : f.dst = q /\ ToTimeVortex(f)}
  BY DEF ExecuteEvent
<1>4. /\ threadQ' = threadQ \cup {f \in S : ToThreadQueue(f)}
      /\ rankQ' = rankQ \cup {f \in S : ToRankQueue(f)}
  BY DEF ExecuteEvent
<1>5. e \in InFlight
  BY <1>1, InFlightMembers
<1>6. \A f \in threadQ \cup rankQ : f.dst = p => e.time < f.time
  BY <1>1, StateFacts
<1>7. \A q \in Part : \A f \in tv[q] : f.dst = q
  BY DEF IndInv, ClockInv
<1>8. \A f \in InFlight : f.dst = p => e.time <= f.time
  BY <1>1, <1>6, <1>7, InFlightMembers, StateFacts
<1>9. now' = [now EXCEPT ![p] = e.time] /\ last' = [last EXCEPT ![p] = e.time]
  BY DEF ExecuteEvent, AdvanceTo
<1>10. InFlight \ {e} \subseteq InFlight'
  BY <1>3, <1>4, InFlightMembers
<1>11. InFlight' \subseteq Event
  <2>1. /\ \A q \in Part : tv'[q] \subseteq Event
        /\ threadQ' \subseteq Event /\ rankQ' \subseteq Event
    BY DEF IndInv, TypeOK
  <2>. QED  BY <2>1, InFlightMembers
<1>12. e \notin threadQ /\ e \notin rankQ /\ \A q \in Part : q # p => e \notin tv[q]
  BY <1>1, <1>6, <1>7
<1>13. \A f \in InFlight' \ (InFlight \ {e}) : f \in S
  BY <1>3, <1>4, <1>12, InFlightMembers
<1>14. ASSUME NEW f \in InFlight' \ (InFlight \ {e})
       PROVE  /\ f.src = p /\ f.time >= e.time
              /\ f.dst # p => last[f.dst] < f.time /\ now[f.dst] <= f.time
  <2>1. f.src = p /\ f.time >= e.time /\ f.dst \in Part
    BY <1>1, <1>2, <1>13
  <2>2. ASSUME f.dst # p PROVE last[f.dst] < f.time /\ now[f.dst] <= f.time
    <3>1. f \in threadQ' \/ f \in rankQ'
      BY <1>2, <1>4, <1>13, <2>2 DEF ToThreadQueue, ToRankQueue, ToTimeVortex, SafeConfig
    <3>2. \/ threadNext'[f.dst] <= f.time
          \/ rankNext'[RankOf[f.dst]] <= f.time
      BY <3>1 DEF IndInv, ThreadLookahead, RankLookahead
    <3>3. UNCHANGED <<threadNext, rankNext, syncAt>>
      BY DEF ExecuteEvent
    <3>4. syncAt[f.dst] <= f.time
      BY <1>2, <1>13, <2>1, <3>2, <3>3, StateFacts
    <3>5. last[f.dst] < syncAt[f.dst] /\ now[f.dst] <= syncAt[f.dst]
      BY <2>1 DEF IndInv, ClockInv
    <3>. QED  BY <1>2, <1>13, <2>1, <3>4, <3>5, StateFacts
  <2>. QED  BY <2>1, <2>2
<1>. QED  BY <1>1, <1>5, <1>8, <1>9, <1>10, <1>11, <1>14
          DEF Sequential!Execute, Sequential!IsEarliest

LEMMA StopOrEnterRefines ==
    ASSUME SafeConfig, IndInv, IndInv', NEW p \in Part, ExecuteStop(p) \/ EnterSync(p)
    PROVE  Sequential!Advance(p)
<1>. USE ConstantTypes
<1>1. UNCHANGED <<last, tv, threadQ, rankQ, syncAt, rankNext, threadNext, ckptNext>>
  BY DEF ExecuteStop, EnterSync
<1>2. UNCHANGED InFlight
  BY <1>1 DEF InFlight
<1>3. PICK t : now' = [now EXCEPT ![p] = t] /\ fault' = [fault EXCEPT ![p] = t < now[p]]
  BY DEF ExecuteStop, EnterSync, AdvanceTo
<1>4. t = now'[p] /\ now' = [now EXCEPT ![p] = now'[p]]
  BY <1>3 DEF IndInv, TypeOK
<1>5. now'[p] \in Time
  BY DEF IndInv, TypeOK
<1>6. ~(t < now[p])
  BY <1>3 DEF IndInv, NoTimeFault, TypeOK
<1>7. now[p] <= now'[p]
  BY <1>4, <1>5, <1>6, StateFacts
<1>8. now'[p] <= syncAt[p] /\ \A e \in tv[p] : now'[p] <= e.time
  BY <1>1 DEF IndInv, ClockInv
<1>9. ASSUME NEW f \in InFlight, f.dst = p PROVE now'[p] <= f.time
  <2>1. CASE f \in threadQ \cup rankQ
    BY <1>5, <1>8, <1>9, <2>1, StateFacts
  <2>2. CASE \E q \in Part : f \in tv[q]
    BY <1>8, <1>9, <2>2 DEF IndInv, ClockInv
  <2>. QED  BY <2>1, <2>2, InFlightMembers
<1>. QED  BY <1>1, <1>2, <1>4, <1>7, <1>9 DEF Sequential!Advance, Sequential!IsEarliest

LEMMA SyncRefines ==
    ASSUME IndInv, RankSyncExecute \/ \E r \in Ranks : ThreadSyncExecute(r)
    PROVE  UNCHANGED Sequential!vars
<1>1. UNCHANGED <<now, last>>
  BY DEF RankSyncExecute, ThreadSyncExecute
<1>2. PICK Q : /\ Q \subseteq threadQ \cup rankQ
               /\ tv' = Deliver(Q)
               /\ threadQ' = threadQ \ Q /\ rankQ' = rankQ \ Q
  <2>1. CASE RankSyncExecute
    <3>1. /\ tv' = Deliver(threadQ \cup rankQ)
          /\ threadQ' = threadQ \ (threadQ \cup rankQ) /\ rankQ' = rankQ \ (threadQ \cup rankQ)
      BY <2>1 DEF RankSyncExecute
    <3>. QED  BY <3>1
  <2>2. ASSUME NEW r \in Ranks, ThreadSyncExecute(r)
        PROVE  \E Q : /\ Q \subseteq threadQ \cup rankQ
                      /\ tv' = Deliver(Q)
                      /\ threadQ' = threadQ \ Q /\ rankQ' = rankQ \ Q
    <3>. DEFINE mine == {e \in threadQ : RankOf[e.dst] = r}
    <3>1. tv' = Deliver(mine) /\ threadQ' = threadQ \ mine /\ rankQ' = rankQ
      BY <2>2 DEF ThreadSyncExecute
    <3>2. \A e \in mine : e \notin rankQ
      BY DEF IndInv, ThreadLookahead, RankLookahead
    <3>. QED  BY <3>1, <3>2
  <2>. QED  BY <2>1, <2>2
<1>3. \A q \in Part : tv'[q] = tv[q] \cup {e \in Q : e.dst = q}
  BY <1>2 DEF Deliver
<1>4. \A e \in Q : e.dst \in Part
  BY <1>2, StateFacts
<1>5. \A f : f \in InFlight' <=> f \in InFlight
  BY <1>2, <1>3, <1>4, InFlightMembers
<1>6. InFlight' = InFlight
  BY <1>5
<1>. QED  BY <1>1, <1>6 DEF Sequential!vars

THEOREM ParallelIsSequential == ASSUME SafeConfig PROVE Spec => RefinesSequential
<1>1. Init => Sequential!Init
  <2>. SUFFICES ASSUME Init PROVE Sequential!Init
    OBVIOUS
  <2>1. InFlight \subseteq Event
    BY SetupAssumption, InFlightMembers DEF Init
  <2>. QED  BY <2>1 DEF Init, Sequential!Init
<1>2. IndInv /\ IndInv' /\ [Next]_vars => [Sequential!Next]_Sequential!vars
  <2>. SUFFICES ASSUME IndInv, IndInv', [Next]_vars
                PROVE  [Sequential!Next]_Sequential!vars
    OBVIOUS
  <2>1. ASSUME NEW p \in Part, Step(p) PROVE Sequential!Next
    <3>1. ASSUME NEW e \in tv[p], NEW S, ExecuteEvent(p, e, S) PROVE Sequential!Next
      BY <3>1, ExecuteEventRefines DEF Sequential!Next
    <3>2. CASE ExecuteStop(p) \/ EnterSync(p)
      BY <3>2, StopOrEnterRefines DEF Sequential!Next
    <3>. QED  BY <2>1, <3>1, <3>2 DEF Step
  <2>2. CASE RankSyncExecute \/ \E r \in Ranks : ThreadSyncExecute(r)
    BY <2>2, SyncRefines
  <2>3. CASE UNCHANGED vars
    BY <2>3 DEF vars, InFlight, Sequential!vars
  <2>. QED  BY <2>1, <2>2, <2>3 DEF Next, Done
<1>. QED  BY <1>1, <1>2, IndInvariance, PTL DEF Spec, RefinesSequential, Sequential!Spec
=============================================================================
