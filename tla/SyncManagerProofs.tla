-------------------------- MODULE SyncManagerProofs --------------------------
(***************************************************************************)
(* What SyncManager promises, for any number of ranks and threads, with    *)
(* and without links between the threads.                                  *)
(*                                                                         *)
(* The barriers cut a sync into segments, and all threads of a rank are in *)
(* the same one: that is all NoDataRace needs.  That the threads decide    *)
(* alike needs more: within a rank a thread that decides otherwise is held *)
(* at a barrier the others never reach, and between the ranks everything   *)
(* is decided on what the last reduction has made equal.                   *)
(***************************************************************************)
EXTENDS SyncManager, FiniteSetTheorems, TLAPS

Both(a, b, S) == a \in S /\ b \in S

Idle == {"check", "run", "over"}

(* Where two threads of a rank can be at the same time in a RANK sync. *)
RankSegment(a, b) ==
    \/ Both(a, b, Idle \cup {"rank0"})
    \/ Both(a, b, {"before", "rank1"})
    \/ Both(a, b, {"set", "serializeReady"})
    \/ Both(a, b, {"deliver", "slaveExchangeDone"})
    \/ Both(a, b, {"reduce", "allDone"})
    \/ Both(a, b, {"rank2"})
    \/ Both(a, b, {"after", "signals", "alarm", "request", "checkpoint", "flags",
                   "console", "ic2", "exit", "rank3"})
    \/ Both(a, b, {"clear", "rank5"})
    \/ Both(a, b, {"end", "exiting", "next", "rank4"})

(* The same in a THREAD sync with links between the threads. *)
ThreadSegment(a, b) ==
    \/ Both(a, b, Idle \cup {"set", "thread0"})
    \/ Both(a, b, {"before", "thread1"})
    \/ Both(a, b, {"after", "thread2"})
    \/ Both(a, b, {"end", "next", "rank4"})
    \/ SingleRank /\ Both(a, b, {"signals", "alarm", "request", "ic1"})
    \/ SingleRank /\ Both(a, b, {"load", "checkpoint", "unset", "flags", "console",
                                 "ic2", "clear", "end", "exiting", "next", "rank4"})

(* The same with independent threads. *)
AloneSegment(a, b) ==
    \/ Both(a, b, Idle \cup {"stopping", "set", "signals", "request", "ic1"})
    \/ Both(a, b, {"load", "checkpoint", "unset", "flags", "console", "ic2", "clear",
                   "end", "exiting", "next", "rank4"})

(* The same in the present sync of thread p. *)
Segment(p, a, b) ==
    IF IsRank(p) THEN RankSegment(a, b)
    ELSE IF ThreadLinks THEN ThreadSegment(a, b) ELSE AloneSegment(a, b)

SegmentInv ==
    \A p, q \in Part : RankOf[p] = RankOf[q] => Segment(p, pc[p], pc[q])

(* The type of the next sync is that of the THREAD syncs left. *)
ScheduleInv == \A r \in Ranks : Fits(sched[r], quota[r])

-----------------------------------------------------------------------------
(* Before the signals are handled a thread has done nothing in a sync. *)
Early ==
    {"rank0", "rank1", "rank2", "thread0", "thread1", "thread2", "set", "before",
     "serializeReady", "deliver", "slaveExchangeDone", "reduce", "allDone", "after",
     "signals"}

(* A thread has looked at the flags. *)
Decided ==
    {"ic2", "console", "clear", "rank5", "exit", "rank3", "end", "exiting", "next",
     "rank4"}

(* After they are handled. *)
Later == {"alarm", "request", "ic1", "load", "checkpoint", "unset", "flags"} \cup Decided

(* The signals thread p acts on in the present sync. *)
Heard(p) ==
    LET S == IF IsRank(p) \/ SingleRank THEN FlagsOf(p).sig ELSE {}
    IN  IF "end" \in S THEN {"end"} ELSE S

Ended(p) ==
    IF IsRank(p) THEN globalCount[RankOf[p]] = 0
    ELSE SingleRank /\ \A q \in PartsOf(RankOf[p]) : ~primary[q]

(* What did says of a thread at each label. *)
DidAt(p) ==
    /\ pc[p] \in Early => did[p] = {}
    /\ pc[p] = "alarm" => did[p] = Heard(p) \ {"alrm"} /\ "alrm" \in Heard(p)
    /\ pc[p] \in {"request", "ic1", "load"} => did[p] = Heard(p)
    /\ pc[p] \in Later \ {"alarm"} => did[p] \cap Signal = Heard(p)
    /\ pc[p] \in (Later \ Decided) \cup {"console"} =>
            "shutdown" \notin did[p] /\ "console" \notin did[p]
    /\ pc[p] = "ic2" => "shutdown" \in did[p] \/ "console" \in did[p]
    /\ pc[p] \in Later \ {"exiting", "next", "rank4"} => "ended" \notin did[p]
    /\ pc[p] \in {"exiting", "next", "rank4"} => ("ended" \in did[p] <=> Ended(p))

DidInv == \A p \in Part : DidAt(p)

-----------------------------------------------------------------------------
Syncing(p) == pc[p] \in Early \cup Later

(* The last reduction of a RANK sync is behind rank r. *)
AfterReduce == {"allDone", "rank2", "after", "signals"} \cup Later

Reduced(r) == sched[r].type = "RANK" /\ pc[Master[r]] \in AfterReduce

SameSync(p, q) ==
    \/ RankOf[p] = RankOf[q] /\ Syncing(p) /\ Syncing(q)
    \/ Reduced(RankOf[p]) /\ Reduced(RankOf[q])

(* What all threads do at once they have done together. *)
TogetherInv ==
    \A p, q \in Part : SameSync(p, q) =>
        /\ "checkpoint" \in did[p] <=> "checkpoint" \in did[q]
        /\ "console" \in did[p] <=> "console" \in did[q]

(* Whether thread p shuts down, or will, in a RANK sync. *)
ShutsDown(p) ==
    IF pc[p] \in Decided THEN "shutdown" \in did[p]
    ELSE Interactive /\ rankFlags[RankOf[p]].shutdown

(* What the ranks decide on is the same after the reduction. *)
ReducedInv ==
    /\ \A r, s \in Ranks : globalCount[r] = globalCount[s]
    /\ \A r, s \in Ranks :
            Reduced(r) /\ Reduced(s) => rankFlags[r].sig = rankFlags[s].sig
    /\ \A p, q \in Part :
            Reduced(RankOf[p]) /\ Reduced(RankOf[q]) => (ShutsDown(p) <=> ShutsDown(q))

(* In a THREAD sync a thread that shuts down alone is held at a barrier. *)
HeldInv ==
    \A p, q \in Part :
        /\ RankOf[p] = RankOf[q] /\ ~IsRank(p)
        /\ Syncing(p) /\ Syncing(q)
        /\ "shutdown" \in did[p] /\ "shutdown" \notin did[q]
        => pc[p] = "ic2" /\ pc[q] # "ic2"

BaseInd == TypeOK /\ ScheduleInv /\ SegmentInv

SyncInd == BaseInd /\ DidInv /\ TogetherInv /\ ReducedInv /\ HeldInv

-----------------------------------------------------------------------------
(* On one rank, what makes a thread take a checkpoint is still wanted. *)
CheckpointInv ==
    \A p \in Part :
        /\ generate[p] => wanted
        /\ pc[p] = "checkpoint" => generate[p] \/ sched[RankOf[p]].due
        /\ pc[p] \in Decided \cup {"flags"} => ~ckptGenerate[RankOf[p]]
        /\ pc[p] # "unset" => (ckptGenerate[RankOf[p]] => wanted)

-----------------------------------------------------------------------------
(* The types. *)

LEMMA RanksFinite == IsFiniteSet(Ranks) /\ Cardinality(Ranks) \in Nat
<1>1. Master \in Injection(Ranks, Part)
  BY PartAssumption DEF Injection, IsInjective
<1> QED
  BY <1>1, PartAssumption, FS_Injection, FS_CardinalityType

LEMMA CountType ==
    ASSUME NEW S \in SUBSET Ranks
    PROVE  Cardinality(S) \in 0 .. Cardinality(Ranks)
<1>1. /\ IsFiniteSet(S) /\ Cardinality(S) <= Cardinality(Ranks)
      /\ Cardinality(Ranks) \in Nat
  BY RanksFinite, FS_Subset
<1>2. Cardinality(S) \in Nat
  BY <1>1, FS_CardinalityType
<1> QED
  BY <1>1, <1>2

LEMMA TypeInit == Init => TypeOK /\ ScheduleInv
<1> SUFFICES ASSUME Init PROVE TypeOK /\ ScheduleInv
  OBVIOUS
<1>1. 0 \in 0 .. Cardinality(Ranks)
  BY RanksFinite
<1>2. NoFlags \in Flags
  BY DEF NoFlags, Flags
<1>3. pc \in [Part -> Label] /\ did \in [Part -> SUBSET (Signal \cup
            {"checkpoint", "shutdown", "console", "ended"})]
  BY DEF Init, Label
<1>4. /\ quota \in [Ranks -> Nat] /\ globalCount \in [Ranks -> 0 .. Cardinality(Ranks)]
      /\ budget \in 0 .. MaxRequests
  BY <1>1, OptionAssumption DEF Init
<1>5. /\ fromOs \in [Ranks -> SUBSET Signal] /\ sigs \in [Ranks -> SUBSET Signal]
      /\ threadFlags \in [Ranks -> Flags] /\ rankFlags \in [Ranks -> Flags]
      /\ primary \in [Part -> BOOLEAN]
  BY <1>2 DEF Init
<1>6. TypeOK
  BY <1>3, <1>4, <1>5 DEF Init, TypeOK
<1> QED
  BY <1>6 DEF Init, ScheduleInv

(* What a thread does alone keeps the types. *)
LEMMA StepType ==
    ASSUME TypeOK, NEW p \in Part,
           Step(p) \/ Request(p) \/ OKToEndSim(p)
    PROVE  TypeOK'
<1> USE PartAssumption, OptionAssumption
<1>1. CASE EnterSync(p) \/ AtTimeVortex(p) \/ SkipExitCheck(p)
  <2>1. \E l \in Label : Goto(p, l)
    BY <1>1 DEF EnterSync, AtTimeVortex, SkipExitCheck, Label, Barriers, RankBarriers,
         ExchangeBarriers, ThreadBarriers
  <2>2. pc' \in [Part -> Label]
    BY <2>1 DEF TypeOK, Goto
  <2>3. did' = [did EXCEPT ![p] = {}] \/ did' = did
    BY <1>1 DEF EnterSync, AtTimeVortex, SkipExitCheck
  <2>4. did' \in [Part -> SUBSET (Signal \cup {"checkpoint", "shutdown", "console",
                                            "ended"})]
    BY <2>3 DEF TypeOK
  <2> QED
    BY <1>1, <2>2, <2>4 DEF TypeOK, EnterSync, AtTimeVortex, SkipExitCheck, flags, asked
<1>9. CASE LoopCheck(p)
  <2>1. pc' \in [Part -> Label]
    BY <1>9 DEF TypeOK, LoopCheck, Goto, Label
  <2>2. sigs' \in [Ranks -> SUBSET Signal] /\ fromOs' \in [Ranks -> SUBSET Signal]
    BY <1>9 DEF TypeOK, LoopCheck
  <2> QED
    BY <1>9, <2>1, <2>2 DEF TypeOK, LoopCheck, flags, asked
<1>2. CASE SetFlags(p)
  BY <1>2 DEF TypeOK, SetFlags, WithFlags, Goto, Label, Flags,
       Barriers, RankBarriers, ExchangeBarriers, ThreadBarriers, ExitBarrier, flags, asked
<1>3. CASE HandleSignals(p)
  <2>1. FlagsOf(p).sig \subseteq Signal
    BY DEF TypeOK, FlagsOf, Flags
  <2>2. pc' \in [Part -> Label]
    BY <1>3 DEF TypeOK, HandleSignals, Goto, Label
  <2>3. /\ endSim' \in [Part -> BOOLEAN] /\ generate' \in [Part -> BOOLEAN]
        /\ interactive' \in [Part -> BOOLEAN] /\ wanted' \in BOOLEAN
    BY <1>3 DEF TypeOK, HandleSignals, Perform
  <2>4. \E S \in SUBSET Signal :
            did' = [q \in Part |-> IF q \in {p} THEN did[q] \cup S ELSE did[q]]
    BY <1>3, <2>1 DEF HandleSignals, Perform, Signal
  <2>5. did' \in [Part -> SUBSET (Signal \cup {"checkpoint", "shutdown", "console",
                                            "ended"})]
    BY <2>4 DEF TypeOK
  <2> QED
    BY <1>3, <2>2, <2>3, <2>5 DEF TypeOK, HandleSignals, flags
<1>4. CASE CheckpointRequest(p) \/ LoadGenerate(p) \/ UnsetGenerate(p)
  <2>1. pc' \in [Part -> Label]
    BY <1>4 DEF TypeOK, CheckpointRequest, LoadGenerate, UnsetGenerate, Goto, Label,
         Barriers, ThreadBarriers
  <2>2. generate' \in [Part -> BOOLEAN] /\ ckptGenerate' \in [Ranks -> BOOLEAN]
    BY <1>4 DEF TypeOK, CheckpointRequest, LoadGenerate, UnsetGenerate, Flags, flags, asked
  <2> QED
    BY <1>4, <2>1, <2>2 DEF TypeOK, CheckpointRequest, LoadGenerate, UnsetGenerate, flags,
      asked
<1>5. CASE HandleFlags(p) \/ EndCheck(p)
  <2>1. \E l \in Label : Goto(p, l)
    BY <1>5 DEF HandleFlags, EndCheck, Label, Barriers, ThreadBarriers, ExitBarrier
  <2>2. pc' \in [Part -> Label]
    BY <2>1 DEF TypeOK, Goto
  <2>3. \/ did' = did /\ endSim' = endSim
        \/ /\ endSim' = [endSim EXCEPT ![p] = TRUE]
           /\ \E S \in SUBSET {"shutdown", "ended"} : Do(p, S)
    BY <1>5 DEF HandleFlags, EndCheck
  <2>4. endSim' \in [Part -> BOOLEAN]
    BY <2>3 DEF TypeOK
  <2>5. did' \in [Part -> SUBSET (Signal \cup {"checkpoint", "shutdown", "console",
                                            "ended"})]
    <3>1. CASE did' = did
      BY <3>1 DEF TypeOK
    <3>2. CASE \E S \in SUBSET {"shutdown", "ended"} : Do(p, S)
      <4>1. PICK S \in SUBSET {"shutdown", "ended"} : Do(p, S)
        BY <3>2
      <4>2. did[p] \cup S \in SUBSET (Signal \cup {"checkpoint", "shutdown", "console",
                                                "ended"})
        BY DEF TypeOK
      <4> QED
        BY <4>1, <4>2 DEF TypeOK, Do
    <3> QED
      BY <2>3, <3>1, <3>2
  <2> QED
    BY <1>5, <2>2, <2>4, <2>5 DEF TypeOK, HandleFlags, EndCheck, flags, asked
<1>6. CASE ClearFlags(p)
  BY <1>6 DEF TypeOK, ClearFlags, Goto, Label, Flags, NoFlags,
       Barriers, RankBarriers, ExchangeBarriers, ThreadBarriers, ExitBarrier, flags, asked
<1>7. CASE Request(p)
  <2>1. budget' \in 0 .. MaxRequests
    BY <1>7 DEF TypeOK, Request
  <2>2. /\ interactive' \in [Part -> BOOLEAN] /\ shutdown' \in [Part -> BOOLEAN]
        /\ generate' \in [Part -> BOOLEAN] /\ wanted' \in BOOLEAN
    BY <1>7 DEF TypeOK, Request
  <2> QED
    BY <1>7, <2>1, <2>2 DEF TypeOK, Request, flags
<1>8. CASE OKToEndSim(p)
  BY <1>8 DEF TypeOK, OKToEndSim, Goto, Label, ExitBarrier, flags, asked
<1> QED
  BY <1>1, <1>2, <1>3, <1>4, <1>5, <1>6, <1>7, <1>8, <1>9 DEF Step

(* So does what a rank does at once. *)
LEMMA RankType ==
    ASSUME TypeOK, ScheduleInv, NEW r \in Ranks,
           Release(r) \/ LeaveSync(r) \/ SignalArrives(r)
    PROVE  TypeOK'
<1> USE PartAssumption, OptionAssumption
<1>1. CASE Release(r)
  <2>1. \A p \in Part : Beyond(p, pc[p]) \in Label \/ pc'[p] = pc[p]
    <3> SUFFICES ASSUME NEW p \in Part, pc'[p] # pc[p]
                 PROVE  Beyond(p, pc[p]) \in Label
      OBVIOUS
    <3>1. pc[p] \in Barriers \cup ExitBarrier
      BY <1>1 DEF Release, PartsOf, TypeOK
    <3> QED
      BY <3>1 DEF Beyond, Label, Barriers, RankBarriers, ExchangeBarriers,
           ThreadBarriers, ExitBarrier
  <2>2. pc' \in [Part -> Label]
    BY <1>1, <2>1 DEF Release, TypeOK
  <2> QED
    BY <1>1, <2>2 DEF Release, TypeOK, flags, asked
<1>2. CASE LeaveSync(r)
  <2>1. sched[r].type # "RANK" /\ ~SingleRank => quota[r] # 0
    BY <1>2 DEF ScheduleInv, Fits
  <2>2. pc' \in [Part -> Label]
    BY <1>2 DEF LeaveSync, TypeOK, Label
  <2>3. quota' \in [Ranks -> Nat]
    <3>1. quota[r] \in Nat /\ ThreadSyncs[r] \in Nat
      BY DEF TypeOK
    <3>2. quota'[r] = IF sched[r].type = "RANK" THEN ThreadSyncs[r]
                      ELSE IF SingleRank THEN quota[r] ELSE quota[r] - 1
      BY <1>2 DEF LeaveSync, TypeOK
    <3>3. quota'[r] \in Nat
      BY <2>1, <3>1, <3>2
    <3> QED
      BY <1>2, <3>3 DEF LeaveSync, TypeOK
  <2> QED
    BY <1>2, <2>2, <2>3 DEF LeaveSync, TypeOK, flags, asked
<1>3. CASE SignalArrives(r)
  BY <1>3 DEF TypeOK, SignalArrives, flags, asked
<1> QED
  BY <1>1, <1>2, <1>3

(* And what all do at once. *)
LEMMA TogetherType ==
    ASSUME TypeOK, Together \/ Done
    PROVE  TypeOK'
<1> USE PartAssumption, OptionAssumption
<1>1. CASE Reduce
  BY <1>1 DEF TypeOK, Reduce, Label, Barriers, ExchangeBarriers, Flags, flags, asked
<1>2. CASE Alarm
  BY <1>2 DEF TypeOK, Alarm, Perform, Label, Signal, flags, asked
<1>3. CASE CreateCheckpoint
  BY <1>3 DEF TypeOK, CreateCheckpoint, Label, flags, asked
<1>4. CASE Console
  <2>1. pc' \in [Part -> Label]
    BY <1>4 DEF TypeOK, Console, Label, Barriers, ThreadBarriers
  <2>2. shutdown' \in [Part -> BOOLEAN]
    BY <1>4 DEF TypeOK, Console
  <2>3. budget' \in 0 .. MaxRequests
    <3>1. budget' = budget \/ (budget > 0 /\ budget' = budget - 1)
      BY <1>4 DEF Console
    <3> QED
      BY <3>1 DEF TypeOK
  <2> QED
    BY <1>4, <2>1, <2>2, <2>3 DEF TypeOK, Console, flags
<1>5. CASE ExitCheck
  <2>1. {s \in Ranks : \E q \in PartsOf(s) : primary[q]} \in SUBSET Ranks
    OBVIOUS
  <2>2. globalCount' \in [Ranks -> 0 .. Cardinality(Ranks)]
    BY <1>5, <2>1, CountType DEF ExitCheck
  <2>3. pc' \in [Part -> Label]
    BY <1>5 DEF TypeOK, ExitCheck, Label, Barriers, RankBarriers
  <2> QED
    BY <1>5, <2>2, <2>3 DEF TypeOK, ExitCheck, flags, asked
<1>6. CASE Done
  BY <1>6 DEF TypeOK, Done, vars, flags, asked
<1> QED
  BY <1>1, <1>2, <1>3, <1>4, <1>5, <1>6 DEF Together

LEMMA ScheduleStep ==
    ASSUME TypeOK, ScheduleInv, Next
    PROVE  ScheduleInv'
<1>1. CASE \E r \in Ranks : LeaveSync(r)
  <2>1. PICK r \in Ranks : LeaveSync(r)
    BY <1>1
  <2>2. \A s \in Ranks : s # r => sched'[s] = sched[s] /\ quota'[s] = quota[s]
    BY <2>1 DEF LeaveSync, TypeOK
  <2>3. Fits(sched'[r], quota'[r])
    BY <2>1 DEF LeaveSync, TypeOK
  <2> QED
    BY <2>2, <2>3 DEF ScheduleInv, Fits
<1>2. CASE UNCHANGED <<sched, quota>>
  BY <1>2 DEF ScheduleInv, Fits
<1> QED
  BY <1>1, <1>2 DEF Next, Step, Together, EnterSync, LoopCheck, AtTimeVortex, SetFlags,
    HandleSignals, CheckpointRequest, LoadGenerate, UnsetGenerate, HandleFlags, ClearFlags,
    SkipExitCheck, EndCheck, Request, OKToEndSim, Release, SignalArrives, Reduce, Alarm,
    CreateCheckpoint, Console, ExitCheck, Done, vars

-----------------------------------------------------------------------------
(* The segments of a sync. *)

(* A single rank never does a RANK sync. *)
LEMMA ScheduleType ==
    ASSUME TypeOK, SingleRank, NEW r \in Ranks
    PROVE  sched[r].type = "THREAD"
<1>1. PICK D : Schedules = {[type |-> "THREAD", due |-> d] : d \in D}
  BY DEF Schedules
<1>2. sched[r] \in {[type |-> "THREAD", due |-> d] : d \in D}
  BY <1>1 DEF TypeOK
<1> QED
  BY <1>2

LEMMA SegmentSymmetric ==
    ASSUME NEW p, NEW a, NEW b
    PROVE  Segment(p, a, b) <=> Segment(p, b, a)
BY DEF Segment, RankSegment, ThreadSegment, AloneSegment, Both

(* A thread that stays within its segment. *)
LEMMA SegmentMove ==
    ASSUME TypeOK, SegmentInv, NEW p \in Part, NEW l, Goto(p, l), sched' = sched,
           \A b : Segment(p, pc[p], b) => Segment(p, l, b)
    PROVE  SegmentInv'
<1> USE PartAssumption
<1> SUFFICES ASSUME NEW x \in Part, NEW y \in Part, RankOf[x] = RankOf[y]
             PROVE  Segment(x, pc'[x], pc'[y])
  BY DEF SegmentInv, Segment, IsRank
<1>1. pc'[p] = l /\ \A q \in Part : q # p => pc'[q] = pc[q]
  BY DEF Goto, TypeOK
<1>2. Segment(x, pc[x], pc[y])
  BY DEF SegmentInv
<1>3. \A a, b : Segment(x, a, b) <=> Segment(y, a, b)
  BY DEF Segment, IsRank
<1>4. CASE x # p /\ y # p
  BY <1>1, <1>2, <1>4
<1>5. CASE x = p /\ y # p
  BY <1>1, <1>2, <1>5
<1>6. CASE x # p /\ y = p
  BY <1>1, <1>2, <1>3, <1>6, SegmentSymmetric
<1>7. CASE x = p /\ y = p
  <2>1. Segment(p, l, pc[p])
    BY <1>2, <1>7
  <2>2. Segment(p, l, l)
    BY <2>1, SegmentSymmetric
  <2> QED
    BY <1>1, <1>7, <2>2
<1> QED
  BY <1>4, <1>5, <1>6, <1>7

(* The segments of the ranks that do not move. *)
LEMMA SegmentElsewhere ==
    ASSUME SegmentInv, NEW r \in Ranks,
           \A p \in Part : RankOf[p] # r =>
                /\ pc'[p] = pc[p]
                /\ sched'[RankOf[p]] = sched[RankOf[p]],
           \A p, q \in Part : RankOf[p] = r /\ RankOf[q] = r =>
                Segment(p, pc[p], pc[q])'
    PROVE  SegmentInv'
<1> SUFFICES ASSUME NEW x \in Part, NEW y \in Part, RankOf[x] = RankOf[y], RankOf[x] # r
             PROVE  Segment(x, pc[x], pc[y])'
  BY DEF SegmentInv
<1>1. Segment(x, pc[x], pc[y])
  BY DEF SegmentInv
<1> QED
  BY <1>1 DEF Segment, IsRank

LEMMA StepSegment ==
    ASSUME TypeOK, SegmentInv, NEW p \in Part,
           Step(p) \/ Request(p) \/ OKToEndSim(p)
    PROVE  SegmentInv'
<1> USE PartAssumption, OptionAssumption
<1>1. Segment(p, pc[p], pc[p])
  BY DEF SegmentInv
<1>2. CASE EnterSync(p)
  BY <1>2, SegmentMove DEF EnterSync, Segment, IsRank, RankSegment, ThreadSegment,
    AloneSegment, Both, Idle
<1>3. CASE LoopCheck(p)
  BY <1>3, SegmentMove DEF LoopCheck, Segment, IsRank, RankSegment, ThreadSegment,
    AloneSegment, Both, Idle
<1>4. CASE AtTimeVortex(p)
  BY <1>1, <1>4, SegmentMove DEF AtTimeVortex, Segment, IsRank, RankSegment,
    ThreadSegment, AloneSegment, Both, Idle
<1>5. CASE SetFlags(p)
  BY <1>1, <1>5, SegmentMove DEF SetFlags, Segment, IsRank, RankSegment, ThreadSegment,
    AloneSegment, Both, Idle
<1>6. CASE HandleSignals(p)
  BY <1>1, <1>6, SegmentMove DEF HandleSignals, FlagsOf, Segment, IsRank, RankSegment,
    ThreadSegment, AloneSegment, Both, Idle
<1>7. CASE CheckpointRequest(p)
  BY <1>1, <1>7, SegmentMove DEF CheckpointRequest, Segment, IsRank, RankSegment,
    ThreadSegment, AloneSegment, Both, Idle
<1>8. CASE LoadGenerate(p) \/ UnsetGenerate(p)
  BY <1>1, <1>8, SegmentMove DEF LoadGenerate, UnsetGenerate, Segment, IsRank,
    RankSegment, ThreadSegment, AloneSegment, Both, Idle
<1>9. CASE HandleFlags(p)
  BY <1>1, <1>9, SegmentMove DEF HandleFlags, Segment, IsRank, RankSegment,
    ThreadSegment, AloneSegment, Both, Idle
<1>10. CASE ClearFlags(p) \/ SkipExitCheck(p)
  BY <1>1, <1>10, SegmentMove DEF ClearFlags, SkipExitCheck, Segment, IsRank,
    RankSegment, ThreadSegment, AloneSegment, Both, Idle
<1>11. CASE EndCheck(p)
  BY <1>1, <1>11, SegmentMove DEF EndCheck, Segment, IsRank, RankSegment, ThreadSegment,
    AloneSegment, Both, Idle
<1>12. CASE Request(p)
  BY <1>12 DEF Request, SegmentInv, Segment, IsRank
<1>13. CASE OKToEndSim(p)
  <2>1. CASE Independent
    <3>1. ~IsRank(p)
      BY <2>1, ScheduleType DEF Independent, IsRank
    <3> QED
      BY <1>1, <1>13, <2>1, <3>1, SegmentMove DEF OKToEndSim, Independent, Segment,
        AloneSegment, Both, Idle
  <2>2. CASE ~Independent
    BY <1>13, <2>2 DEF OKToEndSim, SegmentInv, Segment, IsRank
  <2> QED
    BY <2>1, <2>2
<1> QED
  BY <1>2, <1>3, <1>4, <1>5, <1>6, <1>7, <1>8, <1>9, <1>10, <1>11, <1>12, <1>13 DEF Step

(* All threads of a rank pass a barrier at once. *)
LEMMA ReleaseSegment ==
    ASSUME TypeOK, SegmentInv, NEW r \in Ranks, Release(r)
    PROVE  SegmentInv'
<1> USE PartAssumption
<1>1. \A p \in Part : RankOf[p] # r => pc'[p] = pc[p]
  BY DEF Release, TypeOK
<1>2. sched' = sched
  BY DEF Release
<1>3. ASSUME NEW p \in Part, NEW q \in Part, RankOf[p] = r, RankOf[q] = r
      PROVE  Segment(p, pc'[p], pc'[q])
  <2>1. pc'[p] = Beyond(p, pc[p]) /\ pc'[q] = Beyond(q, pc[q])
    BY <1>3 DEF Release, TypeOK
  <2>2. Segment(p, pc[p], pc[q])
    BY <1>3 DEF SegmentInv
  <2>3. CASE pc[p] \in Barriers /\ pc[q] = pc[p]
    BY <2>1, <2>2, <2>3 DEF Segment, RankSegment, ThreadSegment, AloneSegment, Both, Idle,
      Beyond, Barriers, RankBarriers, ExchangeBarriers, ThreadBarriers
  <2>4. CASE pc[p] \in ExitBarrier /\ pc[q] \in ExitBarrier
    BY <2>1, <2>2, <2>4 DEF Segment, RankSegment, ThreadSegment, AloneSegment, Both, Idle,
      Beyond, ExitBarrier
  <2> QED
    BY <1>3, <2>3, <2>4 DEF Release, PartsOf
<1>4. \A p, q \in Part : RankOf[p] = r /\ RankOf[q] = r => Segment(p, pc[p], pc[q])'
  BY <1>2, <1>3 DEF Segment, IsRank
<1> QED
  BY <1>1, <1>2, <1>4, SegmentElsewhere

LEMMA LeaveSegment ==
    ASSUME TypeOK, SegmentInv, NEW r \in Ranks, LeaveSync(r)
    PROVE  SegmentInv'
<1> USE PartAssumption
<1>1. \A p \in Part : RankOf[p] # r =>
            pc'[p] = pc[p] /\ sched'[RankOf[p]] = sched[RankOf[p]]
  BY DEF LeaveSync, TypeOK
<1>2. \A p \in Part : RankOf[p] = r => pc'[p] = "check"
  BY DEF LeaveSync, TypeOK
<1>3. \A p, q \in Part : RankOf[p] = r /\ RankOf[q] = r => Segment(p, pc[p], pc[q])'
  BY <1>2 DEF Segment, RankSegment, ThreadSegment, AloneSegment, Both, Idle
<1> QED
  BY <1>1, <1>3, SegmentElsewhere

(* What threads do at once is within one segment. *)
LEMMA TogetherSegment ==
    ASSUME TypeOK, SegmentInv, Together \/ Done
    PROVE  SegmentInv'
<1> USE PartAssumption
<1> SUFFICES ASSUME NEW p \in Part, NEW q \in Part, RankOf[p] = RankOf[q]
             PROVE  Segment(p, pc[p], pc[q])'
  BY DEF SegmentInv
<1>1. sched' = sched
  BY DEF Together, Reduce, Alarm, CreateCheckpoint, Console, ExitCheck, Done, vars
<1>2. Segment(p, pc[p], pc[q])
  BY DEF SegmentInv
<1>3. \A m \in Masters : m \in Part
  BY DEF Masters
<1>4. CASE Reduce
  BY <1>1, <1>2, <1>3, <1>4 DEF Reduce, TypeOK, Segment, IsRank, RankSegment,
    ThreadSegment, AloneSegment, Both, Idle
<1>5. CASE Alarm
  BY <1>1, <1>2, <1>5 DEF Alarm, TypeOK, Segment, IsRank, RankSegment,
    ThreadSegment, AloneSegment, Both, Idle
<1>6. CASE CreateCheckpoint
  BY <1>1, <1>2, <1>6 DEF CreateCheckpoint, TypeOK, Segment, IsRank, RankSegment,
    ThreadSegment, AloneSegment, Both, Idle
<1>7. CASE Console
  BY <1>1, <1>2, <1>7 DEF Console, TypeOK, Segment, IsRank, RankSegment,
    ThreadSegment, AloneSegment, Both, Idle
<1>8. CASE ExitCheck
  BY <1>1, <1>2, <1>3, <1>8 DEF ExitCheck, TypeOK, Segment, IsRank, RankSegment,
    ThreadSegment, AloneSegment, Both, Idle
<1>9. CASE Done
  BY <1>1, <1>2, <1>9 DEF Done, vars, Segment, IsRank
<1> QED
  BY <1>4, <1>5, <1>6, <1>7, <1>8, <1>9 DEF Together

LEMMA BaseInit == Init => BaseInd
<1> SUFFICES ASSUME Init PROVE SegmentInv
  BY TypeInit DEF BaseInd
<1> QED
  BY DEF Init, SegmentInv, Segment, RankSegment, ThreadSegment, AloneSegment, Both, Idle

LEMMA BaseStep ==
    ASSUME BaseInd, [Next]_vars
    PROVE  BaseInd'
<1>1. CASE Next
  <2>1. ScheduleInv'
    BY <1>1, ScheduleStep DEF BaseInd
  <2>2. CASE \E p \in Part : Step(p) \/ Request(p) \/ OKToEndSim(p)
    BY <2>1, <2>2, StepType, StepSegment DEF BaseInd
  <2>3. CASE \E r \in Ranks : Release(r)
    BY <2>1, <2>3, RankType, ReleaseSegment DEF BaseInd
  <2>4. CASE \E r \in Ranks : LeaveSync(r)
    BY <2>1, <2>4, RankType, LeaveSegment DEF BaseInd
  <2>5. CASE \E r \in Ranks : SignalArrives(r)
    <3>1. TypeOK'
      BY <2>5, RankType DEF BaseInd
    <3>2. SegmentInv'
      BY <2>5 DEF SignalArrives, BaseInd, SegmentInv, Segment, IsRank
    <3> QED
      BY <2>1, <3>1, <3>2 DEF BaseInd
  <2>6. CASE Together \/ Done
    BY <2>1, <2>6, TogetherType, TogetherSegment DEF BaseInd
  <2> QED
    BY <1>1, <2>2, <2>3, <2>4, <2>5, <2>6 DEF Next
<1>2. CASE UNCHANGED vars
  BY <1>2 DEF BaseInd, TypeOK, ScheduleInv, SegmentInv, Segment, IsRank, Fits, vars, flags,
    asked
<1> QED
  BY <1>1, <1>2

LEMMA BaseAlways == Spec => []BaseInd
BY BaseInit, BaseStep, PTL DEF Spec

LEMMA NoDataRaceInd == BaseInd => NoDataRace
<1> SUFFICES ASSUME BaseInd, NEW p \in Part, NEW q \in Part, p # q, RankOf[p] = RankOf[q]
             PROVE  /\ pc[p] \in {"after", "reduce"} =>
                            pc[q] \notin {"run", "before", "deliver", "next"}
                    /\ pc[p] = "signals" /\ (ThreadLinks \/ IsRank(p)) =>
                            pc[q] # "reduce" /\ ~(pc[q] = "set" /\ IsMaster(q))
  BY DEF NoDataRace
<1>1. Segment(p, pc[p], pc[q])
  BY DEF BaseInd, SegmentInv
<1> QED
  BY <1>1 DEF Segment, RankSegment, ThreadSegment, AloneSegment, Both, Idle

(***************************************************************************)
(* No thread of a rank inserts into its TimeVortex while another one looks *)
(* at the TimeVortices of all (ThreadSync::after, the end of the exchange  *)
(* of a RankSync), and nobody sets the signals of a sync object while they *)
(* are read: the barriers of SyncManager::execute are enough, whatever the *)
(* number of threads and whichever kind of sync each rank does.            *)
(***************************************************************************)
THEOREM BarriersPreventRaces == Spec => []NoDataRace
BY BaseAlways, NoDataRaceInd, PTL

-----------------------------------------------------------------------------
(* The signals. *)

LEMMA SignalStep ==
    ASSUME ThreadLinks \/ ~SingleRank, BaseInd, [Next]_vars, NEW r \in Ranks
    PROVE  sigs[r] \ sigs'[r] \subseteq threadFlags'[r].sig \cup rankFlags'[r].sig
<1> USE PartAssumption DEF BaseInd
<1>1. CASE \E p \in Part : SetFlags(p)
  <2>1. PICK p \in Part : SetFlags(p)
    BY <1>1
  <2>2. CASE RankOf[p] = r /\ IsMaster(p) /\ IsRank(p)
    BY <2>1, <2>2 DEF SetFlags, WithFlags, TypeOK
  <2>3. CASE RankOf[p] = r /\ IsMaster(p) /\ ~IsRank(p) /\ SingleRank
    BY <2>1, <2>3 DEF SetFlags, WithFlags, TypeOK
  <2>4. CASE ~(RankOf[p] = r /\ IsMaster(p) /\ (IsRank(p) \/ SingleRank))
    BY <2>1, <2>4 DEF SetFlags, TypeOK
  <2> QED
    BY <2>2, <2>3, <2>4
<1>2. CASE \E p \in Part : LoopCheck(p)
  BY <1>2 DEF LoopCheck, TypeOK
<1>3. CASE UNCHANGED sigs
  BY <1>3
<1> QED
  BY <1>1, <1>2, <1>3 DEF Next, Step, Together, EnterSync, AtTimeVortex,
    HandleSignals, CheckpointRequest, LoadGenerate, UnsetGenerate, HandleFlags, ClearFlags,
    SkipExitCheck, EndCheck, Request, OKToEndSim, Release, LeaveSync, SignalArrives, Reduce,
    Alarm, CreateCheckpoint, Console, ExitCheck, Done, vars

(***************************************************************************)
(* A signal that thread 0 has noted (RealTimeManager::notifySignal) is not *)
(* lost in SyncManager::execute: what getSignals clears the sync object    *)
(* keeps, if there is more than one rank or the threads are linked.  With  *)
(* independent threads EmptyThreadSync drops it.                           *)
(***************************************************************************)
THEOREM SignalsAreHandedOver ==
    ASSUME ThreadLinks \/ ~SingleRank
    PROVE  Spec => SignalsReachSync
<1>1. BaseInd /\ [Next]_vars =>
        [\A r \in Ranks :
            sigs[r] \ sigs'[r] \subseteq threadFlags'[r].sig \cup rankFlags'[r].sig]_vars
  BY SignalStep
<1> QED
  BY <1>1, BaseAlways, PTL DEF Spec, SignalsReachSync

-----------------------------------------------------------------------------
(* Frames: what a step leaves alone. *)

LEMMA HeardKept ==
    ASSUME NEW p \in Part,
           sched'[RankOf[p]] = sched[RankOf[p]],
           rankFlags'[RankOf[p]].sig = rankFlags[RankOf[p]].sig,
           threadFlags'[RankOf[p]].sig = threadFlags[RankOf[p]].sig
    PROVE  Heard(p)' = Heard(p)
BY DEF Heard, FlagsOf, IsRank

LEMMA HeardType ==
    ASSUME TypeOK, NEW p \in Part
    PROVE  Heard(p) \in SUBSET Signal
BY PartAssumption DEF Heard, FlagsOf, TypeOK, Flags, Signal

LEMMA DidKept ==
    ASSUME NEW p \in Part, DidAt(p), pc'[p] = pc[p], did'[p] = did[p],
           pc[p] \in Later => Heard(p)' = Heard(p),
           pc[p] \in {"exiting", "next", "rank4"} => Ended(p)' = Ended(p)
    PROVE  DidAt(p)'
BY DEF DidAt, Later, Decided, Early

LEMMA TogetherKept ==
    ASSUME TogetherInv,
           \A p \in Part : Syncing(p)' => Syncing(p),
           \A r \in Ranks : Reduced(r)' => Reduced(r),
           \A p \in Part : /\ "checkpoint" \in did'[p] <=> "checkpoint" \in did[p]
                           /\ "console" \in did'[p] <=> "console" \in did[p]
    PROVE  TogetherInv'
BY PartAssumption DEF TogetherInv, SameSync

LEMMA ReducedKept ==
    ASSUME ReducedInv,
           \A r, s \in Ranks : globalCount'[r] = globalCount'[s],
           \A r \in Ranks : Reduced(r)' =>
                Reduced(r) /\ rankFlags'[r].sig = rankFlags[r].sig,
           \A p \in Part : Reduced(RankOf[p])' => (ShutsDown(p)' <=> ShutsDown(p))
    PROVE  ReducedInv'
BY PartAssumption DEF ReducedInv

LEMMA HeldKept ==
    ASSUME HeldInv,
           \A p \in Part : Syncing(p)' =>
                Syncing(p) /\ sched'[RankOf[p]] = sched[RankOf[p]],
           \A p \in Part : /\ "shutdown" \in did'[p] <=> "shutdown" \in did[p]
                           /\ pc'[p] = "ic2" <=> pc[p] = "ic2"
    PROVE  HeldInv'
BY DEF HeldInv, IsRank

(* A step of thread p that is about none of the decisions. *)
LEMMA QuietMove ==
    ASSUME SyncInd, NEW p \in Part, NEW l, Goto(p, l),
           UNCHANGED <<sched, did, globalCount, primary>>,
           \A r \in Ranks : /\ rankFlags'[r].sig = rankFlags[r].sig
                            /\ threadFlags'[r].sig = threadFlags[r].sig,
           \A q \in Part : Reduced(RankOf[q]) /\ pc[q] \notin Decided =>
                rankFlags'[RankOf[q]].shutdown = rankFlags[RankOf[q]].shutdown,
           DidAt(p)',
           l \in Early \cup Later => Syncing(p),
           IsRank(p) /\ IsMaster(p) /\ l \in AfterReduce => pc[p] \in AfterReduce,
           pc[p] \in Decided <=> l \in Decided,
           pc[p] # "ic2", l # "ic2"
    PROVE  DidInv' /\ TogetherInv' /\ ReducedInv' /\ HeldInv'
<1> USE PartAssumption
<1>1. pc'[p] = l /\ \A q \in Part : q # p => pc'[q] = pc[q]
  BY DEF SyncInd, BaseInd, TypeOK, Goto
<1>2. DidInv'
  <2> SUFFICES ASSUME NEW q \in Part, q # p PROVE DidAt(q)'
    BY DEF DidInv
  <2>1. Heard(q)' = Heard(q)
    BY HeardKept
  <2>2. Ended(q)' = Ended(q)
    BY DEF Ended, IsRank
  <2> QED
    BY <1>1, <2>1, <2>2, DidKept DEF SyncInd, DidInv
<1>3. \A q \in Part : Syncing(q)' => Syncing(q)
  BY <1>1 DEF Syncing
<1>4. \A r \in Ranks : Reduced(r)' => Reduced(r)
  BY <1>1 DEF Reduced, IsRank, IsMaster
<1>5. TogetherInv'
  BY <1>3, <1>4, TogetherKept DEF SyncInd
<1>6. ReducedInv'
  <2>1. \A q \in Part : Reduced(RankOf[q])' => (ShutsDown(q)' <=> ShutsDown(q))
    BY <1>1, <1>4 DEF ShutsDown
  <2> QED
    BY <1>4, <2>1, ReducedKept DEF SyncInd, ReducedInv
<1>7. HeldInv'
  BY <1>1, <1>3, HeldKept DEF SyncInd
<1> QED
  BY <1>2, <1>5, <1>6, <1>7

-----------------------------------------------------------------------------
(* The steps of one thread. *)

DecideInd == DidInv /\ TogetherInv /\ ReducedInv /\ HeldInv

LEMMA QuietSteps ==
    ASSUME SyncInd, NEW p \in Part,
           \/ LoopCheck(p) \/ AtTimeVortex(p) \/ CheckpointRequest(p) \/ LoadGenerate(p)
           \/ UnsetGenerate(p) \/ SkipExitCheck(p)
    PROVE  DecideInd'
<1> USE PartAssumption
<1>1. /\ UNCHANGED <<sched, did, globalCount, primary>>
      /\ rankFlags' = rankFlags /\ threadFlags' = threadFlags
  BY DEF LoopCheck, AtTimeVortex, CheckpointRequest, LoadGenerate, UnsetGenerate,
    SkipExitCheck, flags
<1>2. Segment(p, pc[p], pc[p]) /\ DidAt(p) /\ TypeOK
  BY DEF SyncInd, BaseInd, SegmentInv, DidInv
<1>3. Heard(p)' = Heard(p) /\ Ended(p)' = Ended(p)
  BY <1>1, HeardKept DEF Ended, IsRank
<1>4. CASE LoopCheck(p)
  <2>1. PICK l \in Idle : Goto(p, l)
    BY <1>4 DEF LoopCheck, Idle
  <2>2. pc'[p] = l
    BY <1>2, <2>1 DEF Goto, TypeOK
  <2>3. DidAt(p)'
    BY <2>2 DEF DidAt, Idle, Early, Later, Decided
  <2>4. pc[p] \in Idle
    BY <1>4 DEF LoopCheck, Idle
  <2> QED
    BY <1>1, <2>1, <2>3, <2>4, QuietMove DEF DecideInd, Idle, Early, Later, Decided,
      AfterReduce
<1>5. CASE AtTimeVortex(p)
  <2>1. PICK l \in Label : Goto(p, l) /\
            \/ pc[p] = "before" /\ l \in {"rank1", "thread1"}
            \/ pc[p] = "deliver" /\ l = "slaveExchangeDone"
            \/ pc[p] = "after" /\ l \in {"signals", "thread2"}
            \/ pc[p] = "next" /\ l = "rank4"
    BY <1>5 DEF AtTimeVortex, Label, Barriers, RankBarriers, ExchangeBarriers,
      ThreadBarriers
  <2>2. pc'[p] = l
    BY <1>2, <2>1 DEF Goto, TypeOK
  <2>3. DidAt(p)'
    BY <1>1, <1>2, <1>3, <2>1, <2>2 DEF DidAt, Early, Later, Decided
  <2> QED
    BY <1>1, <2>1, <2>3, QuietMove DEF DecideInd, Syncing, Early, Later, Decided,
      AfterReduce
<1>6. CASE CheckpointRequest(p) \/ LoadGenerate(p) \/ UnsetGenerate(p) \/ SkipExitCheck(p)
  <2>1. PICK l \in Label : Goto(p, l) /\
            \/ pc[p] = "request" /\ l \in {"checkpoint", "flags", "ic1"}
            \/ pc[p] = "load" /\ l \in {"checkpoint", "unset"}
            \/ pc[p] = "unset" /\ l = "flags"
            \/ pc[p] = "exit" /\ l = "rank3"
    BY <1>6 DEF CheckpointRequest, LoadGenerate, UnsetGenerate, SkipExitCheck, Label,
      Barriers, RankBarriers, ThreadBarriers
  <2>2. pc'[p] = l
    BY <1>2, <2>1 DEF Goto, TypeOK
  <2>3. DidAt(p)'
    BY <1>1, <1>2, <1>3, <2>1, <2>2 DEF DidAt, Early, Later, Decided
  <2> QED
    BY <1>1, <2>1, <2>3, QuietMove DEF DecideInd, Syncing, Early, Later, Decided,
      AfterReduce
<1> QED
  BY <1>4, <1>5, <1>6

LEMMA ClearStep ==
    ASSUME SyncInd, NEW p \in Part, ClearFlags(p)
    PROVE  DecideInd'
<1> USE PartAssumption
<1>1. /\ UNCHANGED <<sched, did, globalCount, primary>>
      /\ \A r \in Ranks : /\ rankFlags'[r].sig = rankFlags[r].sig
                          /\ threadFlags'[r].sig = threadFlags[r].sig
      /\ \A r \in Ranks : r # RankOf[p] \/ ~IsRank(p) => rankFlags'[r] = rankFlags[r]
  BY DEF ClearFlags, SyncInd, BaseInd, TypeOK, Flags, NoFlags
<1>2. TypeOK /\ DidAt(p)
  BY DEF SyncInd, BaseInd, DidInv
<1>3. Heard(p)' = Heard(p) /\ Ended(p)' = Ended(p)
  BY <1>1, HeardKept DEF Ended, IsRank
<1>4. PICK l \in {"rank5", "end"} : Goto(p, l) /\ pc[p] = "clear"
  BY DEF ClearFlags
<1>5. pc'[p] = l
  BY <1>2, <1>4 DEF Goto, TypeOK
<1>6. DidAt(p)'
  BY <1>1, <1>2, <1>3, <1>4, <1>5 DEF DidAt, Early, Later, Decided
<1>7. \A q \in Part : Reduced(RankOf[q]) /\ pc[q] \notin Decided =>
                rankFlags'[RankOf[q]].shutdown = rankFlags[RankOf[q]].shutdown
  <2> SUFFICES ASSUME NEW q \in Part, RankOf[q] = RankOf[p], IsRank(p)
               PROVE  pc[q] \in Decided
    BY <1>1
  <2>1. Segment(p, "clear", pc[q])
    BY <1>4 DEF SyncInd, BaseInd, SegmentInv
  <2> QED
    BY <2>1 DEF Segment, RankSegment, Both, Idle, Decided
<1> QED
  BY <1>1, <1>4, <1>6, <1>7, QuietMove DEF DecideInd, Syncing, Early, Later, Decided,
    AfterReduce

(* Nothing changes that the invariant is about. *)
LEMMA RequestStep ==
    ASSUME SyncInd,
           UNCHANGED <<pc, sched, did, globalCount, primary, rankFlags, threadFlags>>
    PROVE  DecideInd'
BY DEF SyncInd, DecideInd, DidInv, DidAt, Heard, FlagsOf, Ended, IsRank, TogetherInv,
  SameSync, Syncing, Reduced, ReducedInv, ShutsDown, HeldInv

LEMMA OKToEndStep ==
    ASSUME SyncInd, NEW p \in Part, OKToEndSim(p)
    PROVE  DecideInd'
<1> USE PartAssumption
<1>1. /\ UNCHANGED <<sched, did, globalCount, rankFlags, threadFlags>>
      /\ primary' = [primary EXCEPT ![p] = FALSE]
      /\ pc[p] = "run"
  BY DEF OKToEndSim, flags
<1>2. /\ \A q \in Part : q # p => pc'[q] = pc[q]
      /\ pc'[p] \in {"run", "stopping"}
      /\ TypeOK
  BY <1>1 DEF OKToEndSim, Goto, SyncInd, BaseInd, TypeOK
<1>3. DidInv'
  <2> SUFFICES ASSUME NEW q \in Part PROVE DidAt(q)'
    BY DEF DidInv
  <2>1. CASE q = p
    BY <1>2, <2>1 DEF DidAt, Early, Later, Decided
  <2>2. CASE q # p
    <3>1. Heard(q)' = Heard(q)
      BY <1>1, HeardKept
    <3>2. pc[q] \in {"exiting", "next", "rank4"} => Ended(q)' = Ended(q)
      <4> SUFFICES ASSUME pc[q] \in {"exiting", "next", "rank4"} PROVE Ended(q)' = Ended(q)
        OBVIOUS
      <4>1. RankOf[q] # RankOf[p]
        <5> SUFFICES ASSUME RankOf[q] = RankOf[p] PROVE FALSE
          OBVIOUS
        <5>1. Segment(p, "run", pc[q])
          BY <1>1 DEF SyncInd, BaseInd, SegmentInv
        <5> QED
          BY <5>1 DEF Segment, RankSegment, ThreadSegment, AloneSegment, Both, Idle
      <4>2. \A x \in PartsOf(RankOf[q]) : primary'[x] = primary[x]
        BY <1>1, <1>2, <4>1 DEF PartsOf, TypeOK
      <4> QED
        BY <1>1, <4>2 DEF Ended, IsRank
    <3> QED
      BY <1>1, <1>2, <2>2, <3>1, <3>2, DidKept DEF SyncInd, DidInv
  <2> QED
    BY <2>1, <2>2
<1>4. \A q \in Part : Syncing(q)' => Syncing(q)
  BY <1>2 DEF Syncing, Early, Later, Decided
<1>5. \A r \in Ranks : Reduced(r)' => Reduced(r)
  BY <1>1, <1>2 DEF Reduced, AfterReduce, Later, Decided
<1>6. TogetherInv'
  BY <1>1, <1>4, <1>5, TogetherKept DEF SyncInd
<1>7. ReducedInv'
  <2>1. \A q \in Part : (ShutsDown(q)' <=> ShutsDown(q))
    BY <1>1, <1>2 DEF ShutsDown, Decided
  <2> QED
    BY <1>1, <1>5, <2>1, ReducedKept DEF SyncInd, ReducedInv
<1>8. HeldInv'
  BY <1>1, <1>2, <1>4, HeldKept DEF SyncInd
<1> QED
  BY <1>3, <1>6, <1>7, <1>8 DEF DecideInd

(* EnterSync: the thread has done nothing, and nor has a thread it meets. *)
LEMMA EnterStep ==
    ASSUME SyncInd, NEW p \in Part, EnterSync(p)
    PROVE  DecideInd'
<1> USE PartAssumption
<1>1. /\ UNCHANGED <<sched, globalCount, primary, rankFlags, threadFlags>>
      /\ pc[p] = "run"
  BY DEF EnterSync, flags
<1>2. /\ \A q \in Part : q # p => pc'[q] = pc[q] /\ did'[q] = did[q]
      /\ pc'[p] \in {"rank0", "set"} /\ did'[p] = {}
      /\ TypeOK
  BY DEF EnterSync, Goto, SyncInd, BaseInd, TypeOK
<1>3. DidInv'
  <2> SUFFICES ASSUME NEW q \in Part PROVE DidAt(q)'
    BY DEF DidInv
  <2>1. CASE q = p
    BY <1>2, <2>1 DEF DidAt, Early, Later, Decided
  <2>2. CASE q # p
    <3>1. Heard(q)' = Heard(q) /\ Ended(q)' = Ended(q)
      BY <1>1, HeardKept DEF Ended, IsRank
    <3> QED
      BY <1>1, <1>2, <2>2, <3>1, DidKept DEF SyncInd, DidInv
  <2> QED
    BY <2>1, <2>2
<1>4. \A q \in Part : q # p /\ Syncing(q)' => Syncing(q)
  BY <1>2 DEF Syncing
<1>5. \A r \in Ranks : Reduced(r)' => Reduced(r) /\ r # RankOf[p]
  <2> SUFFICES ASSUME NEW r \in Ranks, Reduced(r)' PROVE Reduced(r) /\ r # RankOf[p]
    OBVIOUS
  <2>1. Master[r] # p /\ Reduced(r)
    BY <1>1, <1>2 DEF Reduced, AfterReduce, Later, Decided
  <2>2. CASE r = RankOf[p]
    <3>1. Segment(p, "run", pc[Master[r]])
      BY <1>1, <2>2 DEF SyncInd, BaseInd, SegmentInv
    <3>2. IsRank(p)
      BY <2>1, <2>2 DEF Reduced, IsRank
    <3> QED
      BY <2>1, <3>1, <3>2 DEF Segment, RankSegment, Both, Idle, Reduced, AfterReduce,
        Later, Decided
  <2> QED
    BY <2>1, <2>2
<1>6. ASSUME NEW q \in Part, RankOf[q] = RankOf[p], Syncing(q)'
      PROVE  did'[q] \cap {"checkpoint", "console", "shutdown"} = {}
  <2>1. CASE q = p
    BY <1>2, <2>1
  <2>2. CASE q # p
    <3>1. Segment(p, "run", pc[q]) /\ Syncing(q) /\ DidAt(q)
      BY <1>1, <1>4, <1>6, <2>2 DEF SyncInd, BaseInd, SegmentInv, DidInv
    <3>2. pc[q] \in Early \cup {"request", "ic1"}
      BY <3>1 DEF Segment, RankSegment, ThreadSegment, AloneSegment, Both, Idle, Syncing,
        Early, Later, Decided
    <3>3. did[q] = {} \/ did[q] = Heard(q)
      BY <3>1, <3>2 DEF DidAt
    <3>4. Heard(q) \subseteq {"end", "usr", "alrm"}
      BY <1>2, HeardType DEF Signal
    <3> QED
      BY <1>2, <2>2, <3>3, <3>4
  <2> QED
    BY <2>1, <2>2
<1>7. TogetherInv'
  <2> SUFFICES ASSUME NEW x \in Part, NEW y \in Part, SameSync(x, y)'
               PROVE  /\ "checkpoint" \in did'[x] <=> "checkpoint" \in did'[y]
                      /\ "console" \in did'[x] <=> "console" \in did'[y]
    BY DEF TogetherInv
  <2>1. CASE RankOf[x] = RankOf[p] /\ RankOf[y] = RankOf[p]
    <3>1. Syncing(x)' /\ Syncing(y)'
      BY <1>5, <2>1 DEF SameSync
    <3> QED
      BY <1>6, <2>1, <3>1
  <2>2. CASE RankOf[x] # RankOf[p] \/ RankOf[y] # RankOf[p]
    <3>1. x # p /\ y # p
      BY <1>5, <2>2 DEF SameSync
    <3>2. SameSync(x, y)
      BY <1>4, <1>5, <3>1 DEF SameSync
    <3> QED
      BY <1>2, <3>1, <3>2 DEF SyncInd, TogetherInv
  <2> QED
    BY <2>1, <2>2
<1>8. ReducedInv'
  <2>1. \A q \in Part : Reduced(RankOf[q])' => (ShutsDown(q)' <=> ShutsDown(q))
    BY <1>1, <1>2, <1>5 DEF ShutsDown
  <2> QED
    BY <1>1, <1>5, <2>1, ReducedKept DEF SyncInd, ReducedInv
<1>9. HeldInv'
  <2> SUFFICES ASSUME NEW x \in Part, NEW y \in Part, RankOf[x] = RankOf[y],
                      ~IsRank(x)', Syncing(x)', Syncing(y)',
                      "shutdown" \in did'[x], "shutdown" \notin did'[y]
               PROVE  pc'[x] = "ic2" /\ pc'[y] # "ic2"
    BY DEF HeldInv
  <2>1. RankOf[x] # RankOf[p]
    BY <1>6
  <2>2. x # p /\ y # p /\ Syncing(x) /\ Syncing(y) /\ ~IsRank(x)
    BY <1>1, <1>4, <2>1 DEF IsRank
  <2> QED
    BY <1>2, <2>2 DEF SyncInd, HeldInv
<1> QED
  BY <1>3, <1>7, <1>8, <1>9 DEF DecideInd

(* SetFlags: nobody is past the reduction, or the barrier, of this sync. *)
LEMMA SetStep ==
    ASSUME SyncInd, NEW p \in Part, SetFlags(p)
    PROVE  DecideInd'
<1> USE PartAssumption
<1>1. UNCHANGED <<sched, did, globalCount, primary>> /\ pc[p] = "set"
  BY DEF SetFlags
<1>2. /\ \A q \in Part : q # p => pc'[q] = pc[q]
      /\ pc'[p] \in {"serializeReady", "thread0", "signals"}
      /\ IsRank(p) => pc'[p] = "serializeReady"
      /\ TypeOK
  BY DEF SetFlags, Goto, SyncInd, BaseInd, TypeOK
<1>3. /\ \A r \in Ranks : r # RankOf[p] =>
            rankFlags'[r] = rankFlags[r] /\ threadFlags'[r] = threadFlags[r]
      /\ ~IsRank(p) => rankFlags' = rankFlags
      /\ IsRank(p) \/ ~ThreadLinks => threadFlags' = threadFlags
  BY <1>2 DEF SetFlags, TypeOK
<1>4. DidInv'
  <2> SUFFICES ASSUME NEW q \in Part PROVE DidAt(q)'
    BY DEF DidInv
  <2>1. CASE q = p
    <3>1. did[p] = {}
      BY <1>1 DEF SyncInd, DidInv, DidAt, Early
    <3> QED
      BY <1>1, <1>2, <2>1, <3>1 DEF DidAt, Early, Later, Decided
  <2>2. CASE q # p
    <3>1. ASSUME pc[q] \in Later PROVE Heard(q)' = Heard(q)
      <4>1. CASE RankOf[q] # RankOf[p]
        BY <1>1, <1>3, <4>1, HeardKept
      <4>2. CASE RankOf[q] = RankOf[p]
        <5>1. Segment(p, "set", pc[q])
          BY <1>1, <4>2 DEF SyncInd, BaseInd, SegmentInv
        <5>2. ~IsRank(p) /\ ~ThreadLinks
          BY <3>1, <5>1 DEF Segment, RankSegment, ThreadSegment, Both, Idle, Later, Decided
        <5> QED
          BY <1>1, <1>3, <5>2, HeardKept
      <4> QED
        BY <4>1, <4>2
    <3>2. Ended(q)' = Ended(q)
      BY <1>1 DEF Ended, IsRank
    <3> QED
      BY <1>1, <1>2, <2>2, <3>1, <3>2, DidKept DEF SyncInd, DidInv
  <2> QED
    BY <2>1, <2>2
<1>5. \A q \in Part : Syncing(q)' => Syncing(q)
  BY <1>1, <1>2 DEF Syncing, Early
<1>6. \A r \in Ranks : Reduced(r)' => Reduced(r) /\ rankFlags'[r] = rankFlags[r]
  <2> SUFFICES ASSUME NEW r \in Ranks, Reduced(r)'
               PROVE  Reduced(r) /\ rankFlags'[r] = rankFlags[r]
    OBVIOUS
  <2>1. Master[r] # p /\ Reduced(r)
    BY <1>1, <1>2 DEF Reduced, AfterReduce, Later, Decided, IsRank
  <2>2. CASE r = RankOf[p]
    <3>1. Segment(p, "set", pc[Master[r]])
      BY <1>1, <2>2 DEF SyncInd, BaseInd, SegmentInv
    <3>2. IsRank(p)
      BY <2>1, <2>2 DEF Reduced, IsRank
    <3> QED
      BY <2>1, <3>1, <3>2 DEF Segment, RankSegment, Both, Idle, Reduced, AfterReduce,
        Later, Decided
  <2> QED
    BY <1>3, <2>1, <2>2
<1>7. TogetherInv'
  BY <1>1, <1>5, <1>6, TogetherKept DEF SyncInd
<1>8. ReducedInv'
  <2>1. \A q \in Part : Reduced(RankOf[q])' => (ShutsDown(q)' <=> ShutsDown(q))
    BY <1>1, <1>2, <1>6 DEF ShutsDown, Decided
  <2> QED
    BY <1>1, <1>6, <2>1, ReducedKept DEF SyncInd, ReducedInv
<1>9. HeldInv'
  BY <1>1, <1>2, <1>5, HeldKept DEF SyncInd
<1> QED
  BY <1>4, <1>7, <1>8, <1>9 DEF DecideInd

(* HandleSignals: what a thread does is what it has heard. *)
LEMMA SignalsStep ==
    ASSUME SyncInd, NEW p \in Part, HandleSignals(p)
    PROVE  DecideInd'
<1> USE PartAssumption
<1>1. /\ UNCHANGED <<sched, globalCount, primary, rankFlags, threadFlags>>
      /\ pc[p] = "signals"
  BY DEF HandleSignals, flags
<1>2. TypeOK /\ Segment(p, "signals", "signals") /\ did[p] = {}
  BY <1>1 DEF SyncInd, BaseInd, SegmentInv, DidInv, DidAt, Early
<1>3. Heard(p) = IF "end" \in FlagsOf(p).sig THEN {"end"} ELSE FlagsOf(p).sig
  BY <1>2 DEF Heard, FlagsOf, Segment, RankSegment, ThreadSegment, Both, Idle
<1>4. /\ \A q \in Part : q # p => pc'[q] = pc[q] /\ did'[q] = did[q]
      /\ did'[p] = Heard(p) \ {"alrm"}
      /\ pc'[p] = IF "alrm" \in Heard(p) THEN "alarm" ELSE "request"
  BY <1>2, <1>3 DEF HandleSignals, Perform, Goto, TypeOK
<1>5. \A q \in Part : Heard(q)' = Heard(q) /\ Ended(q)' = Ended(q)
  BY <1>1, HeardKept DEF Ended, IsRank
<1>6. Heard(p) \subseteq {"end", "usr", "alrm"}
  BY <1>2, HeardType DEF Signal
<1>7. DidInv'
  <2> SUFFICES ASSUME NEW q \in Part PROVE DidAt(q)'
    BY DEF DidInv
  <2>1. CASE q = p
    <3>1. CASE "alrm" \in Heard(p)
      BY <1>4, <1>5, <1>6, <2>1, <3>1 DEF DidAt, Early, Later, Decided
    <3>2. CASE "alrm" \notin Heard(p)
      BY <1>4, <1>5, <1>6, <2>1, <3>2 DEF DidAt, Early, Later, Decided, Signal
    <3> QED
      BY <3>1, <3>2
  <2>2. CASE q # p
    BY <1>4, <1>5, <2>2, DidKept DEF SyncInd, DidInv
  <2> QED
    BY <2>1, <2>2
<1>8. \A q \in Part : Syncing(q)' => Syncing(q)
  BY <1>1, <1>4 DEF Syncing, Early
<1>9. \A r \in Ranks : Reduced(r)' => Reduced(r)
  BY <1>1, <1>4 DEF Reduced, AfterReduce
<1>10. \A q \in Part : \A d \in {"checkpoint", "console", "shutdown"} :
            d \in did'[q] <=> d \in did[q]
  BY <1>2, <1>4, <1>6
<1>11. TogetherInv'
  BY <1>8, <1>9, <1>10, TogetherKept DEF SyncInd
<1>12. ReducedInv'
  <2>1. \A q \in Part : (ShutsDown(q)' <=> ShutsDown(q))
    BY <1>1, <1>4 DEF ShutsDown, Decided
  <2> QED
    BY <1>1, <1>9, <2>1, ReducedKept DEF SyncInd, ReducedInv
<1>13. HeldInv'
  BY <1>1, <1>4, <1>8, <1>10, HeldKept DEF SyncInd
<1> QED
  BY <1>7, <1>11, <1>12, <1>13 DEF DecideInd

(* HandleFlags: in a THREAD sync a thread that shuts down meets at ic2     *)
(* only threads that do, since those from the console are all there.       *)
LEMMA FlagsStep ==
    ASSUME SyncInd, NEW p \in Part, HandleFlags(p)
    PROVE  DecideInd'
<1> USE PartAssumption
<1>1. /\ UNCHANGED <<sched, globalCount, primary, rankFlags, threadFlags>>
      /\ pc[p] = "flags"
  BY DEF HandleFlags, flags
<1>2. TypeOK /\ Segment(p, "flags", "flags") /\ DidAt(p)
  BY <1>1 DEF SyncInd, BaseInd, SegmentInv, DidInv
<1> DEFINE Down == Interactive /\ FlagsOf(p).shutdown
<1>3. /\ \A q \in Part : q # p => pc'[q] = pc[q] /\ did'[q] = did[q]
      /\ did'[p] = IF Down THEN did[p] \cup {"shutdown"} ELSE did[p]
      /\ Down => pc'[p] = "ic2"
      /\ ~Down => pc'[p] \in {"console", "exit", "end"}
  BY <1>2 DEF HandleFlags, Goto, Do, TypeOK
<1>4. \A q \in Part : Heard(q)' = Heard(q) /\ Ended(q)' = Ended(q)
  BY <1>1, HeardKept DEF Ended, IsRank
<1>5. DidInv'
  <2> SUFFICES ASSUME NEW q \in Part PROVE DidAt(q)'
    BY DEF DidInv
  <2>1. CASE q = p
    <3>1. /\ did[p] \cap Signal = Heard(p)
          /\ {"shutdown", "console", "ended"} \cap did[p] = {}
      BY <1>1, <1>2 DEF DidAt, Later, Decided
    <3>2. did'[p] \cap Signal = Heard(p) /\ "ended" \notin did'[p]
      BY <1>3, <3>1 DEF Signal
    <3>3. Heard(p)' = Heard(p)
      BY <1>4
    <3>4. CASE Down
      BY <1>3, <2>1, <3>1, <3>2, <3>3, <3>4 DEF DidAt, Early, Later, Decided
    <3>5. CASE ~Down
      BY <1>3, <2>1, <3>1, <3>2, <3>3, <3>5 DEF DidAt, Early, Later, Decided
    <3> QED
      BY <3>4, <3>5
  <2>2. CASE q # p
    BY <1>3, <1>4, <2>2, DidKept DEF SyncInd, DidInv
  <2> QED
    BY <2>1, <2>2
<1>6. \A q \in Part : Syncing(q)' => Syncing(q)
  BY <1>1, <1>3 DEF Syncing, Later
<1>7. \A r \in Ranks : Reduced(r)' => Reduced(r)
  BY <1>1, <1>3 DEF Reduced, AfterReduce, Later
<1>8. \A q \in Part : \A d \in {"checkpoint", "console"} : d \in did'[q] <=> d \in did[q]
  BY <1>3
<1>9. TogetherInv'
  BY <1>6, <1>7, <1>8, TogetherKept DEF SyncInd
<1>10. "shutdown" \notin did[p] /\ "console" \notin did[p]
  BY <1>1, <1>2 DEF DidAt, Later, Decided
<1>11. ReducedInv'
  <2>1. ASSUME NEW q \in Part, Reduced(RankOf[q])'
        PROVE  (ShutsDown(q)' <=> ShutsDown(q))
    <3>1. CASE q # p
      BY <1>1, <1>3, <3>1 DEF ShutsDown
    <3>2. CASE q = p
      <4>1. IsRank(p)
        BY <1>7, <2>1, <3>2 DEF Reduced, IsRank
      <4>2. Down <=> Interactive /\ rankFlags[RankOf[p]].shutdown
        BY <4>1 DEF FlagsOf
      <4>3. ShutsDown(p) <=> Down
        BY <1>1, <4>2 DEF ShutsDown, Decided
      <4>4. ShutsDown(p)' <=> "shutdown" \in did'[p]
        BY <1>3 DEF ShutsDown, Decided
      <4>5. Down <=> "shutdown" \in did'[p]
        BY <1>3, <1>10
      <4> QED
        BY <3>2, <4>3, <4>4, <4>5
    <3> QED
      BY <3>1, <3>2
  <2> QED
    BY <1>1, <1>7, <2>1, ReducedKept DEF SyncInd, ReducedInv
<1>12. HeldInv'
  <2> SUFFICES ASSUME NEW x \in Part, NEW y \in Part, RankOf[x] = RankOf[y],
                      ~IsRank(x)', Syncing(x)', Syncing(y)',
                      "shutdown" \in did'[x], "shutdown" \notin did'[y]
               PROVE  pc'[x] = "ic2" /\ pc'[y] # "ic2"
    BY DEF HeldInv
  <2>1. ~IsRank(x) /\ Syncing(x) /\ Syncing(y)
    BY <1>1, <1>6 DEF IsRank
  <2>2. CASE x = p
    <3>1. Down /\ y # p
      BY <1>3, <1>10, <2>2
    <3>2. pc[y] # "ic2"
      <4> SUFFICES ASSUME pc[y] = "ic2" PROVE FALSE
        OBVIOUS
      <4>1. "console" \in did[y]
        BY <1>3, <3>1 DEF SyncInd, DidInv, DidAt
      <4>2. "console" \in did[p]
        BY <2>1, <2>2, <4>1 DEF SyncInd, TogetherInv, SameSync
      <4> QED
        BY <1>10, <4>2
    <3> QED
      BY <1>3, <2>2, <3>1, <3>2
  <2>3. CASE x # p
    <3>1. "shutdown" \in did[x] /\ "shutdown" \notin did[y]
      BY <1>3, <2>3
    <3>2. pc[x] = "ic2" /\ pc[y] # "ic2"
      BY <2>1, <3>1 DEF SyncInd, HeldInv
    <3>3. pc'[y] # "ic2"
      BY <1>3, <3>2
    <3> QED
      BY <1>3, <2>3, <3>2, <3>3
  <2> QED
    BY <2>2, <2>3
<1> QED
  BY <1>5, <1>9, <1>11, <1>12 DEF DecideInd

(* EndCheck: a thread ends the simulation when Ended holds. *)
LEMMA EndStep ==
    ASSUME SyncInd, NEW p \in Part, EndCheck(p)
    PROVE  DecideInd'
<1> USE PartAssumption
<1>1. /\ UNCHANGED <<sched, globalCount, primary, rankFlags, threadFlags>>
      /\ pc[p] = "end"
  BY DEF EndCheck, flags
<1>2. TypeOK /\ DidAt(p)
  BY DEF SyncInd, BaseInd, DidInv
<1>3. /\ \A q \in Part : q # p => pc'[q] = pc[q] /\ did'[q] = did[q]
      /\ did'[p] = IF Ended(p) THEN did[p] \cup {"ended"} ELSE did[p]
      /\ pc'[p] \in {"exiting", "next"}
  BY <1>2 DEF EndCheck, Ended, Goto, Do, TypeOK
<1>4. \A q \in Part : Heard(q)' = Heard(q) /\ Ended(q)' = Ended(q)
  BY <1>1, HeardKept DEF Ended, IsRank
<1>5. DidInv'
  <2> SUFFICES ASSUME NEW q \in Part PROVE DidAt(q)'
    BY DEF DidInv
  <2>1. CASE q = p
    <3>1. did[p] \cap Signal = Heard(p) /\ "ended" \notin did[p]
      BY <1>1, <1>2 DEF DidAt, Later, Decided
    <3>2. did'[p] \cap Signal = Heard(p) /\ ("ended" \in did'[p] <=> Ended(p))
      BY <1>3, <3>1 DEF Signal
    <3>3. Heard(p)' = Heard(p) /\ Ended(p)' = Ended(p)
      BY <1>4
    <3> QED
      BY <1>3, <2>1, <3>2, <3>3 DEF DidAt, Early, Later, Decided
  <2>2. CASE q # p
    BY <1>3, <1>4, <2>2, DidKept DEF SyncInd, DidInv
  <2> QED
    BY <2>1, <2>2
<1>6. \A q \in Part : Syncing(q)' => Syncing(q)
  BY <1>1, <1>3 DEF Syncing, Later, Decided
<1>7. \A r \in Ranks : Reduced(r)' => Reduced(r)
  BY <1>1, <1>3 DEF Reduced, AfterReduce, Later, Decided
<1>8. \A q \in Part : \A d \in {"checkpoint", "console", "shutdown"} :
            d \in did'[q] <=> d \in did[q]
  BY <1>3
<1>9. TogetherInv'
  BY <1>6, <1>7, <1>8, TogetherKept DEF SyncInd
<1>10. ReducedInv'
  <2>1. \A q \in Part : (ShutsDown(q)' <=> ShutsDown(q))
    BY <1>1, <1>3, <1>8 DEF ShutsDown, Decided
  <2> QED
    BY <1>1, <1>7, <2>1, ReducedKept DEF SyncInd, ReducedInv
<1>11. HeldInv'
  BY <1>1, <1>3, <1>6, <1>8, HeldKept DEF SyncInd
<1> QED
  BY <1>5, <1>9, <1>10, <1>11 DEF DecideInd

-----------------------------------------------------------------------------
(* The steps of a rank. *)

LEMMA ReleaseStep ==
    ASSUME SyncInd, NEW r \in Ranks, Release(r)
    PROVE  DecideInd'
<1> USE PartAssumption
<1>1. UNCHANGED <<sched, did, globalCount, primary, rankFlags, threadFlags>>
  BY DEF Release, flags
<1>2. TypeOK /\ SegmentInv
  BY DEF SyncInd, BaseInd
<1>3. /\ \A p \in Part : RankOf[p] # r => pc'[p] = pc[p]
      /\ \A p \in Part : RankOf[p] = r => pc'[p] = Beyond(p, pc[p])
  BY <1>2 DEF Release, TypeOK
<1>4. \A p, q \in Part : RankOf[p] = r /\ RankOf[q] = r =>
        /\ pc[p] \in Barriers \cup ExitBarrier
        /\ pc[p] = pc[q] \/ (pc[p] \in ExitBarrier /\ pc[q] \in ExitBarrier)
  BY DEF Release, PartsOf
<1>5. \A q \in Part : Heard(q)' = Heard(q) /\ Ended(q)' = Ended(q)
  BY <1>1, HeardKept DEF Ended, IsRank
<1>6. \A p \in Part : Segment(p, pc[p], pc[p]) /\ DidAt(p)
  BY DEF SyncInd, BaseInd, SegmentInv, DidInv
<1>7. ASSUME NEW p \in Part, RankOf[p] = r
      PROVE  /\ DidAt(p)'
             /\ Syncing(p)' => Syncing(p)
             /\ IsRank(p) /\ IsMaster(p) /\ pc'[p] \in AfterReduce =>
                    pc[p] \in AfterReduce
             /\ IsRank(p) => (pc'[p] \in Decided <=> pc[p] \in Decided)
             /\ pc'[p] # "ic2"
  <2> DEFINE l == pc[p]
  <2>1. pc'[p] = Beyond(p, l) /\ Segment(p, l, l) /\ DidAt(p) /\ did'[p] = did[p]
        /\ Heard(p)' = Heard(p) /\ Ended(p)' = Ended(p)
    BY <1>1, <1>3, <1>5, <1>6, <1>7
  <2>2. l \in Barriers \cup ExitBarrier
    BY <1>4, <1>7
  <2> HIDE DEF l
  <2> USE DEF Beyond, DidAt, Syncing, AfterReduce, Early, Later, Decided
  <2>3. CASE l \in {"rank0", "rank1", "rank2", "serializeReady", "allDone"}
    BY <2>1, <2>3 DEF l
  <2>9. CASE l \in {"thread0", "thread1"}
    <3>1. ~IsRank(p)
      BY <2>1, <2>9 DEF Segment, RankSegment, Both, Idle
    <3> QED
      BY <2>1, <2>9, <3>1 DEF l
  <2>4. CASE l = "slaveExchangeDone"
    BY <2>1, <2>4 DEF l
  <2>5. CASE l = "thread2" /\ SingleRank
    <3>1. ~IsRank(p)
      BY <1>7, <1>2, <2>5, ScheduleType DEF IsRank
    <3> QED
      BY <2>1, <2>5, <3>1 DEF l
  <2>6. CASE l = "thread2" /\ ~SingleRank
    <3>1. ~IsRank(p)
      BY <2>1, <2>6 DEF Segment, RankSegment, Both, Idle
    <3>2. Heard(p) = {} /\ did[p] = {}
      BY <2>1, <2>6, <3>1 DEF Heard, l
    <3> QED
      BY <2>1, <2>6, <3>1, <3>2 DEF l
  <2>7. CASE l \in {"rank3", "rank5", "ic1", "ic2", "exiting"}
    BY <2>1, <2>7 DEF l
  <2>8. CASE l = "stopping"
    BY <2>1, <2>8 DEF l
  <2> QED
    BY <2>2, <2>3, <2>4, <2>5, <2>6, <2>7, <2>8, <2>9 DEF Barriers, RankBarriers,
      ExchangeBarriers, ThreadBarriers, ExitBarrier
<1>8. DidInv'
  <2> SUFFICES ASSUME NEW q \in Part, RankOf[q] # r PROVE DidAt(q)'
    BY <1>7 DEF DidInv
  <2> QED
    BY <1>1, <1>3, <1>5, <1>6, DidKept
<1>9. \A q \in Part : Syncing(q)' => Syncing(q)
  <2> SUFFICES ASSUME NEW q \in Part, RankOf[q] # r PROVE Syncing(q)' => Syncing(q)
    BY <1>7
  <2> QED
    BY <1>3 DEF Syncing
<1>10. \A s \in Ranks : Reduced(s)' => Reduced(s)
  <2> SUFFICES ASSUME NEW s \in Ranks, Reduced(s)' PROVE Reduced(s)
    OBVIOUS
  <2>1. CASE s = r
    <3>1. IsRank(Master[s]) /\ IsMaster(Master[s])
      BY <1>1 DEF Reduced, IsRank, IsMaster
    <3> QED
      BY <1>1, <1>7, <2>1, <3>1 DEF Reduced
  <2>2. CASE s # r
    BY <1>1, <1>3, <2>2 DEF Reduced
  <2> QED
    BY <2>1, <2>2
<1>11. TogetherInv'
  BY <1>1, <1>9, <1>10, TogetherKept DEF SyncInd
<1>12. ReducedInv'
  <2>1. ASSUME NEW q \in Part, Reduced(RankOf[q])'
        PROVE  (ShutsDown(q)' <=> ShutsDown(q))
    <3>1. CASE RankOf[q] # r
      BY <1>1, <1>3, <3>1 DEF ShutsDown
    <3>2. CASE RankOf[q] = r
      <4>1. IsRank(q)
        BY <1>1, <2>1 DEF Reduced, IsRank
      <4>2. pc'[q] \in Decided <=> pc[q] \in Decided
        BY <1>7, <3>2, <4>1
      <4> QED
        BY <1>1, <4>2 DEF ShutsDown
    <3> QED
      BY <3>1, <3>2
  <2> QED
    BY <1>1, <1>10, <2>1, ReducedKept DEF SyncInd, ReducedInv
<1>13. HeldInv'
  <2> SUFFICES ASSUME NEW x \in Part, NEW y \in Part, RankOf[x] = RankOf[y],
                      ~IsRank(x)', Syncing(x)', Syncing(y)',
                      "shutdown" \in did'[x], "shutdown" \notin did'[y]
               PROVE  pc'[x] = "ic2" /\ pc'[y] # "ic2"
    BY DEF HeldInv
  <2>1. pc[x] = "ic2" /\ pc[y] # "ic2"
    BY <1>1, <1>9 DEF SyncInd, HeldInv, IsRank
  <2>2. RankOf[x] # r
    BY <1>4, <2>1 DEF ExitBarrier
  <2> QED
    BY <1>3, <2>1, <2>2
<1> QED
  BY <1>8, <1>11, <1>12, <1>13 DEF DecideInd

LEMMA LeaveStep ==
    ASSUME SyncInd, NEW r \in Ranks, LeaveSync(r)
    PROVE  DecideInd'
<1> USE PartAssumption
<1>1. UNCHANGED <<did, globalCount, primary, rankFlags, threadFlags>>
  BY DEF LeaveSync, flags
<1>2. /\ \A p \in Part : RankOf[p] # r =>
            pc'[p] = pc[p] /\ sched'[RankOf[p]] = sched[RankOf[p]]
      /\ \A p \in Part : RankOf[p] = r => pc'[p] = "check" /\ pc[p] = "rank4"
  BY DEF LeaveSync, SyncInd, BaseInd, TypeOK, PartsOf
<1>3. DidInv'
  <2> SUFFICES ASSUME NEW q \in Part PROVE DidAt(q)'
    BY DEF DidInv
  <2>1. CASE RankOf[q] = r
    BY <1>2, <2>1 DEF DidAt, Early, Later, Decided
  <2>2. CASE RankOf[q] # r
    <3>1. Heard(q)' = Heard(q)
      BY <1>1, <1>2, <2>2, HeardKept
    <3>2. Ended(q)' = Ended(q)
      BY <1>1, <1>2, <2>2 DEF Ended, IsRank
    <3> QED
      BY <1>1, <1>2, <2>2, <3>1, <3>2, DidKept DEF SyncInd, DidInv
  <2> QED
    BY <2>1, <2>2
<1>4. \A q \in Part : Syncing(q)' =>
            Syncing(q) /\ sched'[RankOf[q]] = sched[RankOf[q]]
  BY <1>2 DEF Syncing, Early, Later, Decided
<1>5. \A s \in Ranks : Reduced(s)' => Reduced(s) /\ s # r
  BY <1>2 DEF Reduced, AfterReduce, Later, Decided
<1>6. TogetherInv'
  BY <1>1, <1>4, <1>5, TogetherKept DEF SyncInd
<1>7. ReducedInv'
  <2>1. \A q \in Part : Reduced(RankOf[q])' => (ShutsDown(q)' <=> ShutsDown(q))
    BY <1>1, <1>2, <1>5 DEF ShutsDown
  <2> QED
    BY <1>1, <1>5, <2>1, ReducedKept DEF SyncInd, ReducedInv
<1>8. HeldInv'
  BY <1>1, <1>2, <1>4, HeldKept DEF SyncInd
<1> QED
  BY <1>3, <1>6, <1>7, <1>8 DEF DecideInd

-----------------------------------------------------------------------------
(* The steps of all. *)

(* At the reduction nobody has done anything. *)
LEMMA ReduceStep ==
    ASSUME SyncInd, Reduce
    PROVE  DecideInd'
<1> USE PartAssumption
<1>1. UNCHANGED <<sched, did, globalCount, primary, threadFlags>>
  BY DEF Reduce
<1>2. \A r \in Ranks : pc[Master[r]] = "reduce"
  BY DEF Reduce, Masters
<1>3. \A p \in Part : pc[p] \in {"reduce", "allDone"} /\ IsRank(p)
  <2> SUFFICES ASSUME NEW p \in Part PROVE pc[p] \in {"reduce", "allDone"} /\ IsRank(p)
    OBVIOUS
  <2>1. Segment(p, pc[p], "reduce")
    BY <1>2 DEF SyncInd, BaseInd, SegmentInv
  <2> QED
    BY <2>1 DEF Segment, RankSegment, ThreadSegment, AloneSegment, Both, Idle
<1>4. \A p \in Part : pc'[p] \in {"reduce", "allDone"} /\ did'[p] = {}
  BY <1>1, <1>3 DEF Reduce, SyncInd, BaseInd, TypeOK, DidInv, DidAt, Early
<1>5. \A r, s \in Ranks : /\ rankFlags'[r].sig = rankFlags'[s].sig
                          /\ rankFlags'[r].shutdown = rankFlags'[s].shutdown
  BY DEF Reduce
<1>6. DidInv'
  BY <1>4 DEF DidInv, DidAt, Early, Later, Decided
<1>7. TogetherInv'
  BY <1>4 DEF TogetherInv
<1>8. ReducedInv'
  BY <1>1, <1>4, <1>5 DEF SyncInd, ReducedInv, ShutsDown, Decided
<1>9. HeldInv'
  BY <1>4 DEF HeldInv
<1> QED
  BY <1>6, <1>7, <1>8, <1>9 DEF DecideInd

LEMMA AlarmStep ==
    ASSUME SyncInd, Alarm
    PROVE  DecideInd'
<1> USE PartAssumption
<1>1. UNCHANGED <<sched, globalCount, primary, rankFlags, threadFlags>>
  BY DEF Alarm, flags
<1>2. \A p \in Part : /\ pc[p] = "alarm" /\ pc'[p] = "request"
                      /\ did'[p] = did[p] \cup {"alrm"}
  BY DEF Alarm, Perform
<1>3. \A q \in Part : Heard(q)' = Heard(q)
  BY <1>1, HeardKept
<1>4. \A q \in Part : did'[q] = Heard(q) /\ Heard(q) \subseteq {"end", "usr", "alrm"}
  <2> SUFFICES ASSUME NEW q \in Part
               PROVE  did'[q] = Heard(q) /\ Heard(q) \subseteq {"end", "usr", "alrm"}
    OBVIOUS
  <2>1. did[q] = Heard(q) \ {"alrm"} /\ "alrm" \in Heard(q)
    BY <1>2 DEF SyncInd, DidInv, DidAt
  <2>2. Heard(q) \subseteq {"end", "usr", "alrm"}
    BY HeardType DEF SyncInd, BaseInd, Signal
  <2>3. (Heard(q) \ {"alrm"}) \cup {"alrm"} = Heard(q)
    BY <2>1, Zenon
  <2> QED
    BY <1>2, <2>1, <2>2, <2>3
<1>5. DidInv'
  BY <1>2, <1>3, <1>4 DEF DidInv, DidAt, Early, Later, Decided, Signal
<1>6. \A q \in Part : Syncing(q)' => Syncing(q)
  BY <1>2 DEF Syncing, Later
<1>7. \A r \in Ranks : Reduced(r)' => Reduced(r)
  BY <1>1, <1>2 DEF Reduced, AfterReduce, Later
<1>8. TogetherInv'
  BY <1>2, <1>6, <1>7, TogetherKept DEF SyncInd
<1>9. ReducedInv'
  <2>1. \A q \in Part : (ShutsDown(q)' <=> ShutsDown(q))
    BY <1>1, <1>2 DEF ShutsDown, Decided
  <2> QED
    BY <1>1, <1>7, <2>1, ReducedKept DEF SyncInd, ReducedInv
<1>10. HeldInv'
  BY <1>1, <1>2, <1>6, HeldKept DEF SyncInd
<1> QED
  BY <1>5, <1>8, <1>9, <1>10 DEF DecideInd

LEMMA CheckpointStep ==
    ASSUME SyncInd, CreateCheckpoint
    PROVE  DecideInd'
<1> USE PartAssumption
<1>1. UNCHANGED <<sched, globalCount, primary, rankFlags, threadFlags>>
  BY DEF CreateCheckpoint, flags
<1>2. \A p \in Part : /\ pc[p] = "checkpoint" /\ pc'[p] \in {"flags", "unset"}
                      /\ did'[p] = did[p] \cup {"checkpoint"}
  BY DEF CreateCheckpoint
<1>3. \A q \in Part : Heard(q)' = Heard(q)
  BY <1>1, HeardKept
<1>4. DidInv'
  <2> SUFFICES ASSUME NEW q \in Part PROVE DidAt(q)'
    BY DEF DidInv
  <2>1. /\ did[q] \cap Signal = Heard(q)
        /\ {"shutdown", "console", "ended"} \cap did[q] = {}
    BY <1>2 DEF SyncInd, DidInv, DidAt, Later, Decided
  <2>2. /\ did'[q] \cap Signal = Heard(q)
        /\ {"shutdown", "console", "ended"} \cap did'[q] = {}
    BY <1>2, <2>1 DEF Signal
  <2> QED
    BY <1>2, <1>3, <2>2 DEF DidAt, Early, Later, Decided
<1>5. \A q \in Part : Syncing(q)' => Syncing(q)
  BY <1>2 DEF Syncing, Later
<1>6. \A r \in Ranks : Reduced(r)' => Reduced(r)
  BY <1>1, <1>2 DEF Reduced, AfterReduce, Later
<1>7. TogetherInv'
  BY <1>2, <1>5, <1>6 DEF SyncInd, TogetherInv, SameSync
<1>8. ReducedInv'
  <2>1. \A q \in Part : (ShutsDown(q)' <=> ShutsDown(q))
    BY <1>1, <1>2 DEF ShutsDown, Decided
  <2> QED
    BY <1>1, <1>6, <2>1, ReducedKept DEF SyncInd, ReducedInv
<1>9. HeldInv'
  BY <1>1, <1>2, <1>5, HeldKept DEF SyncInd
<1> QED
  BY <1>4, <1>7, <1>8, <1>9 DEF DecideInd

LEMMA ConsoleStep ==
    ASSUME SyncInd, Console
    PROVE  DecideInd'
<1> USE PartAssumption
<1>1. UNCHANGED <<sched, globalCount, primary, rankFlags, threadFlags>>
  BY DEF Console, flags
<1>2. \A p \in Part : /\ pc[p] = "console" /\ pc'[p] \in {"clear", "ic2"}
                      /\ did'[p] = did[p] \cup {"console"}
  BY DEF Console
<1>3. \A q \in Part : Heard(q)' = Heard(q)
  BY <1>1, HeardKept
<1>4. \A q \in Part : /\ did'[q] \cap Signal = Heard(q)
                      /\ {"shutdown", "ended"} \cap did'[q] = {}
  <2> SUFFICES ASSUME NEW q \in Part
               PROVE  /\ did'[q] \cap Signal = Heard(q)
                      /\ {"shutdown", "ended"} \cap did'[q] = {}
    OBVIOUS
  <2>1. did[q] \cap Signal = Heard(q) /\ {"shutdown", "ended"} \cap did[q] = {}
    BY <1>2 DEF SyncInd, DidInv, DidAt, Later, Decided
  <2> QED
    BY <1>2, <2>1 DEF Signal
<1>5. DidInv'
  BY <1>2, <1>3, <1>4 DEF DidInv, DidAt, Early, Later, Decided
<1>6. \A q \in Part : Syncing(q)' => Syncing(q)
  BY <1>2 DEF Syncing, Later, Decided
<1>7. \A r \in Ranks : Reduced(r)' => Reduced(r)
  BY <1>1, <1>2 DEF Reduced, AfterReduce, Later, Decided
<1>8. TogetherInv'
  BY <1>2, <1>6, <1>7 DEF SyncInd, TogetherInv, SameSync
<1>9. ReducedInv'
  <2>1. \A q \in Part : (ShutsDown(q)' <=> ShutsDown(q))
    BY <1>1, <1>2 DEF ShutsDown, Decided
  <2> QED
    BY <1>1, <1>7, <2>1, ReducedKept DEF SyncInd, ReducedInv
<1>10. HeldInv'
  BY <1>4 DEF HeldInv
<1> QED
  BY <1>5, <1>8, <1>9, <1>10 DEF DecideInd

LEMMA ExitStep ==
    ASSUME SyncInd, ExitCheck
    PROVE  DecideInd'
<1> USE PartAssumption
<1>1. UNCHANGED <<sched, did, primary, rankFlags, threadFlags>>
  BY DEF ExitCheck, flags
<1>2. \A r \in Ranks : pc[Master[r]] = "exit"
  BY DEF ExitCheck, Masters
<1>3. \A p \in Part : \/ pc'[p] = pc[p]
                      \/ pc[p] = "exit" /\ pc'[p] = "rank3"
  BY DEF ExitCheck, SyncInd, BaseInd, TypeOK
<1>4. \A r, s \in Ranks : globalCount'[r] = globalCount'[s]
  BY DEF ExitCheck
<1>5. \A q \in Part : Heard(q)' = Heard(q)
  BY <1>1, HeardKept
<1>6. DidInv'
  <2> SUFFICES ASSUME NEW q \in Part PROVE DidAt(q)'
    BY DEF DidInv
  <2>1. DidAt(q)
    BY DEF SyncInd, DidInv
  <2>2. CASE pc'[q] # pc[q]
    BY <1>1, <1>3, <1>5, <2>1, <2>2 DEF DidAt, Early, Later, Decided
  <2>3. CASE pc'[q] = pc[q]
    <3>1. ASSUME pc[q] \in {"exiting", "next", "rank4"} PROVE Ended(q)' = Ended(q)
      <4>1. Segment(q, pc[q], "exit")
        BY <1>2 DEF SyncInd, BaseInd, SegmentInv
      <4>2. ~IsRank(q)
        BY <3>1, <4>1 DEF Segment, RankSegment, Both, Idle
      <4> QED
        BY <1>1, <4>2 DEF Ended, IsRank
    <3> QED
      BY <1>1, <1>5, <2>1, <2>3, <3>1, DidKept
  <2> QED
    BY <2>2, <2>3
<1>7. \A q \in Part : Syncing(q)' => Syncing(q)
  BY <1>3 DEF Syncing, Later, Decided
<1>8. \A r \in Ranks : Reduced(r)' => Reduced(r)
  BY <1>1, <1>3 DEF Reduced, AfterReduce, Later, Decided
<1>9. TogetherInv'
  BY <1>1, <1>7, <1>8, TogetherKept DEF SyncInd
<1>10. ReducedInv'
  <2>1. \A q \in Part : (ShutsDown(q)' <=> ShutsDown(q))
    BY <1>1, <1>3 DEF ShutsDown, Decided
  <2> QED
    BY <1>1, <1>4, <1>8, <2>1, ReducedKept DEF SyncInd
<1>11. HeldInv'
  BY <1>1, <1>3, <1>7, HeldKept DEF SyncInd
<1> QED
  BY <1>6, <1>9, <1>10, <1>11 DEF DecideInd

LEMMA SyncInit == Init => SyncInd
<1> SUFFICES ASSUME Init PROVE DidInv /\ TogetherInv /\ ReducedInv /\ HeldInv
  BY BaseInit DEF SyncInd
<1> USE PartAssumption
<1>1. \A p \in Part : pc[p] = "run"
  BY DEF Init
<1>2. DidInv
  BY <1>1 DEF DidInv, DidAt, Early, Later, Decided
<1>3. \A p \in Part : ~Syncing(p)
  BY <1>1 DEF Syncing, Early, Later, Decided
<1>4. \A r \in Ranks : ~Reduced(r)
  BY <1>1 DEF Reduced, AfterReduce, Later, Decided
<1> QED
  BY <1>2, <1>3, <1>4 DEF Init, TogetherInv, SameSync, ReducedInv, HeldInv

LEMMA SyncStep ==
    ASSUME SyncInd, [Next]_vars
    PROVE  SyncInd'
<1>1. BaseInd'
  BY BaseStep DEF SyncInd
<1> SUFFICES DecideInd'
  BY <1>1 DEF SyncInd, DecideInd
<1>2. CASE \E p \in Part : Step(p)
  BY <1>2, QuietSteps, ClearStep, EnterStep, SetStep, SignalsStep, FlagsStep, EndStep
  DEF Step
<1>3. CASE \E p \in Part : Request(p)
  BY <1>3, RequestStep DEF Request, flags
<1>4. CASE \E p \in Part : OKToEndSim(p)
  BY <1>4, OKToEndStep
<1>5. CASE \E r \in Ranks : Release(r) \/ LeaveSync(r)
  BY <1>5, ReleaseStep, LeaveStep
<1>6. CASE \E r \in Ranks : SignalArrives(r)
  BY <1>6, RequestStep DEF SignalArrives, flags
<1>7. CASE Together
  BY <1>7, ReduceStep, AlarmStep, CheckpointStep, ConsoleStep, ExitStep DEF Together
<1>8. CASE Done \/ UNCHANGED vars
  BY <1>8, RequestStep DEF Done, vars, flags
<1> QED
  BY <1>2, <1>3, <1>4, <1>5, <1>6, <1>7, <1>8 DEF Next

LEMMA SyncAlways == Spec => []SyncInd
BY SyncInit, SyncStep, PTL DEF Spec

LEMMA SameDecisionInd == SyncInd => SameDecision
<1> SUFFICES ASSUME SyncInd, NEW p \in Part, NEW q \in Part,
                    pc[p] = "rank4", pc[q] = "rank4",
                    RankOf[p] = RankOf[q] \/ (IsRank(p) /\ IsRank(q))
             PROVE  did[p] = did[q]
  BY DEF SameDecision
<1> USE PartAssumption
<1>1. /\ TypeOK /\ DidAt(p) /\ DidAt(q)
      /\ Syncing(p) /\ Syncing(q)
  BY DEF SyncInd, BaseInd, DidInv, Syncing, Later, Decided
<1>2. IsRank(p) /\ IsRank(q) => Reduced(RankOf[p]) /\ Reduced(RankOf[q])
  <2> SUFFICES ASSUME NEW x \in Part, pc[x] = "rank4", IsRank(x)
               PROVE  Reduced(RankOf[x])
    OBVIOUS
  <2>1. Segment(x, "rank4", pc[Master[RankOf[x]]])
    BY DEF SyncInd, BaseInd, SegmentInv
  <2> QED
    BY <2>1 DEF Segment, RankSegment, Both, Idle, Reduced, IsRank, AfterReduce, Later,
      Decided
<1>3. /\ "checkpoint" \in did[p] <=> "checkpoint" \in did[q]
      /\ "console" \in did[p] <=> "console" \in did[q]
  BY <1>1, <1>2 DEF SyncInd, TogetherInv, SameSync
<1>4. "shutdown" \in did[p] <=> "shutdown" \in did[q]
  <2>1. CASE IsRank(p) /\ IsRank(q)
    BY <1>2, <2>1 DEF SyncInd, ReducedInv, ShutsDown, Decided
  <2>2. CASE RankOf[p] = RankOf[q] /\ ~IsRank(p) /\ ~IsRank(q)
    BY <1>1, <2>2 DEF SyncInd, HeldInv
  <2> QED
    BY <2>1, <2>2 DEF IsRank
<1>5. "ended" \in did[p] <=> "ended" \in did[q]
  <2>1. Ended(p) <=> Ended(q)
    <3>1. globalCount[RankOf[p]] = globalCount[RankOf[q]]
      BY DEF SyncInd, ReducedInv
    <3> QED
      BY <3>1 DEF Ended, IsRank
  <2> QED
    BY <1>1, <2>1 DEF DidAt
<1>6. did[p] \cap Signal = did[q] \cap Signal
  <2>1. Heard(p) = Heard(q)
    <3>1. CASE IsRank(p) /\ IsRank(q)
      <4>1. rankFlags[RankOf[p]].sig = rankFlags[RankOf[q]].sig
        BY <1>2, <3>1 DEF SyncInd, ReducedInv
      <4> QED
        BY <3>1, <4>1 DEF Heard, FlagsOf
    <3>2. CASE RankOf[p] = RankOf[q]
      BY <3>2 DEF Heard, FlagsOf, IsRank
    <3> QED
      BY <3>1, <3>2
  <2> QED
    BY <1>1, <2>1 DEF DidAt, Later, Decided
<1>7. /\ did[p] \subseteq Signal \cup {"checkpoint", "shutdown", "console", "ended"}
      /\ did[q] \subseteq Signal \cup {"checkpoint", "shutdown", "console", "ended"}
  BY <1>1 DEF TypeOK
<1>8. \A d : d \in did[p] <=> d \in did[q]
  BY <1>3, <1>4, <1>5, <1>6, <1>7
<1> QED
  BY <1>8

(***************************************************************************)
(* In every sync the threads that take part -- those of the rank, and of   *)
(* all ranks in a RANK sync -- come out of SyncManager::execute having     *)
(* done the same: the same signals, the checkpoint, the console, the       *)
(* shutdown and the end, all of them or none; and no step is a data race.  *)
(***************************************************************************)
THEOREM ThreadsDecideAlike == Spec => []SyncInv
<1>1. SyncInd => SyncInv
  BY SameDecisionInd, NoDataRaceInd DEF SyncInv, SyncInd, BaseInd
<1> QED
  BY <1>1, SyncAlways, PTL

-----------------------------------------------------------------------------
(* Checkpoints on one rank. *)

LEMMA CheckpointInvStep ==
    ASSUME SingleRank, BaseInd, CheckpointInv, [Next]_vars
    PROVE  CheckpointInv'
<1> USE PartAssumption
<1>1. TypeOK /\ SegmentInv
  BY DEF BaseInd
<1>2. \A p \in Part : ~IsRank(p)
  BY <1>1, ScheduleType DEF IsRank
<1>3. \A p, q \in Part : RankOf[p] = RankOf[q]
  BY DEF SingleRank
<1>4. CASE UNCHANGED vars
  BY <1>4 DEF CheckpointInv, vars, flags, asked
<1>5. ASSUME NEW p \in Part, CheckpointRequest(p)
      PROVE  CheckpointInv'
  <2>1. /\ pc[p] = "request" /\ UNCHANGED <<generate, wanted, sched>>
        /\ ckptGenerate' = [ckptGenerate EXCEPT ![RankOf[p]] = @ \/ generate[p]]
        /\ pc'[p] = "ic1" /\ \A q \in Part : q # p => pc'[q] = pc[q]
    BY <1>1, <1>2, <1>5 DEF CheckpointRequest, Goto, TypeOK
  <2>2. ckptGenerate'[RankOf[p]] = (ckptGenerate[RankOf[p]] \/ generate[p])
    BY <1>1, <2>1 DEF TypeOK
  <2>3. \A q \in Part : pc[q] \notin Decided \cup {"flags", "unset"}
    <3> SUFFICES ASSUME NEW q \in Part PROVE pc[q] \notin Decided \cup {"flags", "unset"}
      OBVIOUS
    <3>1. Segment(p, "request", pc[q])
      BY <1>1, <1>3, <2>1 DEF SegmentInv
    <3> QED
      BY <1>2, <3>1 DEF Segment, ThreadSegment, AloneSegment, Both, Idle, Decided
  <2>4. ckptGenerate'[RankOf[p]] => wanted
    BY <2>1, <2>2, <2>3 DEF CheckpointInv
  <2>5. \A q \in Part : RankOf[q] = RankOf[p]
    BY <1>3
  <2> QED
    BY <2>1, <2>3, <2>4, <2>5 DEF CheckpointInv, Decided
<1>6. ASSUME NEW p \in Part, LoadGenerate(p)
      PROVE  CheckpointInv'
  <2>1. /\ pc[p] = "load" /\ UNCHANGED <<ckptGenerate, wanted, sched>>
        /\ \A q \in Part : q # p => pc'[q] = pc[q] /\ generate'[q] = generate[q]
        /\ generate'[p] = (generate[p] \/ ckptGenerate[RankOf[p]])
        /\ pc'[p] \in {"checkpoint", "unset"}
        /\ pc'[p] = "checkpoint" => generate'[p] \/ sched[RankOf[p]].due
    BY <1>1, <1>6 DEF LoadGenerate, Goto, TypeOK, flags
  <2>2. ckptGenerate[RankOf[p]] => wanted
    BY <2>1 DEF CheckpointInv
  <2> QED
    BY <2>1, <2>2 DEF CheckpointInv, Decided
<1>7. ASSUME NEW p \in Part, UnsetGenerate(p)
      PROVE  CheckpointInv'
  <2>1. /\ UNCHANGED <<generate, wanted, sched>>
        /\ \A q \in Part : ckptGenerate'[RankOf[q]] = FALSE
        /\ \A q \in Part : pc'[q] = "checkpoint" => pc[q] = "checkpoint"
    BY <1>1, <1>3, <1>7 DEF UnsetGenerate, Goto, TypeOK, asked
  <2> QED
    BY <2>1 DEF CheckpointInv
<1>8. CASE CreateCheckpoint
  <2>1. \A q \in Part : pc'[q] = "unset" /\ generate'[q] = FALSE
    BY <1>2, <1>8 DEF CreateCheckpoint
  <2> QED
    BY <2>1 DEF CheckpointInv, Decided
<1>9. ASSUME NEW r \in Ranks, LeaveSync(r)
      PROVE  CheckpointInv'
  <2>1. \A q \in Part : RankOf[q] = r
    BY DEF SingleRank
  <2>2. /\ UNCHANGED <<generate, wanted, ckptGenerate>>
        /\ \A q \in Part : pc'[q] = "check" /\ pc[q] = "rank4"
    BY <1>9, <2>1 DEF LeaveSync, PartsOf, flags, asked
  <2> QED
    BY <2>2 DEF CheckpointInv, Decided
<1> DEFINE Quiet ==
        /\ UNCHANGED <<ckptGenerate, sched>>
        /\ wanted => wanted'
        /\ \A q \in Part : generate[q] => generate'[q]
        /\ \A q \in Part : generate'[q] => generate[q] \/ wanted'
        /\ \A q \in Part :
             \/ pc'[q] = pc[q]
             \/ /\ pc'[q] # "checkpoint" /\ pc[q] # "unset"
                /\ pc'[q] \in Decided \cup {"flags"} => pc[q] \in Decided \cup {"flags"}
<1>10. Quiet => CheckpointInv'
  BY DEF CheckpointInv
<1>11. ASSUME NEW r \in Ranks, Release(r)
       PROVE  Quiet
  <2>1. UNCHANGED <<ckptGenerate, sched, wanted, generate>>
    BY <1>11 DEF Release, flags, asked
  <2>2. ASSUME NEW q \in Part, pc'[q] # pc[q]
        PROVE  /\ pc'[q] # "checkpoint" /\ pc[q] # "unset"
               /\ pc'[q] \in Decided \cup {"flags"} => pc[q] \in Decided \cup {"flags"}
    <3>1. pc'[q] = Beyond(q, pc[q]) /\ pc[q] \in Barriers \cup ExitBarrier
      BY <1>1, <1>11, <2>2 DEF Release, TypeOK, PartsOf
    <3> QED
      BY <3>1 DEF Beyond, Barriers, RankBarriers, ExchangeBarriers, ThreadBarriers,
        ExitBarrier, Decided
  <2> QED
    BY <2>1, <2>2
<1>12. ASSUME NEW p \in Part,
              \/ EnterSync(p) \/ LoopCheck(p) \/ AtTimeVortex(p) \/ SetFlags(p)
              \/ HandleFlags(p) \/ ClearFlags(p) \/ SkipExitCheck(p) \/ EndCheck(p)
              \/ OKToEndSim(p)
       PROVE  Quiet
  <2>1. UNCHANGED <<ckptGenerate, sched, wanted, generate>>
    BY <1>12 DEF EnterSync, LoopCheck, AtTimeVortex, SetFlags, HandleFlags, ClearFlags,
      SkipExitCheck, EndCheck, OKToEndSim, flags, asked
  <2>2. \A q \in Part : q # p => pc'[q] = pc[q]
    BY <1>1, <1>12 DEF EnterSync, LoopCheck, AtTimeVortex, SetFlags, HandleFlags,
      ClearFlags, SkipExitCheck, EndCheck, OKToEndSim, Goto, TypeOK
  <2>3. pc'[p] # pc[p] => pc'[p] # "checkpoint" /\ pc[p] # "unset"
    BY <1>1, <1>12 DEF EnterSync, LoopCheck, AtTimeVortex, SetFlags, HandleFlags,
      ClearFlags, SkipExitCheck, EndCheck, OKToEndSim, Goto, TypeOK
  <2>4. pc'[p] \in Decided \cup {"flags"} => pc[p] \in Decided \cup {"flags"}
    BY <1>1, <1>12 DEF EnterSync, LoopCheck, AtTimeVortex, SetFlags, HandleFlags,
      ClearFlags, SkipExitCheck, EndCheck, OKToEndSim, Goto, TypeOK, Decided
  <2> QED
    BY <2>1, <2>2, <2>3, <2>4
<1>13. ASSUME NEW p \in Part, HandleSignals(p)
       PROVE  Quiet
  <2>1. /\ UNCHANGED <<ckptGenerate, sched>> /\ (wanted => wanted')
        /\ \A q \in Part : generate[q] => generate'[q]
        /\ \A q \in Part : generate'[q] => generate[q] \/ wanted'
    BY <1>13 DEF HandleSignals, Perform, flags
  <2>2. /\ \A q \in Part : q # p => pc'[q] = pc[q]
        /\ pc[p] = "signals" /\ pc'[p] \in {"alarm", "request"}
    BY <1>1, <1>13 DEF HandleSignals, Goto, TypeOK
  <2> QED
    BY <2>1, <2>2 DEF Decided
<1>14. CASE Alarm
  <2>1. /\ UNCHANGED <<ckptGenerate, sched>> /\ (wanted => wanted')
        /\ \A q \in Part : generate[q] => generate'[q]
        /\ \A q \in Part : generate'[q] => generate[q] \/ wanted'
    BY <1>14 DEF Alarm, Perform, flags
  <2>2. \A q \in Part : pc[q] = "alarm" /\ pc'[q] = "request"
    BY <1>14 DEF Alarm
  <2>3. Quiet
    BY <2>1, <2>2 DEF Decided
  <2> QED
    BY <1>10, <2>3
<1>15. ASSUME NEW p \in Part, Request(p)
       PROVE  Quiet
  BY <1>1, <1>15 DEF Request, flags, TypeOK
<1>16. CASE Reduce \/ Console \/ ExitCheck
  <2>1. UNCHANGED <<ckptGenerate, sched, wanted, generate>>
    BY <1>16 DEF Reduce, Console, ExitCheck, flags, asked
  <2>2. \A q \in Part : \/ pc'[q] = pc[q]
                        \/ pc[q] = "reduce" /\ pc'[q] = "allDone"
                        \/ pc[q] = "console" /\ pc'[q] \in {"clear", "ic2"}
                        \/ pc[q] = "exit" /\ pc'[q] = "rank3"
    BY <1>1, <1>16 DEF Reduce, Console, ExitCheck, TypeOK
  <2>3. Quiet
    BY <2>1, <2>2 DEF Decided
  <2> QED
    BY <1>10, <2>3
<1>17. ASSUME NEW r \in Ranks, SignalArrives(r)
       PROVE  Quiet
  BY <1>17 DEF SignalArrives, flags, asked
<1> HIDE DEF Quiet
<1>18. CASE \E p \in Part : Step(p) \/ Request(p) \/ OKToEndSim(p)
  BY <1>5, <1>6, <1>7, <1>10, <1>12, <1>13, <1>15, <1>18 DEF Step
<1>19. CASE \E r \in Ranks : Release(r) \/ LeaveSync(r) \/ SignalArrives(r)
  BY <1>9, <1>10, <1>11, <1>17, <1>19
<1>20. CASE Together
  BY <1>8, <1>10, <1>14, <1>16, <1>20 DEF Together
<1> QED
  BY <1>4, <1>18, <1>19, <1>20 DEF Next, Done

LEMMA CheckpointInvInit == Init => CheckpointInv
BY PartAssumption DEF Init, CheckpointInv, Decided

LEMMA CheckpointAlways == ASSUME SingleRank PROVE Spec => []CheckpointInv
<1>1. BaseInd /\ CheckpointInv /\ [Next]_vars => CheckpointInv'
  BY CheckpointInvStep
<1> QED
  BY <1>1, CheckpointInvInit, BaseAlways, PTL DEF Spec

(* Only createCheckpoint adds a checkpoint to what a thread has done. *)
LEMMA CheckpointTaken ==
    ASSUME BaseInd, Next, NEW p \in Part, "checkpoint" \in did'[p] \ did[p]
    PROVE  CreateCheckpoint
<1> USE PartAssumption
<1>1. TypeOK
  BY DEF BaseInd
<1>2. ASSUME NEW q \in Part, HandleSignals(q) PROVE FALSE
  <2>1. FlagsOf(q).sig \subseteq {"end", "usr", "alrm"}
    BY <1>1 DEF TypeOK, FlagsOf, Flags, Signal
  <2>2. did'[p] \subseteq did[p] \cup FlagsOf(q).sig
    BY <1>2 DEF HandleSignals, Perform
  <2> QED
    BY <2>1, <2>2
<1>3. ~Alarm
  BY DEF Alarm, Perform
<1>4. ASSUME NEW q \in Part, EnterSync(q) \/ HandleFlags(q) \/ EndCheck(q) PROVE FALSE
  BY <1>1, <1>4 DEF EnterSync, HandleFlags, EndCheck, Do, TypeOK
<1>5. ~Console
  BY DEF Console
<1>6. did' # did
  OBVIOUS
<1> QED
  BY <1>2, <1>3, <1>4, <1>5, <1>6 DEF Next, Step, Together, LoopCheck, AtTimeVortex,
    SetFlags, CheckpointRequest, LoadGenerate, UnsetGenerate, ClearFlags, SkipExitCheck,
    Request, OKToEndSim, Release, LeaveSync, SignalArrives, Reduce, ExitCheck, Done, vars

(***************************************************************************)
(* On one rank SyncManager::execute takes a checkpoint only when one is    *)
(* due by simulated time or was asked for since the last: ckpt_generate_   *)
(* and generate_ are reset on every thread before the next request can be  *)
(* made.  Over several ranks this fails: RankSync's flag is reset only     *)
(* with the console's.                                                     *)
(***************************************************************************)
THEOREM CheckpointsAreWanted ==
    ASSUME SingleRank
    PROVE  Spec => CheckpointOnRequest
<1>1. ASSUME BaseInd, CheckpointInv, Next, NEW p \in Part,
             "checkpoint" \in did'[p] \ did[p]
      PROVE  wanted \/ sched[RankOf[p]].due
  <2>1. pc[p] = "checkpoint"
    BY <1>1, CheckpointTaken DEF CreateCheckpoint
  <2> QED
    BY <1>1, <2>1 DEF CheckpointInv
<1>2. BaseInd /\ CheckpointInv /\ [Next]_vars =>
        [\A p \in Part : "checkpoint" \in did'[p] \ did[p] =>
            wanted \/ sched[RankOf[p]].due]_vars
  BY <1>1
<1> QED
  BY <1>2, BaseAlways, CheckpointAlways, PTL DEF Spec, CheckpointOnRequest
=============================================================================
