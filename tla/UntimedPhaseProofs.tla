------------------------- MODULE UntimedPhaseProofs -------------------------
(***************************************************************************)
(* The untimed phases end on all threads of all ranks at once, after the   *)
(* same number of rounds, and deliver all data of a round in the next, for *)
(* any number of ranks, threads, links and rounds; shared objects are      *)
(* updated while no component runs.  Second part: what the objects hold.   *)
(* Once exchanged it is the same on all ranks, with every write, and once  *)
(* fully published it is final, for any number of instances and writes.    *)
(***************************************************************************)
EXTENDS SharedObject, FoldLemmas, SequenceTheorems, TLAPS

-----------------------------------------------------------------------------
(* The inductive invariant. *)

(* Where a rank is, as seen from its thread 0. *)
At(r) == pc[Master[r]]

(* What the threads of a rank may do at one time, between two barriers. *)
SameSegment(a, b) ==
    \/ a \in {"begin"} /\ b \in {"begin"}
    \/ a \in {"zero", "reset"} /\ b \in {"zero", "reset"}
    \/ a \in {"components", "sent"} /\ b \in {"components", "sent"}
    \/ a \in {"untimed0"} /\ b \in {"untimed0"}
    \/ a \in {"threadData", "untimed1"} /\ b \in {"threadData", "untimed1"}
    \/ a \in {"exchange", "untimed2"} /\ b \in {"exchange", "untimed2"}
    \/ a \in {"counted"} /\ b \in {"counted"}
    \/ a \in {"test", "update", "top"} /\ b \in {"test", "update", "top"}
    \/ a \in {"test", "updateLast", "ended"} /\ b \in {"test", "updateLast", "ended"}
    \/ a \in {"finalize", "final"} /\ b \in {"finalize", "final"}
    \/ a \in {"setup", "run"} /\ b \in {"setup", "run"}
    \/ a \in {"complete"} /\ b \in {"complete"}
    \/ a \in {"prepare", "prepared"} /\ b \in {"prepare", "prepared"}

MasterOnly == {"zero", "exchange", "update", "updateLast", "finalize"}

(* The rounds a thread has begun to leave. *)
Tested(p) == IF pc[p] = "test" THEN NextPhase(phase[p]) ELSE phase[p]

(* A thread is in the segment of its rank's thread 0, and decides as it does. *)
Mates(p) ==
    LET r == RankOf[p]
    IN  /\ SameSegment(pc[p], At(r))
        /\ stage[p] = stage[Master[r]]
        /\ pc[p] \in MasterOnly => p = Master[r]
        /\ At(r) \notin {"prepare", "prepared"} => Tested(p) = Tested(Master[r])
        /\ pc[p] = "test" /\ At(r) \in {"update", "top"} => count[r] # 0
        /\ pc[p] = "test" /\ At(r) \in {"updateLast", "ended"} => count[r] = 0
        /\ At(r) = "test" /\ pc[p] = "top" => count[r] # 0
        /\ At(r) = "test" /\ pc[p] = "ended" => count[r] = 0

(* What a thread's place says by itself. *)
Placed(p) ==
    /\ pc[p] \in {"begin", "update", "updateLast", "finalize", "final", "setup", "run"} =>
        stage[p] = "init"
    /\ pc[p] \in {"complete", "prepare", "prepared"} => stage[p] = "complete"
    /\ pc[p] \in {"begin", "prepared"} => phase[p] = 0

(* The labels of a round before and after the exchange among the ranks, *)
(* and those between the two phases.                                    *)
PreRound ==
    {"top", "zero", "reset", "components", "sent", "untimed0", "threadData", "untimed1", "exchange"}
PostRound == {"untimed2", "counted", "test"}
Between == {"final", "setup", "run", "complete", "prepare", "prepared"}

(* Two ranks are between the same two collective operations; s may be the one ahead. *)
Beside(r, s) ==
    LET a == At(r)
        b == At(s)
        g == stage[Master[r]]
        Even == g = stage[Master[s]] /\ Counted(Master[r]) = Counted(Master[s])
        Agreed == count[r] = count[s]
    IN  \/ a \in {"begin", "update"} /\ b \in {"begin", "update"}
           /\ phase[Master[r]] = 0 /\ phase[Master[s]] = 0
        \/ a \in PreRound /\ b \in PreRound /\ Even
        \/ a \in PostRound \cup {"update"} /\ b \in PostRound \cup {"update"}
           /\ g = "init" /\ Even /\ Agreed /\ count[r] # 0
        \/ a \in PostRound \cup {"updateLast"} /\ b \in PostRound \cup {"updateLast"}
           /\ g = "init" /\ Even /\ Agreed /\ count[r] = 0
        \/ a \in {"ended", "finalize"} /\ b \in {"ended", "finalize"} /\ g = "init" /\ Even
        \/ a \in Between /\ b \in Between
        \/ a \in Between /\ b \in PreRound /\ stage[Master[s]] = "complete" /\ phase[Master[s]] = 0
        \/ a \in PostRound /\ b \in PostRound /\ g = "complete" /\ Even /\ Agreed
        \/ a \in PostRound /\ b \in PreRound /\ g = "complete" /\ Even /\ count[r] # 0
        \/ a \in PostRound /\ b = "ended" /\ g = "complete" /\ Even /\ count[r] = 0
        \/ a = "ended" /\ b = "ended" /\ g = "complete" /\ Even

(* The exchanges leave nothing in the queues. *)
Passed ==
    {"begin", "update", "untimed2", "counted", "test", "updateLast", "ended", "finalize", "final",
     "setup", "run"}

Drained(l) ==
    /\ l \in Local => queue[l] = <<>>
    /\ l \in CrossThread /\ pc[l[2]] \in {"untimed1", "exchange"} \cup Passed => queue[l] = <<>>
    /\ l \in CrossRank /\ At(RankOf[l[1]]) \in Passed => queue[l] = <<>>

UntimedTypeOK ==
    /\ pc \in [Part -> PreRound \cup PostRound \cup Between \cup
                {"begin", "update", "updateLast", "ended", "finalize"}]
    /\ stage \in [Part -> {"init", "complete"}]
    /\ phase \in [Part -> 0 .. PhaseLimit - 1]
    /\ DOMAIN count = Ranks
    /\ DOMAIN queue = Links /\ DOMAIN box = Links

UntimedInd ==
    /\ UntimedTypeOK
    /\ \A p \in Part : Placed(p) /\ Mates(p)
    /\ \A r, s \in Ranks : r # s => Beside(r, s) \/ Beside(s, r)
    /\ \A l \in Links : Drained(l)

(* If no run is cut off: the data in a queue are of this round of the sender, *)
(* those in an InitQueue for the next one of the receiver.                    *)
QueuedNow(l) ==
    queue[l] # <<>> =>
        /\ queue[l] \in Seq({Data(phase[l[1]] + 1)}) /\ phase[l[1]] < MaxPhase
        /\ pc[l[1]] \in {"sent", "untimed0", "threadData", "untimed1", "exchange", "untimed2"}
        /\ l \in CrossThread => pc[l[2]] \in {"components", "sent", "untimed0", "threadData"}
        /\ l \in CrossRank => At(RankOf[l[1]]) \in PreRound

Early == {"begin", "update", "top", "zero", "reset", "components"}
Late == {"sent", "untimed0", "threadData", "untimed1", "exchange"} \cup PostRound

BoxedNext(l) ==
    LET d == l[2]
    IN  box[l] # <<>> =>
        /\ pc[d] \in Late => box[l] \in Seq({Data(phase[d] + 1)}) /\ phase[d] < MaxPhase
        /\ pc[d] \in Early => box[l] \in Seq({Data(phase[d])})
        /\ pc[d] \notin {"complete", "prepare", "prepared"}

DataInd == \A l \in Links : QueuedNow(l) /\ BoxedNext(l)

-----------------------------------------------------------------------------
LEMMA ConstantFacts ==
    /\ \A p \in Part : RankOf[p] \in Ranks
    /\ \A r \in Ranks : Master[r] \in Part /\ RankOf[Master[r]] = r
    /\ PhaseLimit \in Nat \ {0} /\ MaxPhase \in Nat /\ MaxPhase + 2 < PhaseLimit
  BY UntimedAssumption

(* untimed_phase++ of an unsigned int; it does not wrap while components send. *)
LEMMA NextPhaseType ==
    /\ \A k \in 0 .. PhaseLimit - 1 : NextPhase(k) \in 0 .. PhaseLimit - 1
    /\ \A k \in 0 .. PhaseLimit - 1 : k < MaxPhase => NextPhase(k) = k + 1
<1>1. ASSUME NEW k \in 0 .. PhaseLimit - 1 PROVE NextPhase(k) \in 0 .. PhaseLimit - 1
  BY ConstantFacts DEF NextPhase
<1>2. ASSUME NEW k \in 0 .. PhaseLimit - 1, k < MaxPhase PROVE NextPhase(k) = k + 1
  BY <1>2, ConstantFacts DEF NextPhase
<1>. QED  BY <1>1, <1>2

LEMMA UntimedInit == ASSUME Init PROVE UntimedInd
<1>. USE ConstantFacts DEF Init
<1>1. UntimedTypeOK
  BY DEF UntimedTypeOK
<1>2. ASSUME NEW p \in Part PROVE Placed(p) /\ Mates(p)
  BY DEF Placed, Mates, SameSegment, MasterOnly, At, Tested
<1>3. ASSUME NEW r \in Ranks, NEW s \in Ranks PROVE Beside(r, s)
  BY DEF Beside, At
<1>4. \A l \in Links : Drained(l)
  BY DEF Drained
<1>. QED  BY <1>1, <1>2, <1>3, <1>4 DEF UntimedInd

(* A step of one rank. *)
Elsewhere(r) ==
    /\ \A q \in Part : RankOf[q] # r =>
        pc'[q] = pc[q] /\ stage'[q] = stage[q] /\ phase'[q] = phase[q]
    /\ \A s \in Ranks : s # r => count'[s] = count[s]

LEMMA RankStep ==
    ASSUME UntimedInd, UntimedTypeOK', NEW r \in Ranks, Elsewhere(r),
           \A q \in Part : RankOf[q] = r => Placed(q)' /\ Mates(q)',
           \A s \in Ranks : s # r => Beside(r, s)' \/ Beside(s, r)',
           \A l \in Links : Drained(l)'
    PROVE  UntimedInd'
<1>. USE ConstantFacts
<1>1. ASSUME NEW q \in Part, RankOf[q] # r PROVE Placed(q)' /\ Mates(q)'
  <2>1. Placed(q) /\ Mates(q)
    BY DEF UntimedInd
  <2>2. /\ pc'[q] = pc[q] /\ stage'[q] = stage[q] /\ phase'[q] = phase[q]
        /\ At(RankOf[q])' = At(RankOf[q]) /\ count'[RankOf[q]] = count[RankOf[q]]
        /\ stage'[Master[RankOf[q]]] = stage[Master[RankOf[q]]]
        /\ Tested(q)' = Tested(q) /\ Tested(Master[RankOf[q]])' = Tested(Master[RankOf[q]])
    BY <1>1 DEF Elsewhere, At, Tested
  <2>3. Placed(q)'
    BY <2>1, <2>2 DEF Placed
  <2>4. Mates(q)'
    BY <2>1, <2>2 DEF Mates
  <2>. QED  BY <2>3, <2>4
<1>2. ASSUME NEW u \in Ranks, NEW s \in Ranks, u # r, s # r
      PROVE  Beside(u, s)' <=> Beside(u, s)
  <2>1. /\ At(u)' = At(u) /\ At(s)' = At(s) /\ count'[u] = count[u] /\ count'[s] = count[s]
        /\ stage'[Master[u]] = stage[Master[u]] /\ stage'[Master[s]] = stage[Master[s]]
        /\ phase'[Master[u]] = phase[Master[u]] /\ phase'[Master[s]] = phase[Master[s]]
        /\ Counted(Master[u])' = Counted(Master[u]) /\ Counted(Master[s])' = Counted(Master[s])
    BY <1>2 DEF Elsewhere, At, Counted
  <2>. QED  BY <2>1 DEF Beside
<1>3. ASSUME NEW u \in Ranks, NEW s \in Ranks, u # s PROVE Beside(u, s)' \/ Beside(s, u)'
  BY <1>2, <1>3 DEF UntimedInd
<1>. QED  BY <1>1, <1>3 DEF UntimedInd

(* Thread 0 of the rank stays where it is. *)
LEMMA MasterStays ==
    ASSUME UntimedInd, NEW r \in Ranks, Elsewhere(r),
           At(r)' = At(r), stage'[Master[r]] = stage[Master[r]],
           phase'[Master[r]] = phase[Master[r]],
           count'[r] = count[r] \/ At(r) \in PreRound
    PROVE  \A s \in Ranks : s # r => Beside(r, s)' \/ Beside(s, r)'
<1>. USE ConstantFacts
<1>. SUFFICES ASSUME NEW s \in Ranks, s # r PROVE Beside(r, s)' \/ Beside(s, r)'
  OBVIOUS
<1>1. /\ At(s)' = At(s) /\ count'[s] = count[s] /\ stage'[Master[s]] = stage[Master[s]]
      /\ phase'[Master[s]] = phase[Master[s]]
      /\ Counted(Master[r])' = Counted(Master[r]) /\ Counted(Master[s])' = Counted(Master[s])
  BY DEF Elsewhere, At, Counted
<1>2. Beside(r, s) \/ Beside(s, r)
  BY DEF UntimedInd
<1>3. Beside(r, s) => Beside(r, s)'
  BY <1>1 DEF Beside, PreRound, PostRound, Between
<1>4. Beside(s, r) => Beside(s, r)'
  BY <1>1 DEF Beside, PreRound, PostRound, Between
<1>. QED  BY <1>2, <1>3, <1>4

(* Thread 0 of the rank goes on without a collective operation and without a decision. *)
LEMMA MasterMoves ==
    ASSUME UntimedInd, NEW r \in Ranks, Elsewhere(r),
           \/ At(r) \in PreRound /\ At(r)' \in PreRound
           \/ At(r) \in PostRound /\ At(r)' \in PostRound
           \/ At(r) \in Between /\ At(r)' \in Between
           \/ At(r) = "begin" /\ At(r)' = "update"
           \/ At(r) = "ended" /\ At(r)' = "finalize" /\ stage[Master[r]] = "init",
           At(r) \notin Between =>
                stage'[Master[r]] = stage[Master[r]] /\ phase'[Master[r]] = phase[Master[r]],
           count'[r] = count[r] \/ At(r) \in PreRound
    PROVE  \A s \in Ranks : s # r => Beside(r, s)' \/ Beside(s, r)'
<1>. USE ConstantFacts
<1>. SUFFICES ASSUME NEW s \in Ranks, s # r PROVE Beside(r, s)' \/ Beside(s, r)'
  OBVIOUS
<1>1. /\ At(s)' = At(s) /\ count'[s] = count[s] /\ stage'[Master[s]] = stage[Master[s]]
      /\ phase'[Master[s]] = phase[Master[s]] /\ Counted(Master[s])' = Counted(Master[s])
  BY DEF Elsewhere, At, Counted
<1>2. Beside(r, s) \/ Beside(s, r)
  BY DEF UntimedInd
<1>3. CASE At(r) \in PreRound /\ At(r)' \in PreRound
  <2>1. Counted(Master[r])' = Counted(Master[r])
    BY <1>3 DEF Counted, At, PreRound, Between
  <2>2. At(r) \notin Between /\ At(r) \notin PostRound
    BY <1>3 DEF PreRound, Between, PostRound
  <2>. QED  BY <1>1, <1>2, <1>3, <2>1, <2>2 DEF Beside, PreRound, PostRound, Between
<1>4. CASE At(r) \in PostRound /\ At(r)' \in PostRound
  <2>1. Counted(Master[r])' = Counted(Master[r])
    BY <1>4 DEF Counted, At, PostRound, Between
  <2>2. At(r) \notin Between /\ At(r) \notin PreRound
    BY <1>4 DEF PreRound, Between, PostRound
  <2>. QED  BY <1>1, <1>2, <1>4, <2>1, <2>2 DEF Beside, PreRound, PostRound, Between
<1>5. CASE At(r) \in Between /\ At(r)' \in Between
  <2>1. At(s) \in Between \/ (At(s) \in PreRound /\ stage[Master[s]] = "complete" /\ phase[Master[s]] = 0)
    BY <1>2, <1>5 DEF Beside, PreRound, PostRound, Between
  <2>. QED  BY <1>1, <1>5, <2>1 DEF Beside
<1>6. CASE At(r) = "begin" /\ At(r)' = "update"
  <2>1. At(s) \in {"begin", "update"} /\ phase[Master[r]] = 0 /\ phase[Master[s]] = 0
    BY <1>2, <1>6 DEF Beside, PreRound, PostRound, Between
  <2>. QED  BY <1>1, <1>6, <2>1 DEF Beside, Between
<1>7. CASE At(r) = "ended" /\ At(r)' = "finalize" /\ stage[Master[r]] = "init"
  <2>1. /\ At(s) \in {"ended", "finalize"} /\ stage[Master[s]] = "init"
        /\ Counted(Master[r]) = Counted(Master[s])
    BY <1>2, <1>7 DEF Beside, PreRound, PostRound, Between
  <2>2. Counted(Master[r])' = Counted(Master[r])
    BY <1>7 DEF Counted, At, Between
  <2>. QED  BY <1>1, <1>7, <2>1, <2>2 DEF Beside, Between
<1>. QED  BY <1>3, <1>4, <1>5, <1>6, <1>7

(* The queues stay as they are, and no thread passes an exchange. *)
LEMMA QueuesStay ==
    ASSUME UntimedInd, queue' = queue,
           \A q \in Part : pc'[q] \in {"untimed1", "exchange"} \cup Passed =>
                pc[q] \in {"untimed1", "exchange"} \cup Passed,
           \A r \in Ranks : At(r)' \in Passed => At(r) \in Passed
    PROVE  \A l \in Links : Drained(l)'
<1>. SUFFICES ASSUME NEW l \in Links PROVE Drained(l)'
  OBVIOUS
<1>1. l[1] \in Part /\ l[2] \in Part /\ RankOf[l[1]] \in Ranks
  BY UntimedAssumption
<1>2. Drained(l)
  BY DEF UntimedInd
<1>. QED  BY <1>1, <1>2 DEF Drained

-----------------------------------------------------------------------------
(* What Beyond does, label by label. *)
LEMMA BeyondFacts ==
    ASSUME NEW p \in Part, NEW l \in Barriers
    PROVE  /\ l = "begin" => Beyond(p, l) = IF IsMaster(p) THEN "update" ELSE "top"
           /\ l = "top" => Beyond(p, l) = IF IsMaster(p) THEN "zero" ELSE "reset"
           /\ l = "reset" => Beyond(p, l) = "components"
           /\ l = "sent" => Beyond(p, l) = "untimed0"
           /\ l = "untimed0" => Beyond(p, l) = "threadData"
           /\ l = "untimed1" => Beyond(p, l) = IF IsMaster(p) THEN "exchange" ELSE "untimed2"
           /\ l = "untimed2" => Beyond(p, l) = "counted"
           /\ l = "counted" => Beyond(p, l) = "test"
           /\ l = "ended" => Beyond(p, l) = IF IsMaster(p) THEN "finalize" ELSE "final"
           /\ l = "final" => Beyond(p, l) = "setup"
           /\ l = "complete" => Beyond(p, l) = "prepare"
           /\ l = "prepared" => Beyond(p, l) = "top"
  BY DEF Beyond

LEMMA ReleaseInd == ASSUME UntimedInd, NEW p \in Part, Release(p) PROVE UntimedInd'
<1>. USE ConstantFacts
<1>1. PICK r \in Ranks, l \in Barriers : r = RankOf[p] /\ l = pc[p]
  BY DEF Release
<1>2. /\ \A q \in Part : RankOf[q] = r => pc[q] = l /\ pc'[q] = Beyond(q, l)
      /\ \A q \in Part : RankOf[q] # r => pc'[q] = pc[q]
      /\ l = "ended" => stage[p] = "init"
      /\ UNCHANGED <<stage, phase, count, queue, box>>
  BY <1>1 DEF Release, Together, PartsOf
<1>3. Elsewhere(r)
  BY <1>2 DEF Elsewhere
<1>4. At(r) = l /\ At(r)' = Beyond(Master[r], l) /\ IsMaster(Master[r])
  BY <1>2 DEF At, IsMaster
<1>5. \A q \in Part : RankOf[q] = r => (IsMaster(q) <=> q = Master[r])
  BY DEF IsMaster
<1>6. l = "ended" => \A q \in Part : RankOf[q] = r => stage[q] = "init"
  BY <1>1, <1>2 DEF UntimedInd, Mates
<1>7. UntimedTypeOK'
  <2>1. ASSUME NEW q \in Part
        PROVE  pc'[q] \in PreRound \cup PostRound \cup Between \cup
                    {"begin", "update", "updateLast", "ended", "finalize"}
    BY <1>2, BeyondFacts DEF UntimedInd, UntimedTypeOK, Barriers, PreRound, PostRound, Between
  <2>2. pc' = [q \in Part |-> pc'[q]]
    BY DEF Release
  <2>. QED  BY <1>2, <2>1, <2>2 DEF UntimedInd, UntimedTypeOK
<1>8. ASSUME NEW q \in Part, RankOf[q] = r PROVE Placed(q)' /\ Mates(q)'
  <2>1. /\ Placed(q) /\ Mates(q) /\ Placed(Master[r]) /\ pc[q] = l /\ pc'[q] = Beyond(q, l)
        /\ stage'[q] = stage[q] /\ phase'[q] = phase[q] /\ count'[r] = count[r]
        /\ stage'[Master[r]] = stage[Master[r]] /\ phase'[Master[r]] = phase[Master[r]]
    BY <1>2, <1>8 DEF UntimedInd
  <2>2. Placed(q)'
    BY <1>6, <1>8, <2>1, BeyondFacts DEF Placed, Barriers
  <2>3. phase[q] = phase[Master[r]] \/ l = "complete"
    BY <1>4, <1>8, <2>1, <1>2 DEF Mates, Tested, Placed, Barriers, At
  <2>4. /\ SameSegment(Beyond(q, l), Beyond(Master[r], l))
        /\ Beyond(q, l) \in MasterOnly => q = Master[r]
    BY <1>4, <1>5, <1>8, BeyondFacts DEF SameSegment, MasterOnly, Barriers
  <2>5. At(r)' \notin {"prepare", "prepared"} => Tested(q)' = Tested(Master[r])'
    <3>1. l = "complete" => At(r)' = "prepare"
      BY <1>4, BeyondFacts
    <3>2. pc'[q] = "test" <=> At(r)' = "test"
      BY <1>4, <2>1, BeyondFacts DEF Barriers
    <3>. QED  BY <2>1, <2>3, <3>1, <3>2 DEF Tested, At
  <2>6. ~(pc'[q] = "test" /\ At(r)' # "test") /\ ~(pc'[q] # "test" /\ At(r)' = "test")
    BY <1>4, <2>1, BeyondFacts DEF Barriers
  <2>7. Mates(q)'
    BY <1>4, <1>8, <2>1, <2>4, <2>5, <2>6 DEF Mates
  <2>. QED  BY <2>2, <2>7
<1>9. ASSUME NEW s \in Ranks, s # r PROVE Beside(r, s)' \/ Beside(s, r)'
  <2>1. CASE l = "prepared"
    <3>1. At(r)' = "top" /\ stage[Master[r]] = "complete" /\ phase[Master[r]] = 0
      BY <1>4, <2>1, BeyondFacts DEF UntimedInd, Placed, At
    <3>2. \/ At(s) \in Between
          \/ At(s) \in PreRound /\ stage[Master[s]] = "complete" /\ phase[Master[s]] = 0
      BY <1>4, <1>9, <2>1 DEF UntimedInd, Beside, PreRound, PostRound, Between
    <3>3. /\ At(s)' = At(s) /\ count' = count /\ stage' = stage /\ phase' = phase
          /\ At(s) \in PreRound => Counted(Master[s])' = phase[Master[s]]
          /\ Counted(Master[r])' = phase[Master[r]]
      BY <1>2, <1>9, <3>1 DEF At, Counted, PreRound
    <3>4. CASE At(s) \in Between
      BY <3>1, <3>3, <3>4 DEF Beside, PreRound
    <3>5. CASE At(s) \in PreRound
      BY <3>1, <3>2, <3>3, <3>5 DEF Beside, PreRound, Between
    <3>. QED  BY <3>2, <3>4, <3>5
  <2>2. CASE l # "prepared"
    <3>1. \/ At(r) \in PreRound /\ At(r)' \in PreRound
          \/ At(r) \in PostRound /\ At(r)' \in PostRound
          \/ At(r) \in Between /\ At(r)' \in Between
          \/ At(r) = "begin" /\ At(r)' = "update"
          \/ At(r) = "ended" /\ At(r)' = "finalize" /\ stage[Master[r]] = "init"
      BY <1>4, <1>6, <2>2, BeyondFacts DEF PreRound, PostRound, Between, Barriers
    <3>. QED  BY <1>2, <1>3, <1>9, <3>1, MasterMoves
  <2>. QED  BY <2>1, <2>2
<1>10. \A d \in Links : Drained(d)'
  <2>1. ASSUME NEW q \in Part, pc'[q] \in {"untimed1", "exchange"} \cup Passed
        PROVE  pc[q] \in {"untimed1", "exchange"} \cup Passed
    BY <1>2, <2>1, BeyondFacts DEF Passed, Barriers
  <2>2. ASSUME NEW s \in Ranks, At(s)' \in Passed PROVE At(s) \in Passed
    BY <1>2, <1>4, <2>2, BeyondFacts DEF Passed, Barriers, At
  <2>. QED  BY <1>2, <2>1, <2>2, QueuesStay
<1>. QED  BY <1>3, <1>7, <1>8, <1>9, <1>10, RankStep

(* One thread goes on between two barriers. *)
LEMMA ThreadMoves ==
    ASSUME UntimedInd, NEW p \in Part, NEW l, pc' = [pc EXCEPT ![p] = l],
           \/ pc[p] = "zero" /\ l = "reset"
           \/ pc[p] = "components" /\ l = "sent"
           \/ pc[p] = "threadData" /\ l = "untimed1"
           \/ pc[p] = "setup" /\ l = "run",
           UNCHANGED <<stage, phase>>,
           \A s \in Ranks : s # RankOf[p] => count'[s] = count[s],
           count'[RankOf[p]] = count[RankOf[p]] \/ pc[p] # "setup",
           DOMAIN count' = Ranks, DOMAIN queue' = Links, DOMAIN box' = Links,
           \A d \in Links : Drained(d)'
    PROVE  UntimedInd'
<1>. USE ConstantFacts
<1>1. PICK r \in Ranks : r = RankOf[p]
  OBVIOUS
<1>2. /\ pc \in [Part -> PreRound \cup PostRound \cup Between \cup
                    {"begin", "update", "updateLast", "ended", "finalize"}]
      /\ \A q \in Part : pc'[q] = IF q = p THEN l ELSE pc[q]
  BY DEF UntimedInd, UntimedTypeOK
<1>3. UntimedTypeOK'
  BY <1>2 DEF UntimedInd, UntimedTypeOK, PreRound, PostRound, Between
<1>4. Elsewhere(r)
  BY <1>1, <1>2 DEF Elsewhere
<1>5. SameSegment(pc[p], At(r)) /\ pc[p] # "test" /\ l # "test"
  BY <1>1 DEF UntimedInd, Mates
<1>6. ASSUME NEW q \in Part, RankOf[q] = r PROVE Placed(q)' /\ Mates(q)'
  <2>1. Placed(q) /\ Mates(q) /\ stage'[q] = stage[q]
    BY DEF UntimedInd
  <2>2. Placed(q)'
    BY <1>2, <2>1 DEF Placed
  <2>3. At(r)' = IF p = Master[r] THEN l ELSE At(r)
    BY <1>2 DEF At
  <2>4. SameSegment(pc[q], At(r))
    BY <1>6, <2>1 DEF Mates
  <2>5. SameSegment(pc'[q], At(r)')
    BY <1>2, <1>5, <2>3, <2>4 DEF SameSegment, At
  <2>6. pc'[q] \in MasterOnly => q = Master[r]
    BY <1>2, <1>6, <2>1 DEF Mates, MasterOnly
  <2>7. At(r)' \notin {"prepare", "prepared"} => Tested(q)' = Tested(Master[r])'
    <3>1. At(r) \notin {"prepare", "prepared"}
      BY <1>5 DEF SameSegment
    <3>2. Tested(q)' = Tested(q) /\ Tested(Master[r])' = Tested(Master[r])
      BY <1>2, <1>5 DEF Tested
    <3>. QED  BY <1>6, <2>1, <3>1, <3>2 DEF Mates
  <2>8. pc'[q] # "test" /\ At(r)' # "test"
    BY <1>2, <1>5, <2>3, <2>4 DEF SameSegment
  <2>. QED  BY <1>6, <2>1, <2>2, <2>5, <2>6, <2>7, <2>8 DEF Mates
<1>7. \A s \in Ranks : s # r => Beside(r, s)' \/ Beside(s, r)'
  <2>1. At(r)' = IF p = Master[r] THEN l ELSE At(r)
    BY <1>2 DEF At
  <2>2. \/ At(r) \in PreRound /\ At(r)' \in PreRound /\ pc[p] # "setup"
        \/ At(r) \in Between /\ At(r)' \in Between /\ pc[p] = "setup"
    BY <1>5, <2>1 DEF SameSegment, PreRound, Between
  <2>. QED  BY <1>1, <1>4, <2>2, MasterMoves
<1>. QED  BY <1>3, <1>4, <1>6, <1>7, RankStep

LEMMA ResetInd == ASSUME UntimedInd, NEW p \in Part, Reset(p) PROVE UntimedInd'
<1>. USE ConstantFacts
<1>1. /\ pc[p] = "zero" /\ pc' = [pc EXCEPT ![p] = "reset"] /\ queue' = queue
      /\ \A q \in Part : pc'[q] = IF q = p THEN "reset" ELSE pc[q]
      /\ \A s \in Ranks : s # RankOf[p] => count'[s] = count[s]
      /\ DOMAIN count' = Ranks /\ UNCHANGED <<stage, phase, box>>
  BY DEF Reset, Goto, UntimedInd, UntimedTypeOK
<1>2. \A d \in Links : Drained(d)'
  BY <1>1, QueuesStay DEF Passed, At
<1>. QED  BY <1>1, <1>2, ThreadMoves DEF UntimedInd, UntimedTypeOK

LEMMA SetupInd == ASSUME UntimedInd, NEW p \in Part, Setup(p) PROVE UntimedInd'
<1>. USE ConstantFacts
<1>1. /\ pc[p] = "setup" /\ pc' = [pc EXCEPT ![p] = "run"]
      /\ \A q \in Part : pc'[q] = IF q = p THEN "run" ELSE pc[q]
      /\ UNCHANGED <<stage, phase, count, queue, box>>
  BY DEF Setup, Goto, UntimedInd, UntimedTypeOK
<1>2. \A d \in Links : Drained(d)'
  BY <1>1, QueuesStay DEF Passed, At
<1>. QED  BY <1>1, <1>2, ThreadMoves DEF UntimedInd, UntimedTypeOK

LEMMA ComponentsInd ==
    ASSUME UntimedInd, NEW p \in Part, NEW S \in SUBSET {l \in Links : l[1] = p}, Components(p, S)
    PROVE  UntimedInd'
<1>. USE ConstantFacts
<1>1. /\ pc[p] = "components" /\ pc' = [pc EXCEPT ![p] = "sent"]
      /\ \A q \in Part : pc'[q] = IF q = p THEN "sent" ELSE pc[q]
      /\ \A s \in Ranks : s # RankOf[p] => count'[s] = count[s]
      /\ DOMAIN count' = Ranks /\ DOMAIN queue' = Links /\ DOMAIN box' = Links
      /\ \A d \in Links : d \notin S \ Local => queue'[d] = queue[d]
      /\ UNCHANGED <<stage, phase>>
  BY DEF Components, Goto, UntimedInd, UntimedTypeOK
<1>2. At(RankOf[p]) \in {"components", "sent"}
  BY <1>1 DEF UntimedInd, Mates, SameSegment
<1>3. ASSUME NEW d \in Links PROVE Drained(d)'
  <2>1. d[1] \in Part /\ d[2] \in Part /\ Drained(d)
    BY UntimedAssumption DEF UntimedInd
  <2>2. CASE d \in S \ Local
    <3>1. d[1] = p
      BY <2>2
    <3>2. d \in CrossThread => pc[d[2]] \in {"components", "sent"}
      <4>1. Mates(d[2])
        BY <2>1 DEF UntimedInd
      <4>. QED  BY <1>2, <3>1, <4>1 DEF Mates, SameSegment, CrossThread
    <3>. QED  BY <1>1, <1>2, <2>1, <2>2, <3>1, <3>2 DEF Drained, Passed, At
  <2>3. CASE d \notin S \ Local
    BY <1>1, <2>1, <2>3 DEF Drained, Passed, At
  <2>. QED  BY <2>2, <2>3
<1>. QED  BY <1>1, <1>3, ThreadMoves

LEMMA ThreadDataInd == ASSUME UntimedInd, NEW p \in Part, ThreadData(p) PROVE UntimedInd'
<1>. USE ConstantFacts
<1>1. /\ pc[p] = "threadData" /\ pc' = [pc EXCEPT ![p] = "untimed1"]
      /\ \A q \in Part : pc'[q] = IF q = p THEN "untimed1" ELSE pc[q]
      /\ DOMAIN queue' = Links /\ DOMAIN box' = Links
      /\ \A d \in Links : queue'[d] = IF d \in CrossThread /\ d[2] = p THEN <<>> ELSE queue[d]
      /\ UNCHANGED <<stage, phase, count>>
  BY DEF ThreadData, Goto, UntimedInd, UntimedTypeOK
<1>2. ASSUME NEW d \in Links PROVE Drained(d)'
  <2>1. d[1] \in Part /\ d[2] \in Part /\ Drained(d)
    BY UntimedAssumption DEF UntimedInd
  <2>. QED  BY <1>1, <2>1 DEF Drained, Passed, At
<1>. QED  BY <1>1, <1>2, ThreadMoves DEF UntimedInd, UntimedTypeOK

LEMMA TestInd == ASSUME UntimedInd, NEW p \in Part, Test(p) PROVE UntimedInd'
<1>. USE ConstantFacts
<1>1. PICK r \in Ranks : r = RankOf[p]
  OBVIOUS
<1>2. PICK l : l = IF count[r] = 0
                   THEN IF p = Master[r] /\ stage[p] = "init" THEN "updateLast" ELSE "ended"
                   ELSE IF p = Master[r] /\ stage[p] = "init" THEN "update" ELSE "top"
  OBVIOUS
<1>3. /\ pc[p] = "test" /\ pc' = [pc EXCEPT ![p] = l]
      /\ phase' = [phase EXCEPT ![p] = NextPhase(phase[p])]
      /\ UNCHANGED <<stage, count, queue, box>>
  BY <1>1, <1>2 DEF Test, Goto, IsMaster
<1>4. /\ \A q \in Part : pc'[q] = IF q = p THEN l ELSE pc[q]
      /\ \A q \in Part : phase'[q] = IF q = p THEN NextPhase(phase[p]) ELSE phase[q]
      /\ phase[p] \in 0 .. PhaseLimit - 1
  BY <1>3 DEF UntimedInd, UntimedTypeOK
<1>5. UntimedTypeOK'
  <2>1. NextPhase(phase[p]) \in 0 .. PhaseLimit - 1
    BY <1>4, NextPhaseType
  <2>. QED  BY <1>2, <1>3, <2>1 DEF UntimedInd, UntimedTypeOK, PreRound
<1>6. Elsewhere(r)
  BY <1>1, <1>3, <1>4 DEF Elsewhere
<1>7. \A q \in Part : Tested(q)' = Tested(q)
  BY <1>2, <1>3, <1>4 DEF Tested
<1>8. Mates(p) /\ SameSegment("test", At(r)) /\ stage[p] = stage[Master[r]]
  BY <1>1, <1>3 DEF UntimedInd, Mates
<1>9. At(r)' = IF p = Master[r] THEN l ELSE At(r)
  BY <1>4 DEF At
<1>10. ASSUME NEW q \in Part, RankOf[q] = r PROVE Placed(q)' /\ Mates(q)'
  <2>1. Placed(q) /\ Mates(q)
    BY DEF UntimedInd
  <2>2. Placed(q)'
    BY <1>2, <1>3, <1>4, <2>1 DEF Placed
  <2>3. p = Master[r] /\ q # p => /\ pc[q] \in {"test", "top", "ended"}
                                  /\ pc[q] = "top" => count[r] # 0
                                  /\ pc[q] = "ended" => count[r] = 0
    BY <1>3, <1>10, <2>1 DEF Mates, SameSegment, MasterOnly, At
  <2>4. p # Master[r] => /\ At(r) \in {"test", "update", "top", "updateLast", "ended"}
                         /\ At(r) \in {"update", "top"} => count[r] # 0
                         /\ At(r) \in {"updateLast", "ended"} => count[r] = 0
    BY <1>1, <1>3, <1>8 DEF Mates, SameSegment
  <2>5. SameSegment(pc[q], At(r))
    BY <1>10, <2>1 DEF Mates
  <2>6. SameSegment(pc'[q], At(r)')
    BY <1>2, <1>4, <1>9, <1>10, <2>3, <2>4, <2>5 DEF SameSegment
  <2>7. pc'[q] \in MasterOnly => q = Master[r]
    BY <1>2, <1>4, <1>10, <2>1 DEF Mates, MasterOnly
  <2>8. At(r)' \notin {"prepare", "prepared"} => Tested(q)' = Tested(Master[r])'
    <3>1. At(r) \notin {"prepare", "prepared"}
      BY <1>8 DEF SameSegment
    <3>. QED  BY <1>7, <1>10, <2>1, <3>1 DEF Mates
  <2>9. /\ pc'[q] = "test" /\ At(r)' \in {"update", "top"} => count[r] # 0
        /\ pc'[q] = "test" /\ At(r)' \in {"updateLast", "ended"} => count[r] = 0
        /\ At(r)' = "test" /\ pc'[q] = "top" => count[r] # 0
        /\ At(r)' = "test" /\ pc'[q] = "ended" => count[r] = 0
    BY <1>2, <1>4, <1>9, <1>10, <2>1 DEF Mates
  <2>. QED  BY <1>3, <1>10, <2>1, <2>2, <2>6, <2>7, <2>8, <2>9 DEF Mates
<1>11. ASSUME NEW s \in Ranks, s # r PROVE Beside(r, s)' \/ Beside(s, r)'
  <2>1. CASE p # Master[r]
    BY <1>3, <1>4, <1>6, <1>9, <1>11, <2>1, MasterStays
  <2>2. CASE p = Master[r]
    <3>1. /\ At(r) = "test" /\ At(r)' = l /\ stage[Master[r]] = stage[p]
          /\ stage[p] \in {"init", "complete"}
          /\ Counted(Master[r])' = Counted(Master[r])
      BY <1>2, <1>3, <1>4, <1>9, <2>2 DEF At, Counted, UntimedInd, UntimedTypeOK
    <3>2. /\ At(s)' = At(s) /\ phase'[Master[s]] = phase[Master[s]] /\ stage' = stage /\ count' = count
          /\ Counted(Master[s])' = Counted(Master[s])
      BY <1>3, <1>6, <1>11 DEF Elsewhere, At, Counted
    <3>3. Placed(Master[s]) /\ (Beside(r, s) \/ Beside(s, r))
      BY <1>11 DEF UntimedInd
    <3>4. CASE stage[p] = "init"
      <4>1. /\ stage[Master[s]] = "init" /\ Counted(Master[r]) = Counted(Master[s])
            /\ count[r] = count[s]
            /\ count[r] # 0 => At(s) \in PostRound \cup {"update"}
            /\ count[r] = 0 => At(s) \in PostRound \cup {"updateLast"}
        BY <3>1, <3>3, <3>4 DEF Beside, PreRound, PostRound, Between
      <4>. QED  BY <1>2, <2>2, <3>1, <3>2, <3>4, <4>1 DEF Beside
    <3>5. CASE stage[p] = "complete"
      <4>1. /\ stage[Master[s]] = "complete" /\ Counted(Master[r]) = Counted(Master[s])
            /\ \/ At(s) \in PostRound /\ count[r] = count[s]
               \/ At(s) \in PreRound /\ count[r] # 0
               \/ At(s) = "ended" /\ count[r] = 0
        BY <3>1, <3>3, <3>5 DEF Beside, PreRound, PostRound, Between
      <4>2. l = IF count[r] = 0 THEN "ended" ELSE "top"
        BY <1>2, <3>5
      <4>. QED  BY <3>1, <3>2, <3>5, <4>1, <4>2 DEF Beside, PreRound
    <3>. QED  BY <3>1, <3>4, <3>5
  <2>. QED  BY <2>1, <2>2
<1>12. \A d \in Links : Drained(d)'
  <2>1. ASSUME NEW q \in Part, pc'[q] \in {"untimed1", "exchange"} \cup Passed
        PROVE  pc[q] \in {"untimed1", "exchange"} \cup Passed
    BY <1>3, <1>4, <2>1 DEF Passed
  <2>2. ASSUME NEW s \in Ranks, At(s)' \in Passed PROVE At(s) \in Passed
    BY <1>3, <1>4, <2>2 DEF Passed, At
  <2>. QED  BY <1>3, <2>1, <2>2, QueuesStay
<1>. QED  BY <1>5, <1>6, <1>10, <1>11, <1>12, RankStep

LEMMA PrepareInd == ASSUME UntimedInd, NEW p \in Part, Prepare(p) PROVE UntimedInd'
<1>. USE ConstantFacts
<1>1. PICK r \in Ranks : r = RankOf[p]
  OBVIOUS
<1>2. /\ pc[p] = "prepare" /\ pc' = [pc EXCEPT ![p] = "prepared"]
      /\ phase' = [phase EXCEPT ![p] = 0] /\ DOMAIN box' = Links
      /\ UNCHANGED <<stage, count, queue>>
  BY DEF Prepare, Goto
<1>3. /\ \A q \in Part : pc'[q] = IF q = p THEN "prepared" ELSE pc[q]
      /\ \A q \in Part : phase'[q] = IF q = p THEN 0 ELSE phase[q]
  BY <1>2 DEF UntimedInd, UntimedTypeOK
<1>4. UntimedTypeOK'
  BY <1>2 DEF UntimedInd, UntimedTypeOK, Between
<1>5. Elsewhere(r)
  BY <1>1, <1>2, <1>3 DEF Elsewhere
<1>6. At(r) \in {"prepare", "prepared"}
  BY <1>1, <1>2 DEF UntimedInd, Mates, SameSegment
<1>7. At(r)' \in {"prepare", "prepared"}
  BY <1>3, <1>6 DEF At
<1>8. ASSUME NEW q \in Part, RankOf[q] = r PROVE Placed(q)' /\ Mates(q)'
  <2>1. Placed(q) /\ Mates(q) /\ pc[q] \in {"prepare", "prepared"}
    BY <1>6, <1>8 DEF UntimedInd, Mates, SameSegment
  <2>2. Placed(q)'
    BY <1>2, <1>3, <2>1 DEF Placed
  <2>3. pc'[q] \in {"prepare", "prepared"}
    BY <1>3, <2>1
  <2>4. Mates(q)'
    BY <1>2, <1>7, <1>8, <2>1, <2>3 DEF Mates, SameSegment, MasterOnly
  <2>. QED  BY <2>2, <2>4
<1>9. \A s \in Ranks : s # r => Beside(r, s)' \/ Beside(s, r)'
  BY <1>2, <1>5, <1>6, <1>7, MasterMoves DEF Between
<1>10. \A d \in Links : Drained(d)'
  BY <1>2, <1>3, QueuesStay DEF Passed, At
<1>. QED  BY <1>4, <1>5, <1>8, <1>9, <1>10, RankStep

LEMMA RunInd == ASSUME UntimedInd, NEW r \in Ranks, Run(r) PROVE UntimedInd'
<1>. USE ConstantFacts
<1>1. /\ \A q \in Part : RankOf[q] = r => pc[q] = "run"
      /\ \A q \in Part : pc'[q] = IF RankOf[q] = r THEN "complete" ELSE pc[q]
      /\ \A q \in Part : stage'[q] = IF RankOf[q] = r THEN "complete" ELSE stage[q]
      /\ UNCHANGED <<phase, count>> /\ DOMAIN box' = Links /\ DOMAIN queue' = Links
      /\ \A d \in Links : ~(d \in CrossThread \cup CrossRank /\ RankOf[d[1]] = r) =>
            queue'[d] = queue[d]
  BY DEF Run, PartsOf
<1>2. UntimedTypeOK'
  <2>1. pc' = [q \in Part |-> pc'[q]] /\ stage' = [q \in Part |-> stage'[q]]
    BY DEF Run
  <2>2. \A q \in Part : /\ stage'[q] \in {"init", "complete"}
                        /\ pc'[q] \in PreRound \cup PostRound \cup Between \cup
                                {"begin", "update", "updateLast", "ended", "finalize"}
    BY <1>1 DEF UntimedInd, UntimedTypeOK, Between
  <2>. QED  BY <1>1, <2>1, <2>2 DEF UntimedInd, UntimedTypeOK
<1>3. Elsewhere(r)
  BY <1>1 DEF Elsewhere
<1>4. At(r) = "run" /\ At(r)' = "complete" /\ stage'[Master[r]] = "complete"
  BY <1>1 DEF At
<1>5. ASSUME NEW q \in Part, RankOf[q] = r PROVE Placed(q)' /\ Mates(q)'
  <2>1. Mates(q) /\ pc[q] = "run" /\ pc'[q] = "complete" /\ stage'[q] = "complete"
    BY <1>1, <1>5 DEF UntimedInd
  <2>2. Tested(q)' = Tested(q) /\ Tested(Master[r])' = Tested(Master[r])
    BY <1>1, <1>4, <2>1 DEF Tested, At
  <2>3. Placed(q)'
    BY <2>1 DEF Placed
  <2>4. Mates(q)'
    BY <1>4, <1>5, <2>1, <2>2 DEF Mates, SameSegment, MasterOnly
  <2>. QED  BY <2>3, <2>4
<1>6. \A s \in Ranks : s # r => Beside(r, s)' \/ Beside(s, r)'
  BY <1>1, <1>3, <1>4, MasterMoves DEF Between
<1>7. ASSUME NEW d \in Links PROVE Drained(d)'
  <2>1. d[1] \in Part /\ d[2] \in Part /\ Drained(d)
    BY UntimedAssumption DEF UntimedInd
  <2>2. CASE RankOf[d[1]] = r
    BY <1>1, <1>4, <2>1, <2>2 DEF Drained, Passed, CrossThread, CrossRank, Local
  <2>3. CASE RankOf[d[1]] # r
    <3>1. /\ queue'[d] = queue[d] /\ At(RankOf[d[1]])' = At(RankOf[d[1]])
          /\ d \in CrossThread => pc'[d[2]] = pc[d[2]]
      BY <1>1, <2>1, <2>3 DEF At, CrossThread
    <3>. QED  BY <2>1, <3>1 DEF Drained
  <2>. QED  BY <2>2, <2>3
<1>. QED  BY <1>2, <1>3, <1>5, <1>6, <1>7, RankStep

(* The ranks leave an exchange of the same round with the same count. *)
LEMMA ExchangeDataInd == ASSUME UntimedInd, ExchangeData PROVE UntimedInd'
<1>. USE ConstantFacts
<1>1. /\ \A r \in Ranks : At(r) = "exchange"
      /\ \A p \in Part : pc'[p] = IF p \in Masters THEN "untimed2" ELSE pc[p]
      /\ \A d \in Links : queue'[d] = IF d \in CrossRank THEN <<>> ELSE queue[d]
      /\ DOMAIN box' = Links /\ DOMAIN queue' = Links /\ DOMAIN count' = Ranks
      /\ \A r, s \in Ranks : count'[r] = count'[s]
      /\ UNCHANGED <<stage, phase>>
  BY DEF ExchangeData, At, Masters
<1>2. \A p \in Part : p \in Masters <=> p = Master[RankOf[p]]
  BY DEF Masters
<1>3. \A r \in Ranks : At(r)' = "untimed2"
  BY <1>1, <1>2 DEF At
<1>4. \A p \in Part : pc[p] \in {"exchange", "untimed2"} /\ pc'[p] = "untimed2"
  <2>1. ASSUME NEW p \in Part PROVE pc[p] \in {"exchange", "untimed2"} /\ pc'[p] = "untimed2"
    <3>1. Mates(p) /\ At(RankOf[p]) = "exchange"
      BY <1>1 DEF UntimedInd
    <3>2. pc[p] \in {"exchange", "untimed2"} /\ (pc[p] = "exchange" => p = Master[RankOf[p]])
      BY <3>1 DEF Mates, SameSegment, MasterOnly
    <3>. QED  BY <1>1, <1>2, <3>2
  <2>. QED  BY <2>1
<1>5. UntimedTypeOK'
  <2>1. pc' = [p \in Part |-> pc'[p]]
    BY DEF ExchangeData
  <2>. QED  BY <1>1, <1>4, <2>1 DEF UntimedInd, UntimedTypeOK, PostRound
<1>6. ASSUME NEW p \in Part PROVE Placed(p)' /\ Mates(p)'
  <2>1. Placed(p) /\ Mates(p) /\ At(RankOf[p]) = "exchange" /\ At(RankOf[p])' = "untimed2"
    BY <1>1, <1>3 DEF UntimedInd
  <2>2. Tested(p)' = Tested(p) /\ Tested(Master[RankOf[p]])' = Tested(Master[RankOf[p]])
    BY <1>1, <1>4 DEF Tested
  <2>3. Placed(p)'
    BY <1>4 DEF Placed
  <2>. QED  BY <1>1, <1>4, <2>1, <2>2, <2>3 DEF Mates, SameSegment, MasterOnly
<1>7. ASSUME NEW r \in Ranks, NEW s \in Ranks, r # s PROVE Beside(r, s)'
  <2>1. At(r) = "exchange" /\ At(s) = "exchange" /\ (Beside(r, s) \/ Beside(s, r))
    BY <1>1, <1>7 DEF UntimedInd
  <2>2. stage[Master[r]] = stage[Master[s]] /\ Counted(Master[r]) = Counted(Master[s])
    BY <2>1 DEF Beside, PreRound, PostRound, Between
  <2>3. Counted(Master[r])' = Counted(Master[s])'
    BY <1>1, <1>4, <2>1, <2>2 DEF Counted, At
  <2>4. stage[Master[r]] \in {"init", "complete"}
    BY DEF UntimedInd, UntimedTypeOK
  <2>. QED  BY <1>1, <1>3, <2>2, <2>3, <2>4 DEF Beside, PostRound
<1>8. ASSUME NEW d \in Links PROVE Drained(d)'
  <2>1. d[1] \in Part /\ d[2] \in Part /\ Drained(d)
    BY UntimedAssumption DEF UntimedInd
  <2>2. d \in CrossThread => d \notin CrossRank
    BY DEF CrossThread, CrossRank
  <2>3. d \in Local => d \notin CrossRank
    BY DEF Local, CrossRank
  <2>. QED  BY <1>1, <1>4, <2>1, <2>2, <2>3 DEF Drained, Passed
<1>. QED  BY <1>5, <1>6, <1>7, <1>8 DEF UntimedInd

(* All ranks update the shared objects for the same reason. *)
LEMMA UpdateInd == ASSUME UntimedInd, Update PROVE UntimedInd'
<1>. USE ConstantFacts
<1>1. /\ \A r \in Ranks : At(r) \in Updating
      /\ \A p \in Part : pc'[p] = IF p \in Masters THEN AfterUpdate(pc[p]) ELSE pc[p]
      /\ UNCHANGED <<stage, phase, count, queue, box>>
  BY DEF Update, At, Masters
<1>2. \A p \in Part : p \in Masters <=> p = Master[RankOf[p]]
  BY DEF Masters
<1>3. /\ AfterUpdate("update") = "top" /\ AfterUpdate("updateLast") = "ended"
      /\ AfterUpdate("finalize") = "final"
  BY DEF AfterUpdate
<1>4. \A r \in Ranks : At(r)' = AfterUpdate(At(r)) /\ At(r) \in {"update", "updateLast", "finalize"}
  BY <1>1, <1>2 DEF At, Updating
<1>5. \A p \in Part : pc'[p] # pc[p] => p = Master[RankOf[p]]
  BY <1>1, <1>2
<1>6. UntimedTypeOK'
  <2>1. pc' = [p \in Part |-> pc'[p]]
    BY DEF Update
  <2>2. \A p \in Part : pc'[p] \in PreRound \cup PostRound \cup Between \cup
                            {"begin", "update", "updateLast", "ended", "finalize"}
    BY <1>3, <1>4, <1>5 DEF UntimedInd, UntimedTypeOK, PreRound, Between, At
  <2>. QED  BY <1>1, <2>1, <2>2 DEF UntimedInd, UntimedTypeOK
<1>7. ASSUME NEW p \in Part PROVE Placed(p)' /\ Mates(p)'
  <2>1. Placed(p) /\ Mates(p)
    BY DEF UntimedInd
  <2>2. PICK r \in Ranks : r = RankOf[p]
    OBVIOUS
  <2>3. \/ p = Master[r] /\ pc'[p] = At(r)' /\ pc[p] = At(r)
        \/ pc'[p] = pc[p] /\ pc[p] \notin MasterOnly
    BY <1>5, <2>1, <2>2, <1>4, <1>2, <1>1 DEF At, Mates
  <2>4. Placed(p)'
    BY <1>1, <1>3, <1>4, <2>1, <2>3 DEF Placed
  <2>5. SameSegment(pc'[p], At(r)') /\ (pc'[p] \in MasterOnly => p = Master[r])
    BY <1>3, <1>4, <2>1, <2>2, <2>3 DEF Mates, SameSegment, MasterOnly
  <2>6. Tested(p)' = Tested(p) /\ Tested(Master[r])' = Tested(Master[r])
    BY <1>1, <1>3, <1>4, <2>3 DEF Tested, At
  <2>. QED  BY <1>1, <1>3, <1>4, <2>1, <2>2, <2>3, <2>4, <2>5, <2>6 DEF Mates, MasterOnly
<1>8. ASSUME NEW r \in Ranks, NEW s \in Ranks, r # s PROVE Beside(r, s)'
  <2>1. /\ Placed(Master[r]) /\ Placed(Master[s]) /\ (Beside(r, s) \/ Beside(s, r))
        /\ At(r) \in {"update", "updateLast", "finalize"}
        /\ At(s) \in {"update", "updateLast", "finalize"}
    BY <1>4, <1>8 DEF UntimedInd
  <2>2. /\ At(r) = At(s) /\ stage[Master[r]] = "init" /\ stage[Master[s]] = "init"
        /\ phase[Master[r]] = phase[Master[s]]
    BY <2>1 DEF Beside, PreRound, PostRound, Between, Placed, Counted, At
  <2>3. Counted(Master[r])' = phase[Master[r]] /\ Counted(Master[s])' = phase[Master[s]]
    BY <1>1, <1>3, <1>4 DEF Counted, At
  <2>. QED  BY <1>1, <1>3, <1>4, <2>2, <2>3 DEF Beside, PreRound, Between
<1>9. \A d \in Links : Drained(d)'
  <2>1. ASSUME NEW q \in Part, pc'[q] \in {"untimed1", "exchange"} \cup Passed
        PROVE  pc[q] \in {"untimed1", "exchange"} \cup Passed
    BY <1>3, <1>4, <1>5, <2>1 DEF Passed, At
  <2>2. ASSUME NEW s \in Ranks, At(s)' \in Passed PROVE At(s) \in Passed
    BY <1>3, <1>4, <2>2 DEF Passed
  <2>. QED  BY <1>1, <2>1, <2>2, QueuesStay
<1>. QED  BY <1>6, <1>7, <1>8, <1>9 DEF UntimedInd

LEMMA UntimedStutter == ASSUME UntimedInd, UNCHANGED vars PROVE UntimedInd'
  BY DEF vars, UntimedInd, UntimedTypeOK, Placed, Mates, Tested, At, Beside, Counted, Drained

LEMMA UntimedStep == ASSUME UntimedInd, [Next]_vars PROVE UntimedInd'
<1>1. ASSUME NEW p \in Part, Step(p) PROVE UntimedInd'
  BY <1>1, ReleaseInd, ResetInd, ThreadDataInd, TestInd, SetupInd, PrepareInd, ComponentsInd DEF Step
<1>. QED  BY <1>1, ExchangeDataInd, UpdateInd, RunInd, UntimedStutter DEF Next, Done

LEMMA UntimedAlways == Spec => []UntimedInd
  BY UntimedInit, UntimedStep, PTL DEF Spec

(***************************************************************************)
(* "Initialization ends when no components have sent any data": on all     *)
(* threads of all ranks in the same round, with nothing left in a queue,   *)
(* whatever the interleaving of threads and ranks between the barriers and *)
(* the collective operations.                                              *)
(***************************************************************************)
THEOREM PhasesEndTogether == Spec => []EndTogether
<1>1. ASSUME UntimedInd PROVE EndTogether
  <2>. USE ConstantFacts
  <2>. SUFFICES ASSUME NEW p \in Part, NEW q \in Part
       PROVE  /\ pc[p] = "ended" /\ stage[p] = stage[q] =>
                    /\ pc[q] \in Leaving
                    /\ phase[p] = Counted(q)
                    /\ \A l \in Links : l[2] = q /\ pc[q] = "ended" =>
                        queue[l] = <<>> \/ pc[l[1]] # "ended" \/ stage[l[1]] # stage[q]
              /\ stage[p] = "complete" /\ stage[q] = "init" => pc[q] \in {"final", "setup", "run"}
    BY DEF EndTogether
  <2>1. PICK r \in Ranks, s \in Ranks : r = RankOf[p] /\ s = RankOf[q]
    OBVIOUS
  <2>2. Placed(p) /\ Placed(q) /\ Mates(p) /\ Mates(q) /\ Placed(Master[r]) /\ Placed(Master[s])
    BY <1>1 DEF UntimedInd
  <2>3. r # s => Beside(r, s) \/ Beside(s, r)
    BY <1>1 DEF UntimedInd
  <2>4. ASSUME pc[p] = "ended", stage[p] = stage[q]
        PROVE  pc[q] \in Leaving /\ phase[p] = Counted(q)
    <3>1. At(r) \in {"test", "updateLast", "ended"} /\ phase[p] = Tested(Master[r])
      BY <2>1, <2>2, <2>4 DEF Mates, SameSegment, Tested
    <3>2. At(r) = "test" => count[r] = 0
      BY <2>1, <2>2, <2>4 DEF Mates
    <3>3. CASE r = s
      <4>1. pc[q] \in {"test", "updateLast", "ended"}
        BY <2>1, <2>2, <3>1, <3>2, <3>3 DEF Mates, SameSegment, MasterOnly, At
      <4>2. Tested(q) = Tested(Master[r])
        BY <2>1, <2>2, <3>1, <3>3 DEF Mates
      <4>. QED  BY <3>1, <4>1, <4>2 DEF Leaving, Counted, Tested
    <3>4. CASE r # s
      <4>1. stage[Master[r]] = stage[Master[s]]
        BY <2>1, <2>2, <2>4 DEF Mates
      <4>2. /\ At(s) \in {"untimed2", "counted", "test", "updateLast", "ended", "finalize"}
            /\ At(s) = "test" => count[s] = 0
            /\ Counted(Master[r]) = Counted(Master[s])
        BY <2>2, <2>3, <3>1, <3>2, <3>4, <4>1
           DEF Beside, PreRound, PostRound, Between, Placed, At
      <4>3. phase[p] = Counted(Master[r])
        BY <3>1 DEF Tested, Counted, At
      <4>4. pc[q] \in Leaving /\ Tested(q) = Tested(Master[s])
        BY <2>1, <2>2, <4>2 DEF Mates, SameSegment, MasterOnly, Leaving, At
      <4>5. Counted(q) = Counted(Master[s])
        <5>1. pc[q] \in {"untimed2", "counted"} <=> At(s) \in {"untimed2", "counted"}
          BY <2>1, <2>2, <4>2 DEF Mates, SameSegment, MasterOnly, At
        <5>. QED  BY <4>4, <5>1 DEF Counted, Tested, At
      <4>. QED  BY <4>2, <4>3, <4>4, <4>5
    <3>. QED  BY <3>3, <3>4
  <2>5. ASSUME NEW l \in Links, l[2] = q, pc[q] = "ended", pc[l[1]] = "ended" PROVE queue[l] = <<>>
    <3>1. l[1] \in Part /\ l[2] \in Part /\ Drained(l) /\ Mates(l[1])
      BY <1>1, UntimedAssumption DEF UntimedInd
    <3>2. At(RankOf[l[1]]) \in {"test", "updateLast", "ended"}
      BY <2>5, <3>1 DEF Mates, SameSegment
    <3>3. l \in Local \/ l \in CrossThread \/ l \in CrossRank
      BY DEF Local, CrossThread, CrossRank
    <3>. QED  BY <2>5, <3>1, <3>2, <3>3 DEF Drained, Passed
  <2>6. ASSUME stage[p] = "complete", stage[q] = "init" PROVE pc[q] \in {"final", "setup", "run"}
    <3>1. stage[Master[r]] = "complete" /\ stage[Master[s]] = "init" /\ r # s
      BY <2>1, <2>2, <2>6 DEF Mates
    <3>2. At(s) \in {"final", "setup", "run"}
      BY <2>2, <2>3, <3>1 DEF Beside, PreRound, PostRound, Between, Placed, At
    <3>. QED  BY <2>1, <2>2, <3>2 DEF Mates, SameSegment, MasterOnly, At
  <2>. QED  BY <2>4, <2>5, <2>6
<1>. QED  BY <1>1, UntimedAlways, PTL

-----------------------------------------------------------------------------
(* The data. *)

LEMMA LinkFacts ==
    ASSUME NEW l \in Links
    PROVE  /\ l[1] \in Part /\ l[2] \in Part /\ RankOf[l[1]] \in Ranks /\ RankOf[l[2]] \in Ranks
           /\ l \in Local \/ l \in CrossThread \/ l \in CrossRank
           /\ l \in Local => l[1] = l[2] /\ l \notin CrossThread /\ l \notin CrossRank
           /\ l \in CrossThread => RankOf[l[1]] = RankOf[l[2]] /\ l \notin CrossRank
           /\ l \in CrossRank => RankOf[l[1]] # RankOf[l[2]]
  BY UntimedAssumption DEF Local, CrossThread, CrossRank

(* recvUntimedData returns all data of its round. *)
LEMMA ReceivesAll ==
    ASSUME NEW k \in Nat, NEW s \in Seq({Data(k)}) PROVE Unreceived(s, k) = <<>>
  BY DEF Unreceived, Available, Data

(* The threads of a rank that exchange their data are in the same round. *)
LEMMA SamePhase ==
    ASSUME UntimedInd, NEW p \in Part, NEW q \in Part, RankOf[p] = RankOf[q],
           pc[p] \in {"sent", "untimed0", "threadData", "untimed1", "exchange", "untimed2"}
    PROVE  phase[p] = phase[q]
<1>1. Mates(p) /\ Mates(q)
  BY DEF UntimedInd
<1>. QED  BY <1>1 DEF Mates, SameSegment, Tested, At

(* Steps that change neither the queues nor the boxes, nor the phase of a thread that has any. *)
LEMMA DataStays ==
    ASSUME DataInd, UNCHANGED <<queue, box>>,
           \A q \in Part :
             /\ pc[q] # "test" => phase'[q] = phase[q]
             /\ pc'[q] \in Late => pc[q] \in Late /\ phase'[q] = phase[q]
             /\ pc'[q] \in Early =>
                    \/ pc[q] \in Early /\ phase'[q] = phase[q]
                    \/ pc[q] = "test" /\ (phase[q] < MaxPhase => phase'[q] = phase[q] + 1)
                    \/ pc[q] = "prepared"
             /\ pc'[q] \in {"complete", "prepare", "prepared"} =>
                    pc[q] \in {"complete", "prepare", "prepared"},
           \A l \in Links : queue[l] # <<>> =>
             /\ pc'[l[1]] \in {"sent", "untimed0", "threadData", "untimed1", "exchange", "untimed2"}
             /\ l \in CrossThread => pc'[l[2]] \in {"components", "sent", "untimed0", "threadData"}
             /\ l \in CrossRank => At(RankOf[l[1]])' \in PreRound
    PROVE  DataInd'
<1>. SUFFICES ASSUME NEW l \in Links PROVE QueuedNow(l)' /\ BoxedNext(l)'
  BY DEF DataInd
<1>. USE LinkFacts, ConstantFacts
<1>1. QueuedNow(l) /\ BoxedNext(l)
  BY DEF DataInd
<1>2. QueuedNow(l)'
  BY <1>1 DEF QueuedNow
<1>3. BoxedNext(l)'
  BY <1>1 DEF BoxedNext, Early, Late, PostRound
<1>. QED  BY <1>2, <1>3

LEMMA ReleaseData == ASSUME UntimedInd, DataInd, NEW p \in Part, Release(p) PROVE DataInd'
<1>. USE ConstantFacts
<1>1. PICK r \in Ranks, l \in Barriers : r = RankOf[p] /\ l = pc[p]
  BY DEF Release
<1>2. /\ \A q \in Part : RankOf[q] = r => pc[q] = l /\ pc'[q] = Beyond(q, l)
      /\ \A q \in Part : RankOf[q] # r => pc'[q] = pc[q]
      /\ UNCHANGED <<stage, phase, count, queue, box>>
  BY <1>1 DEF Release, Together, PartsOf
<1>3. ASSUME NEW q \in Part
      PROVE  /\ pc'[q] \in Late => pc[q] \in Late
             /\ pc'[q] \in Early => pc[q] \in Early \/ pc[q] = "prepared"
             /\ pc'[q] \in {"complete", "prepare", "prepared"} =>
                    pc[q] \in {"complete", "prepare", "prepared"}
  BY <1>2, BeyondFacts DEF Early, Late, PostRound, Barriers
<1>4. ASSUME NEW d \in Links, queue[d] # <<>>
      PROVE  /\ pc'[d[1]] \in {"sent", "untimed0", "threadData", "untimed1", "exchange", "untimed2"}
             /\ d \in CrossThread => pc'[d[2]] \in {"components", "sent", "untimed0", "threadData"}
             /\ d \in CrossRank => At(RankOf[d[1]])' \in PreRound
  <2>. USE LinkFacts
  <2>1. QueuedNow(d)
    BY DEF DataInd
  <2>2. CASE RankOf[d[1]] # r
    BY <1>2, <1>4, <2>1, <2>2 DEF QueuedNow, At
  <2>3. CASE RankOf[d[1]] = r
    <3>1. pc[d[1]] = l /\ pc'[d[1]] = Beyond(d[1], l) /\ At(r) = l /\ At(r)' = Beyond(Master[r], l)
      BY <1>2, <2>3 DEF At
    <3>2. CASE d \in CrossThread
      <4>1. pc[d[2]] = l /\ pc'[d[2]] = Beyond(d[2], l)
        BY <1>2, <2>3, <3>2
      <4>2. l \in {"sent", "untimed0"}
        BY <1>4, <2>1, <3>1, <3>2, <4>1 DEF QueuedNow, Barriers
      <4>. QED  BY <3>1, <3>2, <4>1, <4>2, BeyondFacts
    <3>3. CASE d \in CrossRank
      <4>1. l \in {"sent", "untimed0", "untimed1"}
        BY <1>4, <2>1, <2>3, <3>1, <3>3 DEF QueuedNow, PreRound, Barriers
      <4>2. IsMaster(Master[r])
        BY DEF IsMaster
      <4>. QED  BY <2>3, <3>1, <3>3, <4>1, <4>2, BeyondFacts DEF PreRound
    <3>4. d \notin Local
      BY <1>4 DEF UntimedInd, Drained
    <3>. QED  BY <3>2, <3>3, <3>4
  <2>. QED  BY <2>2, <2>3
<1>. QED  BY <1>2, <1>3, <1>4, DataStays

(* A step of a thread that has nothing in its queues and leaves the boxes alone. *)
LEMMA ThreadKeepsData ==
    ASSUME UntimedInd, DataInd, NEW p \in Part, NEW l,
           pc' = [pc EXCEPT ![p] = l], UNCHANGED <<queue, box>>,
           \A q \in Part : q # p => phase'[q] = phase[q],
           \/ pc[p] = "zero" /\ l = "reset" /\ phase'[p] = phase[p]
           \/ pc[p] = "setup" /\ l = "run" /\ phase'[p] = phase[p]
           \/ /\ pc[p] = "test" /\ l \in {"update", "updateLast", "top", "ended"}
              /\ phase'[p] = NextPhase(phase[p])
    PROVE  DataInd'
<1>. USE ConstantFacts
<1>1. /\ \A q \in Part : pc'[q] = IF q = p THEN l ELSE pc[q]
      /\ phase[p] \in 0 .. PhaseLimit - 1
  BY DEF UntimedInd, UntimedTypeOK
<1>2. phase[p] < MaxPhase => NextPhase(phase[p]) = phase[p] + 1
  BY <1>1, NextPhaseType
<1>3. ASSUME NEW q \in Part
      PROVE  /\ pc[q] # "test" => phase'[q] = phase[q]
             /\ pc'[q] \in Late => pc[q] \in Late /\ phase'[q] = phase[q]
             /\ pc'[q] \in Early =>
                    \/ pc[q] \in Early /\ phase'[q] = phase[q]
                    \/ pc[q] = "test" /\ (phase[q] < MaxPhase => phase'[q] = phase[q] + 1)
                    \/ pc[q] = "prepared"
             /\ pc'[q] \in {"complete", "prepare", "prepared"} =>
                    pc[q] \in {"complete", "prepare", "prepared"}
  <2>1. CASE q # p
    BY <1>1, <2>1
  <2>2. CASE q = p
    BY <1>1, <1>2, <2>2 DEF Early, Late, PostRound
  <2>. QED  BY <2>1, <2>2
<1>4. ASSUME NEW d \in Links, queue[d] # <<>>
      PROVE  /\ pc'[d[1]] \in {"sent", "untimed0", "threadData", "untimed1", "exchange", "untimed2"}
             /\ d \in CrossThread => pc'[d[2]] \in {"components", "sent", "untimed0", "threadData"}
             /\ d \in CrossRank => At(RankOf[d[1]])' \in PreRound
  <2>. USE LinkFacts
  <2>1. QueuedNow(d)
    BY DEF DataInd
  <2>2. At(RankOf[d[1]])' = IF p = Master[RankOf[d[1]]] THEN l ELSE At(RankOf[d[1]])
    BY <1>1 DEF At
  <2>3. d \in CrossRank => At(RankOf[d[1]]) # "zero"
    BY <1>4, <2>1 DEF UntimedInd, Mates, SameSegment, QueuedNow
  <2>4. d \in CrossRank => At(RankOf[d[1]]) \notin {"setup", "test"}
    BY <1>4, <2>1 DEF QueuedNow, PreRound
  <2>. QED  BY <1>1, <1>4, <2>1, <2>2, <2>3, <2>4 DEF QueuedNow, At
<1>. QED  BY <1>3, <1>4, DataStays

LEMMA ResetData == ASSUME UntimedInd, DataInd, NEW p \in Part, Reset(p) PROVE DataInd'
<1>1. /\ pc[p] = "zero" /\ pc' = [pc EXCEPT ![p] = "reset"] /\ UNCHANGED <<phase, queue, box>>
  BY DEF Reset, Goto
<1>. QED  BY <1>1, ThreadKeepsData

LEMMA SetupData == ASSUME UntimedInd, DataInd, NEW p \in Part, Setup(p) PROVE DataInd'
<1>1. /\ pc[p] = "setup" /\ pc' = [pc EXCEPT ![p] = "run"] /\ UNCHANGED <<phase, queue, box>>
  BY DEF Setup, Goto
<1>. QED  BY <1>1, ThreadKeepsData

LEMMA TestData == ASSUME UntimedInd, DataInd, NEW p \in Part, Test(p) PROVE DataInd'
<1>1. PICK l \in {"update", "updateLast", "top", "ended"} : pc' = [pc EXCEPT ![p] = l]
  BY DEF Test, Goto
<1>2. /\ pc[p] = "test" /\ UNCHANGED <<queue, box>> /\ phase' = [phase EXCEPT ![p] = NextPhase(phase[p])]
      /\ DOMAIN phase = Part
  BY DEF Test, UntimedInd, UntimedTypeOK
<1>. QED  BY <1>1, <1>2, ThreadKeepsData

LEMMA UpdateData == ASSUME UntimedInd, DataInd, Update PROVE DataInd'
<1>. USE ConstantFacts
<1>1. /\ \A r \in Ranks : At(r) \in Updating
      /\ \A p \in Part : pc'[p] = IF p \in Masters THEN AfterUpdate(pc[p]) ELSE pc[p]
      /\ UNCHANGED <<stage, phase, count, queue, box>>
  BY DEF Update, At, Masters
<1>2. /\ AfterUpdate("update") = "top" /\ AfterUpdate("updateLast") = "ended"
      /\ AfterUpdate("finalize") = "final"
  BY DEF AfterUpdate
<1>3. \A p \in Part : p \in Masters => pc[p] \in {"update", "updateLast", "finalize"}
  BY <1>1 DEF Masters, At, Updating
<1>4. \A d \in Links : queue[d] = <<>>
  <2>1. ASSUME NEW d \in Links, queue[d] # <<>> PROVE FALSE
    <3>1. QueuedNow(d) /\ Mates(d[1]) /\ At(RankOf[d[1]]) \in Updating
      BY <1>1, LinkFacts DEF DataInd, UntimedInd
    <3>. QED  BY <2>1, <3>1 DEF QueuedNow, Mates, SameSegment, Updating
  <2>. QED  BY <2>1
<1>5. ASSUME NEW q \in Part
      PROVE  /\ pc'[q] \in Late => pc[q] \in Late
             /\ pc'[q] \in Early => pc[q] \in Early
             /\ pc'[q] \in {"complete", "prepare", "prepared"} =>
                    pc[q] \in {"complete", "prepare", "prepared"}
  BY <1>1, <1>2, <1>3 DEF Early, Late, PostRound
<1>. QED  BY <1>1, <1>4, <1>5, DataStays

LEMMA RunData == ASSUME UntimedInd, DataInd, ~StopAt, NEW r \in Ranks, Run(r) PROVE DataInd'
<1>. USE ConstantFacts
<1>1. /\ \A q \in Part : RankOf[q] = r => pc[q] = "run"
      /\ \A q \in Part : pc'[q] = IF RankOf[q] = r THEN "complete" ELSE pc[q]
      /\ \A d \in Links : box'[d] = IF RankOf[d[2]] = r THEN <<>> ELSE box[d]
      /\ \A d \in Links : queue'[d] = queue[d]
      /\ phase' = phase
  BY DEF Run, PartsOf
<1>. SUFFICES ASSUME NEW l \in Links PROVE QueuedNow(l)' /\ BoxedNext(l)'
  BY DEF DataInd
<1>. USE LinkFacts
<1>2. QueuedNow(l) /\ BoxedNext(l)
  BY DEF DataInd
<1>3. queue[l] # <<>> => RankOf[l[1]] # r
  BY <1>1, <1>2 DEF QueuedNow
<1>4. QueuedNow(l)'
  BY <1>1, <1>2, <1>3 DEF QueuedNow, At
<1>5. BoxedNext(l)'
  BY <1>1, <1>2 DEF BoxedNext
<1>. QED  BY <1>4, <1>5

LEMMA PrepareData == ASSUME UntimedInd, DataInd, NEW p \in Part, Prepare(p) PROVE DataInd'
<1>. USE ConstantFacts
<1>1. /\ pc[p] = "prepare" /\ queue' = queue
      /\ \A q \in Part : pc'[q] = IF q = p THEN "prepared" ELSE pc[q]
      /\ \A q \in Part : phase'[q] = IF q = p THEN 0 ELSE phase[q]
      /\ \A d \in Links : box'[d] = IF d[2] = p THEN <<>> ELSE box[d]
  BY DEF Prepare, Goto, UntimedInd, UntimedTypeOK
<1>. SUFFICES ASSUME NEW l \in Links PROVE QueuedNow(l)' /\ BoxedNext(l)'
  BY DEF DataInd
<1>. USE LinkFacts
<1>2. QueuedNow(l) /\ BoxedNext(l)
  BY DEF DataInd
<1>3. queue[l] # <<>> => l[1] # p /\ (l \in CrossThread => l[2] # p) /\
                         (l \in CrossRank => Master[RankOf[l[1]]] # p)
  BY <1>1, <1>2 DEF QueuedNow, At, PreRound
<1>4. QueuedNow(l)'
  BY <1>1, <1>2, <1>3 DEF QueuedNow, At
<1>5. BoxedNext(l)'
  BY <1>1, <1>2 DEF BoxedNext
<1>. QED  BY <1>4, <1>5

LEMMA ComponentsData ==
    ASSUME UntimedInd, DataInd, NEW p \in Part, NEW S \in SUBSET {l \in Links : l[1] = p},
           Components(p, S)
    PROVE  DataInd'
<1>. USE ConstantFacts
<1>1. /\ pc[p] = "components" /\ (phase[p] < MaxPhase \/ S = {}) /\ phase' = phase
      /\ \A q \in Part : pc'[q] = IF q = p THEN "sent" ELSE pc[q]
      /\ \A l \in Links : queue'[l] = IF l \in S \ Local THEN Append(queue[l], Data(phase[p] + 1))
                                      ELSE queue[l]
      /\ \A l \in Links :
            LET kept == IF l[2] = p THEN Unreceived(box[l], phase[p]) ELSE box[l]
            IN  box'[l] = IF l \in S \cap Local THEN Append(kept, Data(phase[p] + 1)) ELSE kept
  BY DEF Components, Goto, UntimedInd, UntimedTypeOK
<1>2. phase[p] \in Nat /\ At(RankOf[p]) \in {"components", "sent"}
  BY <1>1 DEF UntimedInd, UntimedTypeOK, Mates, SameSegment
<1>3. Append(<<>>, Data(phase[p] + 1)) \in Seq({Data(phase[p] + 1)})
  OBVIOUS
<1>. SUFFICES ASSUME NEW l \in Links PROVE QueuedNow(l)' /\ BoxedNext(l)'
  BY DEF DataInd
<1>. USE LinkFacts
<1>4. QueuedNow(l) /\ BoxedNext(l) /\ Mates(l[2]) /\ Mates(l[1])
  BY DEF DataInd, UntimedInd
<1>5. At(RankOf[l[1]])' = IF p = Master[RankOf[l[1]]] THEN "sent" ELSE At(RankOf[l[1]])
  BY <1>1 DEF At
<1>6. QueuedNow(l)'
  <2>1. CASE l \in S \ Local
    <3>1. l[1] = p /\ queue[l] = <<>> /\ queue'[l] = Append(<<>>, Data(phase[p] + 1)) /\ phase[p] < MaxPhase
      BY <1>1, <1>4, <2>1 DEF QueuedNow
    <3>2. l \in CrossThread => pc[l[2]] \in {"components", "sent"}
      BY <1>2, <1>4, <3>1 DEF Mates, SameSegment
    <3>3. At(RankOf[l[1]])' \in PreRound
      BY <1>2, <1>5, <3>1 DEF PreRound
    <3>. QED  BY <1>1, <1>3, <3>1, <3>2, <3>3 DEF QueuedNow
  <2>2. CASE l \notin S \ Local
    BY <1>1, <1>4, <1>5, <2>2 DEF QueuedNow, PreRound
  <2>. QED  BY <2>1, <2>2
<1>7. BoxedNext(l)'
  <2>1. CASE l[2] = p
    <3>1. Unreceived(box[l], phase[p]) = <<>>
      <4>1. box[l] \in Seq({Data(phase[p])})
        <5>1. <<>> \in Seq({Data(phase[p])})
          OBVIOUS
        <5>2. box[l] # <<>> => box[l] \in Seq({Data(phase[p])})
          BY <1>1, <1>4, <2>1 DEF BoxedNext, Early
        <5>. QED  BY <5>1, <5>2
      <4>. QED  BY <1>2, <4>1, ReceivesAll
    <3>2. \/ box'[l] = <<>>
          \/ box'[l] = Append(<<>>, Data(phase[p] + 1)) /\ phase[p] < MaxPhase
      BY <1>1, <2>1, <3>1
    <3>. QED  BY <1>1, <1>3, <2>1, <3>2 DEF BoxedNext, Early
  <2>2. CASE l[2] # p
    BY <1>1, <1>4, <2>2 DEF BoxedNext
  <2>. QED  BY <2>1, <2>2
<1>. QED  BY <1>6, <1>7

LEMMA ThreadDataData == ASSUME UntimedInd, DataInd, NEW p \in Part, ThreadData(p) PROVE DataInd'
<1>. USE ConstantFacts
<1>1. /\ pc[p] = "threadData" /\ phase' = phase
      /\ \A q \in Part : pc'[q] = IF q = p THEN "untimed1" ELSE pc[q]
      /\ \A l \in Links : queue'[l] = IF l \in CrossThread /\ l[2] = p THEN <<>> ELSE queue[l]
      /\ \A l \in Links : box'[l] = IF l \in CrossThread /\ l[2] = p THEN box[l] \o queue[l] ELSE box[l]
  BY DEF ThreadData, Goto, UntimedInd, UntimedTypeOK
<1>. SUFFICES ASSUME NEW l \in Links PROVE QueuedNow(l)' /\ BoxedNext(l)'
  BY DEF DataInd
<1>. USE LinkFacts
<1>2. QueuedNow(l) /\ BoxedNext(l)
  BY DEF DataInd
<1>3. At(RankOf[l[1]])' = IF p = Master[RankOf[l[1]]] THEN "untimed1" ELSE At(RankOf[l[1]])
  BY <1>1 DEF At
<1>4. CASE l \in CrossThread /\ l[2] = p
  <2>1. queue[l] # <<>> => queue[l] \in Seq({Data(phase[p] + 1)}) /\ phase[p] < MaxPhase
    BY <1>2, <1>4, SamePhase DEF QueuedNow
  <2>2. box[l] # <<>> => box[l] \in Seq({Data(phase[p] + 1)}) /\ phase[p] < MaxPhase
    BY <1>1, <1>2, <1>4 DEF BoxedNext, Late
  <2>3. box[l] \o queue[l] # <<>> =>
            box[l] \o queue[l] \in Seq({Data(phase[p] + 1)}) /\ phase[p] < MaxPhase
    <3>1. <<>> \in Seq({Data(phase[p] + 1)}) /\ <<>> \o <<>> = <<>>
      OBVIOUS
    <3>2. box[l] \in Seq({Data(phase[p] + 1)}) /\ queue[l] \in Seq({Data(phase[p] + 1)})
      BY <2>1, <2>2, <3>1
    <3>3. box[l] \o queue[l] \in Seq({Data(phase[p] + 1)})
      BY <3>2
    <3>. QED  BY <2>1, <2>2, <3>1, <3>3
  <2>4. QueuedNow(l)'
    BY <1>1, <1>4 DEF QueuedNow
  <2>5. BoxedNext(l)'
    BY <1>1, <1>4, <2>3 DEF BoxedNext, Early
  <2>. QED  BY <2>4, <2>5
<1>5. CASE ~(l \in CrossThread /\ l[2] = p)
  <2>1. QueuedNow(l)'
    BY <1>1, <1>2, <1>3, <1>5 DEF QueuedNow, PreRound
  <2>2. BoxedNext(l)'
    BY <1>1, <1>2, <1>5 DEF BoxedNext, Early, Late
  <2>. QED  BY <2>1, <2>2
<1>. QED  BY <1>4, <1>5

LEMMA ExchangeDataData == ASSUME UntimedInd, DataInd, ExchangeData PROVE DataInd'
<1>. USE ConstantFacts
<1>1. /\ \A r \in Ranks : At(r) = "exchange"
      /\ \A p \in Part : pc'[p] = IF p \in Masters THEN "untimed2" ELSE pc[p]
      /\ \A d \in Links : queue'[d] = IF d \in CrossRank THEN <<>> ELSE queue[d]
      /\ \A d \in Links : box'[d] = IF d \in CrossRank THEN box[d] \o queue[d] ELSE box[d]
      /\ phase' = phase
  BY DEF ExchangeData, At, Masters
<1>2. \A p \in Part : pc[p] \in {"exchange", "untimed2"} /\ pc'[p] = "untimed2"
  <2>1. \A p \in Part : p \in Masters <=> p = Master[RankOf[p]]
    BY DEF Masters
  <2>2. \A p \in Part : Mates(p) /\ At(RankOf[p]) = "exchange"
    BY <1>1 DEF UntimedInd
  <2>3. \A p \in Part : pc[p] \in {"exchange", "untimed2"} /\ (pc[p] = "exchange" => p = Master[RankOf[p]])
    BY <2>2 DEF Mates, SameSegment, MasterOnly
  <2>. QED  BY <1>1, <2>1, <2>3
<1>. SUFFICES ASSUME NEW l \in Links PROVE QueuedNow(l)' /\ BoxedNext(l)'
  BY DEF DataInd
<1>. USE LinkFacts
<1>3. QueuedNow(l) /\ BoxedNext(l)
  BY DEF DataInd
<1>4. l \notin CrossRank => queue[l] = <<>>
  <2>1. Drained(l)
    BY DEF UntimedInd
  <2>. QED  BY <1>2, <2>1 DEF Drained, Passed
<1>5. QueuedNow(l)'
  BY <1>1, <1>4 DEF QueuedNow
<1>6. PICK k \in Nat : k = phase[l[2]]
  BY DEF UntimedInd, UntimedTypeOK
<1>7. phase[l[1]] = k
  <2>1. PICK r \in Ranks, s \in Ranks : r = RankOf[l[1]] /\ s = RankOf[l[2]]
    OBVIOUS
  <2>2. phase[Master[r]] = phase[l[1]] /\ phase[Master[s]] = phase[l[2]]
    BY <1>2, <2>1, SamePhase
  <2>3. r # s => phase[Master[r]] = phase[Master[s]]
    <3>1. At(r) = "exchange" /\ At(s) = "exchange"
      BY <1>1
    <3>2. r # s => Beside(r, s) \/ Beside(s, r)
      BY DEF UntimedInd
    <3>. QED  BY <3>1, <3>2 DEF Beside, PreRound, PostRound, Between, Counted, At
  <2>. QED  BY <1>6, <2>2, <2>3
<1>8. /\ queue[l] # <<>> => queue[l] \in Seq({Data(k + 1)}) /\ k < MaxPhase
      /\ box[l] # <<>> => box[l] \in Seq({Data(k + 1)}) /\ k < MaxPhase
  BY <1>2, <1>3, <1>6, <1>7 DEF QueuedNow, BoxedNext, Late, PostRound
<1>9. box'[l] # <<>> => box'[l] \in Seq({Data(k + 1)}) /\ k < MaxPhase
  <2>1. <<>> \in Seq({Data(k + 1)}) /\ <<>> \o <<>> = <<>>
    OBVIOUS
  <2>2. box[l] \in Seq({Data(k + 1)}) /\ queue[l] \in Seq({Data(k + 1)})
    BY <1>8, <2>1
  <2>3. box[l] \o queue[l] \in Seq({Data(k + 1)})
    BY <2>2
  <2>. QED  BY <1>1, <1>8, <2>1, <2>2, <2>3
<1>10. BoxedNext(l)'
  BY <1>1, <1>2, <1>6, <1>9 DEF BoxedNext, Early
<1>. QED  BY <1>5, <1>10

LEMMA DataInit == ASSUME Init PROVE DataInd
  BY DEF Init, DataInd, QueuedNow, BoxedNext

LEMMA DataStep ==
    ASSUME ~StopAt, UntimedInd, DataInd, [Next]_vars PROVE DataInd'
<1>1. ASSUME NEW p \in Part, Step(p) PROVE DataInd'
  BY <1>1, ReleaseData, ResetData, ThreadDataData, TestData, SetupData, PrepareData, ComponentsData
     DEF Step
<1>2. CASE UNCHANGED vars
  BY <1>2 DEF vars, DataInd, QueuedNow, BoxedNext, At
<1>. QED  BY <1>1, <1>2, ExchangeDataData, UpdateData, RunData DEF Next, Done

(***************************************************************************)
(* Untimed data are received in the round after the one they were sent in, *)
(* on links of all three kinds, unless --stop-at has cut off the run.      *)
(***************************************************************************)
THEOREM DataReceivedNextRound == ASSUME ~StopAt PROVE Spec => []ReceivedNextRound
<1>1. ASSUME UntimedInd, DataInd PROVE ReceivedNextRound
  <2>. USE ConstantFacts, LinkFacts
  <2>. SUFFICES ASSUME NEW l \in Links, pc[l[2]] = "sent",
                       NEW m \in {box[l][i] : i \in DOMAIN box[l]} \cup
                                 {queue[l][i] : i \in DOMAIN queue[l]}
                PROVE  m.time > phase[l[2]]
    BY DEF ReceivedNextRound
  <2>1. PICK k \in Nat : k = phase[l[2]]
    BY <1>1 DEF UntimedInd, UntimedTypeOK
  <2>2. QueuedNow(l) /\ BoxedNext(l) /\ Mates(l[2]) /\ Mates(l[1]) /\ Drained(l)
    BY <1>1 DEF DataInd, UntimedInd
  <2>3. box[l] # <<>> => box[l] \in Seq({Data(k + 1)})
    BY <2>1, <2>2 DEF BoxedNext, Late
  <2>4. queue[l] # <<>> => phase[l[1]] = k
    <3>1. CASE l \in CrossThread
      BY <1>1, <2>1, <3>1, SamePhase
    <3>2. ASSUME l \in CrossRank, queue[l] # <<>> PROVE phase[l[1]] = k
      <4>1. PICK r \in Ranks, s \in Ranks : r = RankOf[l[1]] /\ s = RankOf[l[2]]
        OBVIOUS
      <4>2. phase[Master[r]] = phase[l[1]] /\ phase[Master[s]] = phase[l[2]]
        BY <1>1, <2>2, <3>2, <4>1, SamePhase DEF QueuedNow
      <4>3. At(r) \in PreRound /\ At(s) \in {"components", "sent"} /\ (Beside(r, s) \/ Beside(s, r))
        BY <1>1, <2>2, <3>2, <4>1 DEF QueuedNow, Mates, SameSegment, UntimedInd
      <4>4. phase[Master[r]] = phase[Master[s]]
        BY <4>3 DEF Beside, PreRound, PostRound, Between, Counted, At
      <4>. QED  BY <2>1, <4>2, <4>4
    <3>3. l \in Local => queue[l] = <<>>
      BY <2>2 DEF Drained
    <3>. QED  BY <3>1, <3>2, <3>3
  <2>5. queue[l] # <<>> => queue[l] \in Seq({Data(k + 1)})
    BY <2>2, <2>4 DEF QueuedNow
  <2>6. m = Data(k + 1)
    BY <2>3, <2>5
  <2>. QED  BY <2>1, <2>6 DEF Data
<1>. QED  BY <1>1, UntimedAlways, DataInit, DataStep, PTL DEF Spec

-----------------------------------------------------------------------------
(***************************************************************************)
(* With shared objects the untimed phases take the same steps as without:  *)
(* SharedObjectDataManager only adds its own state to those of Simulation. *)
(***************************************************************************)
THEOREM SharedImplementsUntimed == SharedSpec => Spec
<1>1. SharedInit => Init
  BY DEF SharedInit
<1>2. [SharedNext]_allvars => [Next]_vars
  BY DEF SharedNext, SharedStep, Initialize, Publish, Write, UpdateState, Next, allvars, vars
<1>. QED  BY <1>1, <1>2, PTL DEF SharedSpec, Spec

(* With components that share objects, too, all threads leave a phase of     *)
(* Simulation::initialize or complete after the same round.                  *)
THEOREM SharedEndTogether == SharedSpec => []EndTogether
  BY SharedImplementsUntimed, PhasesEndTogether, PTL

(* And recvUntimedData returns what was sent in the round before, unless     *)
(* --stop-at has cut off the run.                                            *)
THEOREM SharedReceivedNextRound == ASSUME ~StopAt PROVE SharedSpec => []ReceivedNextRound
  BY SharedImplementsUntimed, DataReceivedNextRound, PTL

(***************************************************************************)
(* updateState may leave out the mutex of write: while thread 0 is in it,  *)
(* no component of its rank runs, "with barrier before and after".         *)
(***************************************************************************)
THEOREM UpdatesAreQuiet == SharedSpec => []QuietUpdate
<1>1. ASSUME UntimedInd PROVE QuietUpdate
  <2>. SUFFICES ASSUME NEW r \in Ranks, pc[Master[r]] \in Updating, NEW p \in Part, RankOf[p] = r
                PROVE  ~Active(p)
    BY DEF QuietUpdate, PartsOf
  <2>1. Mates(p)
    BY <1>1 DEF UntimedInd
  <2>. QED  BY <2>1 DEF Mates, SameSegment, Updating, Active, At
<1>. QED  BY <1>1, SharedImplementsUntimed, UntimedAlways, PTL

-----------------------------------------------------------------------------
(* The contents of shared objects. *)
Objects ==
    [made : BOOLEAN, verify : Verify \cup {Uninitialized}, data : [Keys -> Values \cup {None}],
     written : SUBSET Keys, share : Nat, publish : Nat, fully : BOOLEAN, locked : BOOLEAN,
     changes : Seq(Keys \X Values), fatal : BOOLEAN]

SharedType ==
    /\ kind \in Kinds
    /\ object \in [Ranks -> Objects]
    /\ instance \in [Sharers -> {"none", "initialized", "published"}]
    /\ log \in Seq(Sharers \X Keys \X Values)
    /\ settled \in BOOLEAN
    /\ known \in SUBSET Sharers

(* Share and publish counts are those of the rank's instances. *)
Initialized(r) == {p \in Sharers : RankOf[p] = r /\ instance[p] # "none"}
Published(r) == {p \in Sharers : RankOf[p] = r /\ instance[p] = "published"}

CountsInd ==
    \A r \in Ranks :
        /\ object[r].share = Cardinality(Initialized(r))
        /\ object[r].publish = Cardinality(Published(r))
        /\ object[r].made \/ Initialized(r) = {}

(* Once the object is fully published, those who could write it are new. *)
NoNewcomer == \A p \in Sharers \ known : instance[p] = "none"

PublishedInd ==
    \A r \in Ranks : object[r].fully /\ ~object[r].locked =>
        /\ \A p \in known : instance[p] = "published"
        /\ NoNewcomer => \A s \in Ranks : object[s].changes = <<>>

(* What rank r has written at k since the last exchange. *)
Waiting(r, k) == {i \in DOMAIN object[r].changes : object[r].changes[i][1] = k}
Pending(r, k) == Waiting(r, k) # {}
Latest(r, i) ==
    \A j \in DOMAIN object[r].changes :
        j > i => object[r].changes[j][1] # object[r].changes[i][1]

(* An object nobody has declared is empty, a change set on one rank as well. *)
EmptyInd ==
    \A r \in Ranks :
        /\ Cardinality(Ranks) = 1 => object[r].changes = <<>>
        /\ ~object[r].made => object[r].verify = Uninitialized
        /\ object[r].verify = Uninitialized =>
            object[r].changes = <<>> /\ \A k \in Keys : object[r].data[k] = None

(* An instance of a map or set has declared it. *)
DeclaredInd ==
    kind # "array" => \A p \in Sharers :
        instance[p] # "none" => object[RankOf[p]].verify # Uninitialized

(* An array has no holes. *)
LengthInd ==
    \A r \in Ranks : kind = "array" => \A k, l \in Keys :
        k <= l /\ object[r].data[l] # None => object[r].data[k] # None

(* The change set holds what the rank's data say. *)
ChangesInd ==
    \A r \in Ranks : \A i \in DOMAIN object[r].changes :
        LET x == object[r].changes[i]
        IN  /\ Latest(r, i) \/ kind # "array" => object[r].data[x[1]] = x[2]
            /\ x[1] \in object[r].written /\ object[r].data[x[1]] # None
            /\ \E j \in DOMAIN log : log[j][2] = x[1] /\ RankOf[log[j][1]] = r

(* Where no change waits, the ranks agree. *)
AgreeInd ==
    \A k \in Keys : \A r, s \in Ranks : ~Pending(r, k) =>
        /\ ~Pending(s, k) => \/ object[r].data[k] = object[s].data[k]
                             \/ kind = "array" /\ {object[r].data[k], object[s].data[k]} = {None, 0}
        /\ Pending(s, k) /\ kind # "array" => object[r].data[k] \in {None, object[s].data[k]}

(* What a rank has written, and who may write without verification. *)
LogInd ==
    /\ \A i \in DOMAIN log : object[RankOf[log[i][1]]].verify # Uninitialized
    /\ \A i, j \in DOMAIN log :
        i < j /\ log[i][2] = log[j][2] /\ object[RankOf[log[j][1]]].verify = "NO_VERIFY" =>
            kind = "array" /\ log[i][1] = log[j][1]
    /\ kind # "array" => \A r \in Ranks, k \in Keys :
        object[r].data[k] # None => \E i \in DOMAIN log : log[i][2] = k

Kept(r, i) ==
    LET o == object[r]
        k == log[i][2]
        v == log[i][3]
    IN  \/ o.data[k] = v /\ (kind = "array" /\ o.verify = "FE_VERIFY" => k \in o.written)
        \/ kind = "array" /\ o.verify = "INIT_VERIFY" /\ v = 0
        \/ o.verify = "NO_VERIFY" /\ \E j \in DOMAIN log : j > i /\ log[j][2] = k

KeptInd ==
    \A i \in DOMAIN log, r \in Ranks :
        Kept(r, i) \/ (r # RankOf[log[i][1]] /\ Pending(RankOf[log[i][1]], log[i][2]))

SettledInd ==
    settled => \A r, s \in Ranks :
        object[r].changes = <<>> /\ object[r].data = object[s].data /\ object[r].verify = object[s].verify

ContentInd ==
    /\ EmptyInd /\ DeclaredInd /\ LengthInd /\ ChangesInd
    /\ AgreeInd /\ LogInd /\ KeptInd /\ SettledInd

ContentInv == Fatal \/ (SharedType /\ ContentInd)

-----------------------------------------------------------------------------
LEMMA SharedFacts ==
    /\ IsFiniteSet(Ranks) /\ Ranks \subseteq Nat
    /\ \A p \in Sharers : p \in Part /\ RankOf[p] \in Ranks
    /\ IsFiniteSet(Sharers)
    /\ Keys \subseteq Nat /\ Values \subseteq Nat /\ 0 \in Values /\ None \notin Values
    /\ Kinds \subseteq {"array", "map", "set"}
    /\ Verify \subseteq {"FE_VERIFY", "INIT_VERIFY", "NO_VERIFY"} /\ Uninitialized \notin Verify
    /\ \E n \in Nat : Keys = 1 .. n
<1>1. \E n \in Nat : Keys = 1 .. n
  <2>1. PICK n \in Keys : Keys = 1 .. n
    BY SharedAssumption
  <2>2. n \in Nat
    BY <2>1
  <2>. QED  BY <2>1, <2>2
<1>2. IsFiniteSet(Ranks)
  <2>1. RankOf \in Surjection(Part, Ranks)
    BY UntimedAssumption DEF Surjection
  <2>. QED  BY <2>1, UntimedAssumption, FS_Surjection
<1>3. IsFiniteSet(Sharers)
  BY SharedAssumption, UntimedAssumption, FS_Subset
<1>. QED  BY <1>1, <1>2, <1>3, SharedAssumption, UntimedAssumption DEF None, Uninitialized

(* What no write and no declaration changes. *)
Frame(o, u) ==
    /\ u.share = o.share /\ u.publish = o.publish /\ u.fully = o.fully /\ u.locked = o.locked
    /\ u.changes = o.changes
    /\ o.made => u.made
    /\ o.fatal => u.fatal

LEMMA FrameTransitive ==
    ASSUME NEW a, NEW b, NEW c, Frame(a, b), Frame(b, c) PROVE Frame(a, c)
  BY DEF Frame

WriteResult(o, u, k, v) ==
    /\ u.made = o.made /\ u.verify = o.verify
    /\ Conflict(o, k, v) => u.fatal /\ u.data = o.data /\ u.written = o.written
    /\ ~Conflict(o, k, v) => /\ u.fatal = o.fatal /\ u.written = o.written \cup {k}
                             /\ \A l \in Keys : l # k => u.data[l] = o.data[l]
                             /\ u.data[k] = IF kind = "array" \/ o.data[k] = None THEN v
                                            ELSE o.data[k]

LEMMA WriteFields ==
    ASSUME NEW o \in Objects, NEW k \in Keys, NEW v \in Values, NEW x, x = <<k, v>>
    PROVE  /\ UpdateWrite(o, x) \in Objects
           /\ Frame(o, UpdateWrite(o, x))
           /\ WriteResult(o, UpdateWrite(o, x), k, v)
<1>1. CASE Conflict(o, k, v)
  <2>1. UpdateWrite(o, x) = [o EXCEPT !.fatal = TRUE]
    BY <1>1 DEF UpdateWrite
  <2>. QED  BY <1>1, <2>1 DEF Objects, Frame, WriteResult
<1>2. CASE ~Conflict(o, k, v)
  <2>. DEFINE d == [o.data EXCEPT ![k] = IF kind = "array" \/ @ = None THEN v ELSE @]
  <2>1. UpdateWrite(o, x) = [o EXCEPT !.data = d, !.written = @ \cup {k}]
    BY <1>2 DEF UpdateWrite
  <2>2. o.data \in [Keys -> Values \cup {None}]
    BY DEF Objects
  <2>3. d \in [Keys -> Values \cup {None}]
    BY <2>2
  <2>4. /\ \A l \in Keys : l # k => d[l] = o.data[l]
        /\ d[k] = IF kind = "array" \/ o.data[k] = None THEN v ELSE o.data[k]
    BY <2>2
  <2>. HIDE DEF d
  <2>5. [o EXCEPT !.data = d, !.written = @ \cup {k}] \in Objects
    BY <2>3 DEF Objects
  <2>. QED  BY <1>2, <2>1, <2>4, <2>5 DEF Objects, Frame, WriteResult
<1>. QED  BY <1>1, <1>2

DeclareResult(o, u, n, v) ==
    /\ u.made = o.made /\ u.written = o.written
    /\ u.verify = IF v = Uninitialized THEN o.verify ELSE v
    /\ u.fatal \/ (~o.fatal /\ (v = Uninitialized \/ o.verify \in {Uninitialized, v}))
    /\ \A k \in Keys :
        u.data[k] = IF v # Uninitialized /\ kind = "array" /\ k <= n /\ o.data[k] = None THEN 0
                    ELSE o.data[k]

LEMMA DeclareFields ==
    ASSUME NEW o \in Objects, NEW n, NEW v \in Verify \cup {Uninitialized}
    PROVE  /\ Declared(o, n, v) \in Objects
           /\ Frame(o, Declared(o, n, v))
           /\ DeclareResult(o, Declared(o, n, v), n, v)
<1>1. CASE v = Uninitialized
  <2>1. Declared(o, n, v) = o
    BY <1>1 DEF Declared
  <2>. QED  BY <1>1, <2>1 DEF Objects, Frame, DeclareResult
<1>2. CASE v # Uninitialized
  <2>. DEFINE d == [k \in Keys |-> IF kind = "array" /\ k <= n /\ o.data[k] = None THEN 0
                                   ELSE o.data[k]]
              f == o.fatal \/ o.verify \notin {Uninitialized, v}
  <2>1. Declared(o, n, v) = [o EXCEPT !.verify = v, !.fatal = f, !.data = d]
    BY <1>2 DEF Declared
  <2>2. d \in [Keys -> Values \cup {None}]
    BY SharedFacts DEF Objects
  <2>3. \A k \in Keys : d[k] = IF kind = "array" /\ k <= n /\ o.data[k] = None THEN 0 ELSE o.data[k]
    OBVIOUS
  <2>4. f \in BOOLEAN /\ (o.fatal => f) /\ (f \/ (~o.fatal /\ o.verify \in {Uninitialized, v}))
    OBVIOUS
  <2>. HIDE DEF d, f
  <2>5. [o EXCEPT !.verify = v, !.fatal = f, !.data = d] \in Objects
    BY <2>2, <2>4 DEF Objects
  <2>. QED  BY <1>2, <2>1, <2>3, <2>4, <2>5 DEF Objects, Frame, DeclareResult
<1>. QED  BY <1>1, <1>2

-----------------------------------------------------------------------------
(* What the write-by-write application of changes c to o goes through. *)
Trace(t, o, c) ==
    /\ t \in [0 .. Len(c) -> Objects]
    /\ t[0] = o
    /\ \A i \in 1 .. Len(c) : t[i] = UpdateWrite(t[i - 1], c[i])

LEMMA WriteIter ==
    ASSUME NEW o \in Objects, NEW c \in Seq(Keys \X Values)
    PROVE  \E t : Trace(t, o, c) /\ t[Len(c)] = FoldLeft(UpdateWrite, o, c)
<1>. DEFINE S == DOMAIN c
            h == [s \in SUBSET S |-> Max(s)]
            step == [p \in Objects \X S |-> UpdateWrite(p[1], c[p[2]])]
            Is(i) == i = [s \in SUBSET S |-> IF s = {} THEN o
                              ELSE UpdateWrite(i[s \ {Max(s)}], c[Max(s)])]
            it == CHOOSE i : Is(i)
            T == {s \in SUBSET S : it[s] \in Objects}
<1>0. Len(c) \in Nat /\ S = 1 .. Len(c) /\ IsFiniteSet(S) /\ \A i \in S : c[i] \in Keys \X Values
  BY FS_Interval
<1>. HIDE DEF S
<1>1. \A s \in SUBSET S : s # {} => Max(s) \in s /\ \A y \in s : Max(s) >= y
  BY <1>0, LargestElement
<1>2. step \in [Objects \X S -> Objects]
  <2>1. ASSUME NEW p \in Objects \X S PROVE UpdateWrite(p[1], c[p[2]]) \in Objects
    <3>1. PICK k \in Keys, v \in Values : c[p[2]] = <<k, v>>
      BY <1>0
    <3>. QED  BY <3>1, WriteFields
  <2>. QED  BY <2>1
<1>3. Picks(h, S)
  BY <1>1 DEF Picks
<1>4. PICK g \in [SUBSET S -> Objects] : Recursion(g, S, o, h, step)
  <2>. HIDE DEF h, step
  <2>. QED  BY <1>0, <1>2, <1>3, SetRecursion
<1>5. Is(g)
  <2>. DEFINE k == [s \in SUBSET S |-> IF s = {} THEN o
                              ELSE UpdateWrite(g[s \ {Max(s)}], c[Max(s)])]
  <2>1. ASSUME NEW s \in SUBSET S PROVE g[s] = k[s]
    <3>1. CASE s = {}
      BY <3>1, <1>4 DEF Recursion
    <3>2. CASE s # {}
      <4>1. g[s \ {h[s]}] \in Objects /\ h[s] \in S
        BY <1>1, <3>2, <1>4
      <4>2. g[s] = step[<<g[s \ {h[s]}], h[s]>>]
        <5>. HIDE DEF h, step
        <5>. QED  BY <1>4, <3>2 DEF Recursion
      <4>3. g[s] = UpdateWrite(g[s \ {h[s]}], c[h[s]])
        <5>. HIDE DEF h
        <5>. QED  BY <4>1, <4>2
      <4>. QED  BY <4>3, <3>2
    <3>. QED  BY <3>1, <3>2
  <2>. QED  BY <2>1, <1>4
<1>6. Is(it)
  <2>. HIDE DEF Is
  <2>. QED  BY <1>5
<1>7. FoldLeft(UpdateWrite, o, c) = it[S]
  BY DEF FoldLeft, MapThenFoldSet, S
<1>. HIDE DEF it
<1>8. \A s \in SUBSET S : it[s] = IF s = {} THEN o ELSE UpdateWrite(it[s \ {h[s]}], c[h[s]])
  BY <1>6
<1>9. \A s \in SUBSET S : s \in T
  <2>. HIDE DEF h
  <2>1. {} \in T
    <3>1. {} \in SUBSET S
      OBVIOUS
    <3>. QED  BY <3>1, <1>8
  <2>2. ASSUME NEW s \in SUBSET S, s # {}, s \ {h[s]} \in T PROVE s \in T
    <3>1. h[s] \in S /\ it[s \ {h[s]}] \in Objects
      BY <1>3, <2>2 DEF Picks
    <3>2. PICK k \in Keys, v \in Values : c[h[s]] = <<k, v>>
      BY <1>0, <3>1
    <3>3. UpdateWrite(it[s \ {h[s]}], c[h[s]]) \in Objects
      BY <3>1, <3>2, WriteFields
    <3>. QED  BY <3>3, <1>8, <2>2
  <2>3. Inductive(T, h, S)
    BY <2>1, <2>2 DEF Inductive
  <2>. HIDE DEF T
  <2>. QED  BY <1>0, <2>3, <1>3, SetInduction
<1>10. PICK t : t = [i \in 0 .. Len(c) |-> it[1 .. i]]
  OBVIOUS
<1>11. \A i \in 0 .. Len(c) : 1 .. i \in SUBSET S
  BY <1>0
<1>12. t \in [0 .. Len(c) -> Objects]
  BY <1>9, <1>10, <1>11
<1>13. t[0] = o
  <2>1. 1 .. 0 = {} /\ {} \in SUBSET S
    OBVIOUS
  <2>2. t[0] = it[{}]
    BY <1>0, <1>10, <2>1
  <2>. QED  BY <2>1, <2>2, <1>8
<1>14. ASSUME NEW i \in 1 .. Len(c) PROVE t[i] = UpdateWrite(t[i - 1], c[i])
  <2>0. i \in Nat /\ i \in 1 .. i /\ i \in 0 .. Len(c) /\ i - 1 \in 0 .. Len(c)
    BY <1>0
  <2>1. 1 .. i \in SUBSET S /\ 1 .. i # {} /\ i \in 0 .. Len(c) /\ i - 1 \in 0 .. Len(c)
    BY <2>0, <1>11
  <2>2. h[1 .. i] = i
    <3>1. Max(1 .. i) \in 1 .. i /\ Max(1 .. i) >= i
      BY <1>1, <2>0, <2>1
    <3>2. Max(1 .. i) = i
      BY <3>1
    <3>. QED  BY <2>1, <3>2
  <2>. HIDE DEF h
  <2>3. (1 .. i) \ {i} = 1 .. (i - 1)
    BY <1>0
  <2>4. it[1 .. i] = UpdateWrite(it[1 .. (i - 1)], c[i])
    BY <1>8, <2>1, <2>2, <2>3
  <2>. QED  BY <1>10, <2>1, <2>4
<1>15. t[Len(c)] = it[S]
  BY <1>0, <1>10
<1>. QED  BY <1>7, <1>12, <1>13, <1>14, <1>15 DEF Trace

(* Upwards from m to n. *)
LEMMA Upwards ==
    ASSUME NEW n \in Nat, NEW m \in 0 .. n, NEW T, m \in T,
           \A i \in m .. (n - 1) : i \in T => i + 1 \in T
    PROVE  \A i \in m .. n : i \in T
<1>. DEFINE Bad == {i \in Nat : i \in m .. n /\ i \notin T}
<1>. SUFFICES ASSUME NEW j \in m .. n, j \notin T PROVE FALSE
  OBVIOUS
<1>1. Bad # {} /\ Bad \in SUBSET Nat
  OBVIOUS
<1>2. PICK i \in Bad : \A l \in Bad : i <= l
  <2>. HIDE DEF Bad
  <2>. QED  BY <1>1, LeastNat
<1>3. i \in m .. n /\ i \notin T /\ i # m
  BY <1>2
<1>4. i - 1 \in m .. (n - 1) /\ i - 1 \in Nat
  BY <1>3
<1>5. i - 1 \notin T
  BY <1>3, <1>4
<1>6. i - 1 \in Bad
  BY <1>3, <1>4, <1>5
<1>. QED  BY <1>2, <1>6

(* The verify type stays, what was written remains so. *)
More(o, u) == Frame(o, u) /\ u.made = o.made /\ u.verify = o.verify /\ o.written \subseteq u.written

LEMMA TraceStep ==
    ASSUME NEW o, NEW c \in Seq(Keys \X Values), NEW t, Trace(t, o, c), NEW i \in 0 .. (Len(c) - 1)
    PROVE  /\ t[i] \in Objects /\ t[i + 1] \in Objects /\ i + 1 \in 1 .. Len(c)
           /\ c[i + 1] \in Keys \X Values
           /\ c[i + 1][1] \in Keys /\ c[i + 1][2] \in Values
           /\ WriteResult(t[i], t[i + 1], c[i + 1][1], c[i + 1][2])
           /\ More(t[i], t[i + 1])
<1>1. i + 1 \in 1 .. Len(c) /\ i \in 0 .. Len(c) /\ i + 1 \in 0 .. Len(c) /\ (i + 1) - 1 = i
  OBVIOUS
<1>2. c[i + 1] \in Keys \X Values
  BY <1>1
<1>3. PICK k \in Keys, v \in Values : c[i + 1] = <<k, v>>
  BY <1>2
<1>4. t[i + 1] = UpdateWrite(t[i], c[i + 1]) /\ t[i] \in Objects /\ t[i + 1] \in Objects
  BY <1>1 DEF Trace
<1>5. Frame(t[i], t[i + 1]) /\ WriteResult(t[i], t[i + 1], k, v)
  BY <1>3, <1>4, WriteFields
<1>6. More(t[i], t[i + 1])
  BY <1>5 DEF More, WriteResult
<1>. QED  BY <1>1, <1>2, <1>3, <1>4, <1>5, <1>6

LEMMA TraceMore ==
    ASSUME NEW o, NEW c \in Seq(Keys \X Values), NEW t, Trace(t, o, c), NEW m \in 0 .. Len(c)
    PROVE  \A i \in m .. Len(c) : More(t[m], t[i])
<1>. DEFINE T == {i \in m .. Len(c) : More(t[m], t[i])}
<1>0. Len(c) \in Nat
  OBVIOUS
<1>1. m \in T
  BY <1>0 DEF More, Frame
<1>2. ASSUME NEW i \in m .. (Len(c) - 1), i \in T PROVE i + 1 \in T
  <2>1. More(t[i], t[i + 1])
    <3>1. i \in 0 .. (Len(c) - 1)
      BY <1>0
    <3>. QED  BY <3>1, TraceStep
  <2>2. More(t[m], t[i])
    BY <1>2
  <2>3. More(t[m], t[i + 1])
    BY <2>1, <2>2, FrameTransitive DEF More
  <2>. QED  BY <1>0, <2>3
<1>. HIDE DEF T
<1>3. \A i \in m .. Len(c) : i \in T
  BY <1>0, <1>1, <1>2, Upwards
<1>. QED  BY <1>3 DEF T

(* Nothing is written at k after the first m writes. *)
Quiet(c, m, k) == \A j \in (m + 1) .. Len(c) : c[j][1] # k

LEMMA TraceUntouched ==
    ASSUME NEW o, NEW c \in Seq(Keys \X Values), NEW t, Trace(t, o, c), NEW m \in 0 .. Len(c),
           NEW k \in Keys, Quiet(c, m, k)
    PROVE  t[Len(c)].data[k] = t[m].data[k]
<1>. DEFINE T == {i \in m .. Len(c) : t[i].data[k] = t[m].data[k]}
<1>0. Len(c) \in Nat
  OBVIOUS
<1>1. m \in T
  BY <1>0
<1>2. ASSUME NEW i \in m .. (Len(c) - 1), i \in T PROVE i + 1 \in T
  <2>1. i \in 0 .. (Len(c) - 1) /\ i + 1 \in (m + 1) .. Len(c) /\ i + 1 \in m .. Len(c)
    BY <1>0
  <2>2. WriteResult(t[i], t[i + 1], c[i + 1][1], c[i + 1][2]) /\ c[i + 1][1] # k
    BY <2>1, TraceStep DEF Quiet
  <2>3. t[i + 1].data[k] = t[i].data[k]
    BY <2>2 DEF WriteResult
  <2>. QED  BY <1>2, <2>1, <2>3
<1>. HIDE DEF T
<1>3. \A i \in m .. Len(c) : i \in T
  BY <1>0, <1>1, <1>2, Upwards
<1>4. Len(c) \in m .. Len(c)
  BY <1>0
<1>. QED  BY <1>3, <1>4 DEF T

Harmless(t, c) == ~t[Len(c)].fatal

WriteDone(t, c, j) ==
    c[j][1] \in t[Len(c)].written /\ (kind = "array" => t[j].data[c[j][1]] = c[j][2])

(* A write that is not fatal is done. *)
LEMMA TraceWritten ==
    ASSUME NEW o, NEW c \in Seq(Keys \X Values), NEW t, Trace(t, o, c), Harmless(t, c),
           NEW j \in 1 .. Len(c)
    PROVE  WriteDone(t, c, j)
<1>0. Len(c) \in Nat /\ j - 1 \in 0 .. (Len(c) - 1) /\ (j - 1) + 1 = j /\ j \in 0 .. Len(c)
      /\ Len(c) \in j .. Len(c)
  OBVIOUS
<1>1. /\ WriteResult(t[j - 1], t[j], c[j][1], c[j][2])
      /\ c[j][1] \in Keys /\ c[j][2] \in Values
  BY <1>0, TraceStep
<1>2. More(t[j], t[Len(c)])
  BY <1>0, TraceMore
<1>3. ~t[j].fatal
  BY <1>2 DEF More, Frame, Harmless
<1>4. c[j][1] \in t[j].written
  BY <1>1, <1>3 DEF WriteResult
<1>5. t[j].data[c[j][1]] = IF kind = "array" \/ t[j - 1].data[c[j][1]] = None THEN c[j][2]
                           ELSE t[j - 1].data[c[j][1]]
  BY <1>1, <1>3 DEF WriteResult
<1>. QED  BY <1>1, <1>2, <1>4, <1>5 DEF More, WriteDone

(* The last write at k to an array counts. *)
LEMMA TraceLast ==
    ASSUME NEW o, NEW c \in Seq(Keys \X Values), NEW t, Trace(t, o, c), Harmless(t, c),
           NEW j \in 1 .. Len(c), kind = "array", Quiet(c, j, c[j][1])
    PROVE  t[Len(c)].data[c[j][1]] = c[j][2]
<1>1. PICK k \in Keys : k = c[j][1]
  BY ElementOfSeq
<1>2. j \in 0 .. Len(c) /\ Quiet(c, j, k)
  BY <1>1 DEF Quiet
<1>3. t[Len(c)].data[k] = t[j].data[k]
  BY <1>2, TraceUntouched
<1>4. WriteDone(t, c, j)
  BY TraceWritten
<1>. QED  BY <1>1, <1>3, <1>4 DEF WriteDone

(* All that is written at k is v. *)
Writes(c, k, v) == \A j \in 1 .. Len(c) : c[j][1] = k => c[j][2] = v

(* A map or set at k, if all write the same there. *)
LEMMA TraceFirst ==
    ASSUME NEW o, NEW c \in Seq(Keys \X Values), NEW t, Trace(t, o, c), Harmless(t, c),
           NEW j \in 1 .. Len(c), kind # "array", NEW v \in Values,
           NEW k \in Keys, k = c[j][1], o.data[k] \in {None, v}, Writes(c, k, v)
    PROVE  t[Len(c)].data[k] = v
<1>. DEFINE T == {i \in 0 .. Len(c) : t[i].data[k] \in {None, v} /\ (i >= j => t[i].data[k] = v)}
<1>0. Len(c) \in Nat /\ 0 \in 0 .. Len(c) /\ Len(c) \in 0 .. Len(c) /\ Len(c) >= j
  OBVIOUS
<1>1. 0 \in T
  BY <1>0 DEF Trace
<1>2. ASSUME NEW i \in 0 .. (Len(c) - 1), i \in T PROVE i + 1 \in T
  <2>0. i + 1 \in 1 .. Len(c) /\ i + 1 \in 0 .. Len(c) /\ Len(c) \in (i + 1) .. Len(c)
    BY <1>0
  <2>1. /\ WriteResult(t[i], t[i + 1], c[i + 1][1], c[i + 1][2])
        /\ i + 1 \in 1 .. Len(c) /\ i + 1 \in 0 .. Len(c)
    BY <2>0, TraceStep
  <2>2. More(t[i + 1], t[Len(c)])
    BY <2>0, TraceMore
  <2>3. ~t[i + 1].fatal
    BY <2>2 DEF More, Frame, Harmless
  <2>4. CASE c[i + 1][1] = k
    <3>1. c[i + 1][2] = v
      BY <2>1, <2>4 DEF Writes
    <3>2. t[i + 1].data[k] = IF t[i].data[k] = None THEN v ELSE t[i].data[k]
      BY <2>1, <2>3, <2>4, <3>1 DEF WriteResult
    <3>. QED  BY <1>2, <2>1, <3>2
  <2>5. CASE c[i + 1][1] # k
    <3>1. t[i + 1].data[k] = t[i].data[k]
      BY <1>0, <2>1, <2>5 DEF WriteResult
    <3>2. i + 1 # j
      BY <2>5
    <3>. QED  BY <1>2, <2>1, <3>1, <3>2
  <2>. QED  BY <2>4, <2>5
<1>. HIDE DEF T
<1>3. \A i \in 0 .. Len(c) : i \in T
  BY <1>0, <1>1, <1>2, Upwards
<1>. QED  BY <1>0, <1>3 DEF T

(* The value a at k may not be written over with another one. *)
Stable(o, k, a) ==
    /\ o.data[k] = a /\ a # None /\ o.verify \notin {"NO_VERIFY", Uninitialized}
    /\ kind = "array" /\ o.verify = "FE_VERIFY" => k \in o.written
    /\ kind = "array" /\ o.verify = "INIT_VERIFY" => a # 0

LEMMA TraceStable ==
    ASSUME NEW o, NEW c \in Seq(Keys \X Values), NEW t, Trace(t, o, c), Harmless(t, c),
           NEW k \in Keys, NEW a, Stable(o, k, a)
    PROVE  Stable(t[Len(c)], k, a) /\ Writes(c, k, a)
<1>. DEFINE T == {i \in 0 .. Len(c) : Stable(t[i], k, a)}
<1>0. Len(c) \in Nat /\ 0 \in 0 .. Len(c) /\ Len(c) \in 0 .. Len(c)
  OBVIOUS
<1>1. 0 \in T
  BY <1>0 DEF Trace
<1>2. ASSUME NEW i \in 0 .. (Len(c) - 1), Stable(t[i], k, a)
      PROVE  Stable(t[i + 1], k, a) /\ (c[i + 1][1] = k => c[i + 1][2] = a)
  <2>0. i + 1 \in 1 .. Len(c) /\ i + 1 \in 0 .. Len(c) /\ Len(c) \in (i + 1) .. Len(c)
    BY <1>0
  <2>1. /\ WriteResult(t[i], t[i + 1], c[i + 1][1], c[i + 1][2]) /\ t[i] \in Objects
        /\ i + 1 \in 1 .. Len(c) /\ i + 1 \in 0 .. Len(c) /\ More(t[i], t[i + 1])
    BY <2>0, TraceStep
  <2>2. More(t[i + 1], t[Len(c)])
    BY <2>0, TraceMore
  <2>3. ~t[i + 1].fatal
    BY <2>2 DEF More, Frame, Harmless
  <2>4. ~Conflict(t[i], c[i + 1][1], c[i + 1][2])
    BY <2>1, <2>3 DEF WriteResult
  <2>5. t[i + 1].verify = t[i].verify /\ t[i].written \subseteq t[i + 1].written
    BY <2>1 DEF More
  <2>6. t[i].verify \in {"FE_VERIFY", "INIT_VERIFY"}
    BY <1>2, <2>1, SharedFacts DEF Stable, Objects
  <2>7. CASE c[i + 1][1] = k
    <3>1. c[i + 1][2] = a
      BY <1>2, <2>4, <2>6, <2>7 DEF Conflict, Stable
    <3>2. t[i + 1].data[k] = a
      BY <1>2, <2>1, <2>4, <2>7, <3>1 DEF WriteResult, Stable
    <3>. QED  BY <1>2, <2>5, <3>1, <3>2 DEF Stable
  <2>8. CASE c[i + 1][1] # k
    <3>1. t[i + 1].data[k] = a
      BY <1>2, <2>1, <2>4, <2>8 DEF WriteResult, Stable
    <3>. QED  BY <1>2, <2>5, <2>8, <3>1 DEF Stable
  <2>. QED  BY <2>7, <2>8
<1>3. ASSUME NEW i \in 0 .. (Len(c) - 1), i \in T PROVE i + 1 \in T
  BY <1>0, <1>2, <1>3
<1>. HIDE DEF T
<1>4. \A i \in 0 .. Len(c) : i \in T
  BY <1>0, <1>1, <1>3, Upwards
<1>5. ASSUME NEW j \in 1 .. Len(c), c[j][1] = k PROVE c[j][2] = a
  <2>1. j - 1 \in 0 .. (Len(c) - 1) /\ j - 1 \in 0 .. Len(c) /\ (j - 1) + 1 = j
    BY <1>0
  <2>2. Stable(t[j - 1], k, a)
    BY <1>4, <2>1 DEF T
  <2>. QED  BY <1>2, <1>5, <2>1, <2>2
<1>. QED  BY <1>0, <1>4, <1>5 DEF T, Writes

-----------------------------------------------------------------------------
(* The objects of all ranks, before the exchange. *)
Consistent == SharedType /\ EmptyInd /\ LengthInd /\ ChangesInd

LEMMA ObjectFacts ==
    ASSUME SharedType, NEW s \in Ranks
    PROVE  /\ object[s] \in Objects
           /\ object[s].verify \in Verify \cup {Uninitialized}
           /\ object[s].data \in [Keys -> Values \cup {None}]
           /\ object[s].changes \in Seq(Keys \X Values)
           /\ Len(object[s].changes) \in Nat
           /\ DOMAIN object[s].changes = 1 .. Len(object[s].changes)
           /\ \A i \in DOMAIN object[s].changes :
                object[s].changes[i][1] \in Keys /\ object[s].changes[i][2] \in Values
<1>1. object[s] \in Objects
  BY DEF SharedType
<1>2. object[s].changes \in Seq(Keys \X Values)
  BY <1>1 DEF Objects
<1>3. \A i \in 1 .. Len(object[s].changes) : object[s].changes[i] \in Keys \X Values
  BY <1>2, ElementOfSeq
<1>. QED  BY <1>1, <1>2, <1>3 DEF Objects

(* The length of an array is the number of its elements. *)
LEMMA SizeIsLength ==
    ASSUME SharedType, LengthInd, NEW s \in Ranks, kind = "array", NEW k \in Keys
    PROVE  k <= SizeOf(object[s]) <=> object[s].data[k] # None
<1>. DEFINE P == {l \in Keys : object[s].data[l] # None}
<1>1. PICK n \in Nat : Keys = 1 .. n
  BY SharedFacts
<1>2. IsFiniteSet(Keys) /\ Keys \in SUBSET Nat /\ P \in SUBSET Keys
  BY <1>1, FS_Interval
<1>3. CASE P = {}
  <2>1. SizeOf(object[s]) = 0
    BY <1>3, FS_EmptySet DEF SizeOf
  <2>2. ~(k <= 0)
    BY <1>1
  <2>3. object[s].data[k] = None
    BY <1>3
  <2>. QED  BY <2>1, <2>2, <2>3
<1>4. CASE P # {}
  <2>1. Max(P) \in P /\ \A l \in P : Max(P) >= l
    <3>. HIDE DEF P
    <3>. QED  BY <1>2, <1>4, LargestElement
  <2>2. PICK m \in P : m = Max(P)
    BY <2>1
  <2>3. m \in 1 .. n /\ object[s].data[m] # None /\ \A l \in P : m >= l
    BY <1>1, <2>1, <2>2
  <2>4. P = 1 .. m
    BY <1>1, <2>3 DEF LengthInd
  <2>5. SizeOf(object[s]) = m
    <3>1. Cardinality(1 .. m) = m
      BY <2>3, FS_Interval
    <3>. QED  BY <2>4, <3>1 DEF SizeOf
  <2>6. k <= m <=> k \in P
    BY <1>1, <2>3, <2>4
  <2>. QED  BY <2>5, <2>6
<1>. QED  BY <1>3, <1>4

(* The last change of a rank at a key it has written. *)
LEMMA LatestChange ==
    ASSUME Consistent, NEW s \in Ranks, NEW k \in Keys, Pending(s, k)
    PROVE  \E i \in DOMAIN object[s].changes :
                /\ object[s].changes[i][1] = k
                /\ Quiet(object[s].changes, i, k)
                /\ object[s].changes[i][2] = object[s].data[k]
<1>. DEFINE W == Waiting(s, k)
<1>1. PICK c : c = object[s].changes
  OBVIOUS
<1>2. c \in Seq(Keys \X Values) /\ Len(c) \in Nat /\ DOMAIN c = 1 .. Len(c)
  BY <1>1, ObjectFacts DEF Consistent
<1>3. W \in SUBSET (1 .. Len(c)) /\ W # {} /\ IsFiniteSet(1 .. Len(c)) /\ (1 .. Len(c)) \in SUBSET Nat
  <2>1. W \in SUBSET (1 .. Len(c)) /\ W # {}
    BY <1>1, <1>2 DEF Waiting, Pending
  <2>2. IsFiniteSet(1 .. Len(c)) /\ (1 .. Len(c)) \in SUBSET Nat
    BY <1>2, FS_Interval
  <2>. QED  BY <2>1, <2>2
<1>4. Max(W) \in W /\ \A y \in W : Max(W) >= y
  <2>. HIDE DEF W
  <2>. QED  BY <1>3, LargestElement
<1>5. PICK i \in W : i = Max(W)
  BY <1>4
<1>6. i \in 1 .. Len(c) /\ c[i][1] = k /\ \A y \in W : i >= y
  BY <1>1, <1>2, <1>4, <1>5 DEF Waiting
<1>7. \A j \in 1 .. Len(c) : j > i => c[j][1] # k
  <2>1. ASSUME NEW j \in 1 .. Len(c), j > i, c[j][1] = k PROVE FALSE
    <3>1. j \in W
      BY <1>1, <1>2, <2>1 DEF Waiting
    <3>. QED  BY <3>1, <1>6, <2>1
  <2>. QED  BY <2>1
<1>8. Latest(s, i)
  BY <1>1, <1>2, <1>6, <1>7 DEF Latest
<1>9. Quiet(c, i, k)
  BY <1>2, <1>6, <1>7 DEF Quiet
<1>10. object[s].data[c[i][1]] = c[i][2]
  BY <1>1, <1>2, <1>6, <1>8 DEF Consistent, ChangesInd
<1>. QED  BY <1>1, <1>2, <1>6, <1>9, <1>10

(* What applyChanges makes of o, if it is not fatal. *)
ApplyData(o, u, s) ==
    \A k \in Keys :
        /\ Pending(s, k) /\ (kind = "array" \/ o.data[k] \in {None, object[s].data[k]}) =>
                u.data[k] = object[s].data[k]
        /\ ~Pending(s, k) =>
                u.data[k] = IF kind = "array" /\ o.data[k] = None /\ object[s].data[k] # None THEN 0
                            ELSE o.data[k]

ApplyResult(o, u, s) ==
    /\ u.verify = IF object[s].verify = Uninitialized THEN o.verify ELSE object[s].verify
    /\ object[s].verify = Uninitialized \/ o.verify \in {Uninitialized, object[s].verify}
    /\ o.written \subseteq u.written /\ (o.made \/ object[s].made => u.made)
    /\ \A k \in Keys : Pending(s, k) => k \in u.written
    /\ ApplyData(o, u, s)
    /\ \A k \in Keys : \A a : Stable(o, k, a) =>
        Stable(u, k, a) /\ \A i \in Waiting(s, k) : object[s].changes[i][2] = a

LEMMA ApplyFields ==
    ASSUME SharedType, NEW o \in Objects, NEW s \in Ranks
    PROVE  /\ ApplyChanges(o, s) \in Objects
           /\ Frame(o, ApplyChanges(o, s))
<1>1. CASE ~object[s].made
  BY <1>1 DEF ApplyChanges, Frame
<1>2. CASE object[s].made
  <2>1. PICK d : d = Declared(o, SizeOf(object[s]), object[s].verify)
    OBVIOUS
  <2>2. d \in Objects /\ Frame(o, d)
    BY <2>1, ObjectFacts, DeclareFields
  <2>3. PICK e : e = [d EXCEPT !.made = TRUE]
    OBVIOUS
  <2>4. e \in Objects /\ Frame(d, e)
    BY <2>2, <2>3 DEF Objects, Frame
  <2>5. PICK c \in Seq(Keys \X Values) : c = object[s].changes
    BY ObjectFacts
  <2>6. PICK t : Trace(t, e, c) /\ t[Len(c)] = FoldLeft(UpdateWrite, e, c)
    BY <2>4, WriteIter
  <2>7. 0 \in 0 .. Len(c) /\ Len(c) \in 0 .. Len(c)
    BY <2>5
  <2>8. Frame(e, t[Len(c)]) /\ t[Len(c)] \in Objects
    BY <2>6, <2>7, TraceMore DEF Trace, More
  <2>9. ApplyChanges(o, s) = t[Len(c)]
    BY <1>2, <2>1, <2>3, <2>5, <2>6 DEF ApplyChanges
  <2>10. Frame(o, t[Len(c)])
    BY <2>2, <2>4, <2>8, FrameTransitive
  <2>. QED  BY <2>8, <2>9, <2>10
<1>. QED  BY <1>1, <1>2

LEMMA ApplyMeans ==
    ASSUME Consistent, NEW o \in Objects, NEW s \in Ranks, ~ApplyChanges(o, s).fatal
    PROVE  ApplyResult(o, ApplyChanges(o, s), s)
<1>0. SharedType /\ DOMAIN object[s].changes = 1 .. Len(object[s].changes)
  BY ObjectFacts DEF Consistent
<1>1. CASE ~object[s].made
  <2>1. /\ object[s].verify = Uninitialized /\ object[s].changes = <<>>
        /\ \A k \in Keys : object[s].data[k] = None
    BY <1>1 DEF Consistent, EmptyInd
  <2>2. \A k \in Keys : Waiting(s, k) = {} /\ ~Pending(s, k)
    BY <2>1 DEF Waiting, Pending
  <2>3. ApplyChanges(o, s) = o
    BY <1>1 DEF ApplyChanges
  <2>4. ApplyData(o, o, s)
    BY <2>1, <2>2 DEF ApplyData
  <2>5. \A k \in Keys : Waiting(s, k) = {} /\ ~Pending(s, k)
    BY <2>2
  <2>. QED  BY <1>1, <2>1, <2>3, <2>4, <2>5 DEF ApplyResult
<1>2. CASE object[s].made
  <2>0. PICK n : n = SizeOf(object[s])
    OBVIOUS
  <2>1. PICK d : d = Declared(o, n, object[s].verify)
    OBVIOUS
  <2>2. d \in Objects /\ DeclareResult(o, d, n, object[s].verify)
    BY <1>0, <2>1, ObjectFacts, DeclareFields
  <2>3. PICK e : e = [d EXCEPT !.made = TRUE]
    OBVIOUS
  <2>4. /\ e \in Objects /\ e.data = d.data /\ e.written = d.written /\ e.verify = d.verify
        /\ e.fatal = d.fatal /\ e.made
    BY <2>2, <2>3 DEF Objects
  <2>5. PICK c \in Seq(Keys \X Values) : c = object[s].changes
    BY <1>0, ObjectFacts
  <2>6. PICK t : Trace(t, e, c) /\ t[Len(c)] = FoldLeft(UpdateWrite, e, c)
    BY <2>4, WriteIter
  <2>7. 0 \in 0 .. Len(c) /\ Len(c) \in 0 .. Len(c) /\ DOMAIN c = 1 .. Len(c) /\ Len(c) \in Nat
    BY <2>5
  <2>8. ApplyChanges(o, s) = t[Len(c)]
    BY <1>2, <2>0, <2>1, <2>3, <2>5, <2>6 DEF ApplyChanges
  <2>9. PICK u : u = t[Len(c)]
    OBVIOUS
  <2>10. Harmless(t, c)
    BY <2>8 DEF Harmless
  <2>11. u.verify = e.verify /\ e.written \subseteq u.written /\ ~e.fatal /\ u.made
    <3>1. More(e, u)
      BY <2>6, <2>7, <2>9, TraceMore DEF Trace
    <3>. QED  BY <2>4, <3>1, <2>8, <2>9 DEF More, Frame
  <2>12. /\ u.verify = IF object[s].verify = Uninitialized THEN o.verify ELSE object[s].verify
         /\ object[s].verify = Uninitialized \/ o.verify \in {Uninitialized, object[s].verify}
         /\ o.written \subseteq u.written
    BY <2>2, <2>4, <2>11 DEF DeclareResult
  <2>13. ASSUME NEW k \in Keys
         PROVE  d.data[k] = IF kind = "array" /\ o.data[k] = None /\ object[s].data[k] # None THEN 0
                            ELSE o.data[k]
    <3>1. object[s].verify = Uninitialized => object[s].data[k] = None
      BY DEF Consistent, EmptyInd
    <3>2. kind = "array" => (k <= n <=> object[s].data[k] # None)
      BY <1>0, <2>0, SizeIsLength DEF Consistent
    <3>. QED  BY <2>2, <3>1, <3>2 DEF DeclareResult
  <2>14. ASSUME NEW k \in Keys, Pending(s, k) PROVE k \in u.written
    <3>1. PICK i \in 1 .. Len(c) : c[i][1] = k
      BY <2>5, <2>7, <2>14 DEF Pending, Waiting
    <3>2. WriteDone(t, c, i)
      BY <2>6, <2>10, TraceWritten
    <3>. QED  BY <2>9, <3>1, <3>2 DEF WriteDone
  <2>15. ASSUME NEW k \in Keys, Pending(s, k),
                kind = "array" \/ o.data[k] \in {None, object[s].data[k]}
         PROVE  u.data[k] = object[s].data[k]
    <3>1. PICK i \in 1 .. Len(c) : c[i][1] = k /\ Quiet(c, i, k) /\ c[i][2] = object[s].data[k]
      BY <2>5, <2>7, <2>15, LatestChange
    <3>2. CASE kind = "array"
      <4>1. t[Len(c)].data[c[i][1]] = c[i][2]
        BY <2>6, <2>10, <3>1, <3>2, TraceLast
      <4>. QED  BY <2>9, <3>1, <4>1
    <3>3. CASE kind # "array"
      <4>1. PICK v \in Values : v = c[i][2]
        BY ElementOfSeq
      <4>2. e.data[k] \in {None, v}
        BY <2>4, <2>13, <2>15, <3>1, <3>3, <4>1
      <4>3. Writes(c, k, v)
        BY <2>5, <2>7, <3>1, <3>3, <4>1 DEF Consistent, ChangesInd, Writes
      <4>4. Trace(t, e, c) /\ Harmless(t, c) /\ k = c[i][1] /\ kind # "array"
        BY <2>6, <2>10, <3>1, <3>3
      <4>5. t[Len(c)].data[k] = v
        <5>. HIDE <2>15
        <5>. QED  BY <4>2, <4>3, <4>4, TraceFirst
      <4>. QED  BY <2>9, <3>1, <4>1, <4>5
    <3>. QED  BY <3>2, <3>3
  <2>16. ASSUME NEW k \in Keys, ~Pending(s, k)
         PROVE  u.data[k] = IF kind = "array" /\ o.data[k] = None /\ object[s].data[k] # None THEN 0
                            ELSE o.data[k]
    <3>1. Quiet(c, 0, k)
      BY <2>5, <2>7, <2>16 DEF Quiet, Pending, Waiting
    <3>2. t[Len(c)].data[k] = t[0].data[k]
      BY <2>6, <2>7, <3>1, TraceUntouched
    <3>. QED  BY <2>4, <2>6, <2>9, <2>13, <3>2 DEF Trace
  <2>17. ApplyData(o, u, s)
    BY <2>15, <2>16 DEF ApplyData
  <2>18. ASSUME NEW k \in Keys, NEW a, Stable(o, k, a)
         PROVE  Stable(u, k, a) /\ \A i \in Waiting(s, k) : object[s].changes[i][2] = a
    <3>1. o.verify # Uninitialized /\ o.data[k] = a /\ a # None
      BY <2>18 DEF Stable
    <3>2. e.verify = o.verify /\ e.written = o.written /\ e.data[k] = a
      BY <2>2, <2>4, <2>11, <2>13, <3>1 DEF DeclareResult
    <3>3. Stable(e, k, a)
      BY <2>18, <3>2 DEF Stable
    <3>4. Stable(t[Len(c)], k, a) /\ Writes(c, k, a)
      BY <2>6, <2>10, <3>3, TraceStable
    <3>. QED  BY <2>5, <2>7, <2>9, <3>4 DEF Waiting, Writes
  <2>. QED  BY <2>8, <2>9, <2>11, <2>12, <2>14, <2>17, <2>18 DEF ApplyResult
<1>. QED  BY <1>1, <1>2

-----------------------------------------------------------------------------
(* g gathers the changes of one rank after the other, as h picks them. *)
Gathering(g, h, r) ==
    /\ Picks(h, Ranks \ {r})
    /\ g \in [SUBSET (Ranks \ {r}) -> Objects]
    /\ g[{}] = object[r]
    /\ \A S \in SUBSET (Ranks \ {r}) : S # {} => g[S] = ApplyChanges(g[S \ {h[S]}], h[S])

LEMMA GatherIter ==
    ASSUME SharedType, NEW r \in Ranks
    PROVE  \E g, h : Gathering(g, h, r) /\ g[Ranks \ {r}] = Gathered(r)
<1>. DEFINE R == Ranks \ {r}
            h == [s \in SUBSET R |-> Max(s)]
            step == [p \in Objects \X R |-> ApplyChanges(p[1], p[2])]
            Is(i) == i = [s \in SUBSET R |-> IF s = {} THEN object[r]
                              ELSE ApplyChanges(i[s \ {Max(s)}], Max(s))]
            it == CHOOSE i : Is(i)
            T == {s \in SUBSET R : it[s] \in Objects}
<1>0. IsFiniteSet(R) /\ R \in SUBSET Nat /\ R \subseteq Ranks /\ object[r] \in Objects
  BY SharedFacts, ObjectFacts, FS_Subset
<1>. HIDE DEF R
<1>1. \A s \in SUBSET R : s # {} => Max(s) \in s /\ \A y \in s : Max(s) >= y
  BY <1>0, LargestElement
<1>2. step \in [Objects \X R -> Objects]
  <2>1. ASSUME NEW p \in Objects \X R PROVE ApplyChanges(p[1], p[2]) \in Objects
    BY <1>0, ApplyFields
  <2>. QED  BY <2>1
<1>3. Picks(h, R)
  BY <1>1 DEF Picks
<1>4. PICK g \in [SUBSET R -> Objects] : Recursion(g, R, object[r], h, step)
  <2>. HIDE DEF h, step
  <2>. QED  BY <1>0, <1>2, <1>3, SetRecursion
<1>5. Is(g)
  <2>. DEFINE k == [s \in SUBSET R |-> IF s = {} THEN object[r]
                              ELSE ApplyChanges(g[s \ {Max(s)}], Max(s))]
  <2>1. ASSUME NEW s \in SUBSET R PROVE g[s] = k[s]
    <3>1. CASE s = {}
      BY <3>1, <1>4 DEF Recursion
    <3>2. CASE s # {}
      <4>1. g[s \ {h[s]}] \in Objects /\ h[s] \in R
        BY <1>1, <3>2, <1>4
      <4>2. g[s] = step[<<g[s \ {h[s]}], h[s]>>]
        <5>. HIDE DEF h, step
        <5>. QED  BY <1>4, <3>2 DEF Recursion
      <4>3. g[s] = ApplyChanges(g[s \ {h[s]}], h[s])
        <5>. HIDE DEF h
        <5>. QED  BY <4>1, <4>2
      <4>. QED  BY <4>3, <3>2
    <3>. QED  BY <3>1, <3>2
  <2>. QED  BY <2>1, <1>4
<1>6. Is(it)
  <2>. HIDE DEF Is
  <2>. QED  BY <1>5
<1>7. Gathered(r) = it[R]
  BY DEF Gathered, MapThenFoldSet, R
<1>. HIDE DEF it
<1>8. \A s \in SUBSET R : it[s] = IF s = {} THEN object[r] ELSE ApplyChanges(it[s \ {h[s]}], h[s])
  BY <1>6
<1>9. \A s \in SUBSET R : s \in T
  <2>. HIDE DEF h
  <2>1. {} \in T
    <3>1. {} \in SUBSET R
      OBVIOUS
    <3>. QED  BY <3>1, <1>0, <1>8
  <2>2. ASSUME NEW s \in SUBSET R, s # {}, s \ {h[s]} \in T PROVE s \in T
    <3>1. h[s] \in Ranks /\ it[s \ {h[s]}] \in Objects
      BY <1>0, <1>3, <2>2 DEF Picks
    <3>2. ApplyChanges(it[s \ {h[s]}], h[s]) \in Objects
      BY <3>1, ApplyFields
    <3>. QED  BY <3>2, <1>8, <2>2
  <2>3. Inductive(T, h, R)
    BY <2>1, <2>2 DEF Inductive
  <2>. HIDE DEF T
  <2>. QED  BY <1>0, <2>3, <1>3, SetInduction
<1>10. it \in [SUBSET R -> Objects]
  BY <1>6, <1>9
<1>11. it[{}] = object[r]
  <2>1. {} \in SUBSET R
    OBVIOUS
  <2>. QED  BY <1>8, <2>1
<1>12. \A s \in SUBSET R : s # {} => it[s] = ApplyChanges(it[s \ {h[s]}], h[s])
  BY <1>8
<1>. HIDE DEF h
<1>13. Gathering(it, h, r)
  BY <1>3, <1>10, <1>11, <1>12 DEF Gathering, R
<1>. QED  BY <1>7, <1>13 DEF R

Gathers(g, h, r, S, s, o, u) ==
    /\ s = h[S] /\ s \in Ranks /\ s # r
    /\ o = g[S \ {s}] /\ u = g[S]
    /\ u = ApplyChanges(o, s) /\ Frame(o, u)

(* The step from one set of ranks to a larger one. *)
LEMMA GatherStep ==
    ASSUME SharedType, NEW r \in Ranks, NEW g, NEW h, Gathering(g, h, r),
           NEW S \in SUBSET (Ranks \ {r}), S # {}
    PROVE  \E s \in S, o \in Objects, u \in Objects : Gathers(g, h, r, S, s, o, u)
<1>1. PICK s \in S : s = h[S]
  BY DEF Gathering, Picks
<1>2. s \in Ranks /\ s # r
  OBVIOUS
<1>3. PICK o \in Objects : o = g[S \ {s}]
  BY DEF Gathering
<1>4. PICK u \in Objects : u = g[S]
  BY DEF Gathering
<1>5. u = ApplyChanges(o, s)
  BY <1>1, <1>3, <1>4 DEF Gathering
<1>6. Frame(o, u)
  BY <1>2, <1>5, ApplyFields
<1>. QED  BY <1>1, <1>2, <1>3, <1>4, <1>5, <1>6 DEF Gathers

LEMMA GatherInduction ==
    ASSUME NEW r \in Ranks, NEW g, NEW h, Gathering(g, h, r), NEW T,
           Inductive(T, h, Ranks \ {r})
    PROVE  \A S \in SUBSET (Ranks \ {r}) : S \in T
<1>1. IsFiniteSet(Ranks \ {r})
  BY SharedFacts, FS_Subset
<1>. QED  BY <1>1, SetInduction DEF Gathering

LEMMA GatherFrame ==
    ASSUME SharedType, NEW r \in Ranks
    PROVE  Gathered(r) \in Objects /\ Frame(object[r], Gathered(r))
<1>1. PICK g, h : Gathering(g, h, r) /\ g[Ranks \ {r}] = Gathered(r)
  BY GatherIter
<1>. DEFINE T == {S \in SUBSET (Ranks \ {r}) : Frame(object[r], g[S])}
<1>2. {} \in T
  BY <1>1 DEF Gathering, Frame
<1>3. ASSUME NEW S \in SUBSET (Ranks \ {r}), S # {}, S \ {h[S]} \in T PROVE S \in T
  <2>1. PICK s \in S, o \in Objects, u \in Objects : Gathers(g, h, r, S, s, o, u)
    BY <1>1, <1>3, GatherStep
  <2>2. Frame(object[r], o)
    BY <1>3, <2>1 DEF Gathers
  <2>3. Frame(object[r], u)
    BY <2>1, <2>2, FrameTransitive DEF Gathers
  <2>. QED  BY <2>1, <2>3 DEF Gathers
<1>4. \A S \in SUBSET (Ranks \ {r}) : S \in T
  <2>1. Inductive(T, h, Ranks \ {r})
    BY <1>2, <1>3 DEF Inductive
  <2>. HIDE DEF T
  <2>. QED  BY <1>1, <2>1, GatherInduction
<1>5. Ranks \ {r} \in SUBSET (Ranks \ {r})
  OBVIOUS
<1>. QED  BY <1>1, <1>4, <1>5 DEF Gathering

-----------------------------------------------------------------------------
(* The verify types that meet. *)
GatherVerify(u, r, S) ==
    /\ \A s \in S \cup {r} : object[s].verify \in {Uninitialized, u.verify}
    /\ u.verify = Uninitialized \/ \E s \in S \cup {r} : object[s].verify = u.verify
    /\ u.verify = Uninitialized \/ u.made

GatherStable(u, r, S) ==
    /\ object[r].written \subseteq u.written
    /\ \A s \in S : \A k \in Keys : Pending(s, k) => k \in u.written
    /\ \A k \in Keys : \A a : Stable(object[r], k, a) =>
        /\ Stable(u, k, a)
        /\ \A s \in S : \A i \in Waiting(s, k) : object[s].changes[i][2] = a

LEMMA GatherStableAll ==
    ASSUME Consistent, NEW r \in Ranks, ~Gathered(r).fatal
    PROVE  GatherVerify(Gathered(r), r, Ranks \ {r}) /\ GatherStable(Gathered(r), r, Ranks \ {r})
<1>0. SharedType
  BY DEF Consistent
<1>1. PICK g, h : Gathering(g, h, r) /\ g[Ranks \ {r}] = Gathered(r)
  BY <1>0, GatherIter
<1>. DEFINE T == {S \in SUBSET (Ranks \ {r}) :
                    ~g[S].fatal => GatherVerify(g[S], r, S) /\ GatherStable(g[S], r, S)}
<1>2. {} \in T
  <2>1. g[{}] = object[r]
    BY <1>1 DEF Gathering
  <2>2. object[r].verify = Uninitialized \/ object[r].made
    BY DEF Consistent, EmptyInd
  <2>. QED  BY <2>1, <2>2 DEF GatherVerify, GatherStable
<1>3. ASSUME NEW S \in SUBSET (Ranks \ {r}), S # {}, S \ {h[S]} \in T PROVE S \in T
  <2>. SUFFICES ASSUME ~g[S].fatal PROVE GatherVerify(g[S], r, S) /\ GatherStable(g[S], r, S)
    OBVIOUS
  <2>1. PICK s \in S, o \in Objects, u \in Objects : Gathers(g, h, r, S, s, o, u)
    BY <1>0, <1>1, <1>3, GatherStep
  <2>2. PICK R : R = S \ {s}
    OBVIOUS
  <2>3. /\ u = g[S] /\ ~u.fatal /\ ~o.fatal /\ s \in Ranks /\ u = ApplyChanges(o, s)
        /\ S = R \cup {s}
    BY <2>1, <2>2 DEF Gathers, Frame
  <2>4. GatherVerify(o, r, R) /\ GatherStable(o, r, R)
    BY <1>3, <2>1, <2>2, <2>3 DEF Gathers
  <2>5. ApplyResult(o, u, s)
    BY <2>3, ApplyMeans
  <2>6. GatherVerify(u, r, S)
    <3>1. object[s].verify = Uninitialized \/ object[s].made
      BY <2>3 DEF Consistent, EmptyInd
    <3>. QED  BY <2>3, <2>4, <2>5, <3>1 DEF GatherVerify, ApplyResult
  <2>7. /\ object[r].written \subseteq u.written
        /\ \A q \in S : \A k \in Keys : Pending(q, k) => k \in u.written
    BY <2>3, <2>4, <2>5 DEF GatherStable, ApplyResult
  <2>8. ASSUME NEW k \in Keys, NEW a, Stable(object[r], k, a)
        PROVE  Stable(u, k, a) /\ \A q \in S : \A i \in Waiting(q, k) : object[q].changes[i][2] = a
    <3>1. Stable(o, k, a) /\ \A q \in R : \A i \in Waiting(q, k) : object[q].changes[i][2] = a
      BY <2>4, <2>8 DEF GatherStable
    <3>2. Stable(u, k, a) /\ \A i \in Waiting(s, k) : object[s].changes[i][2] = a
      BY <2>5, <3>1 DEF ApplyResult
    <3>. QED  BY <2>3, <3>1, <3>2
  <2>9. GatherStable(u, r, S)
    BY <2>7, <2>8 DEF GatherStable
  <2>. QED  BY <2>3, <2>6, <2>9
<1>4. \A S \in SUBSET (Ranks \ {r}) : S \in T
  <2>1. Inductive(T, h, Ranks \ {r})
    BY <1>2, <1>3 DEF Inductive
  <2>. HIDE DEF T
  <2>. QED  BY <1>1, <2>1, GatherInduction
<1>5. Ranks \ {r} \in SUBSET (Ranks \ {r})
  OBVIOUS
<1>. QED  BY <1>1, <1>4, <1>5

NoneFatal == \A r \in Ranks : ~Gathered(r).fatal

(* Two ranks that have written at one key have written the same. *)
Compatible ==
    \A k \in Keys : \A r, s \in Ranks :
        Pending(r, k) /\ Pending(s, k) => object[r].data[k] = object[s].data[k]

LEMMA SameVerify ==
    ASSUME Consistent, NoneFatal, NEW r \in Ranks, NEW s \in Ranks,
           object[r].verify # Uninitialized, object[s].verify # Uninitialized
    PROVE  object[r].verify = object[s].verify
<1>1. GatherVerify(Gathered(r), r, Ranks \ {r})
  BY GatherStableAll DEF NoneFatal
<1>. QED  BY <1>1 DEF GatherVerify

LEMMA PendingFacts ==
    ASSUME Consistent, NEW r \in Ranks, NEW k \in Keys, Pending(r, k)
    PROVE  /\ object[r].verify \in Verify
           /\ object[r].data[k] \in Values
           /\ k \in object[r].written
           /\ \E j \in DOMAIN log : log[j][2] = k /\ RankOf[log[j][1]] = r
<1>1. PICK i \in DOMAIN object[r].changes : object[r].changes[i][1] = k
  BY DEF Pending, Waiting
<1>2. /\ k \in object[r].written /\ object[r].data[k] # None
      /\ \E j \in DOMAIN log : log[j][2] = k /\ RankOf[log[j][1]] = r
  BY <1>1 DEF Consistent, ChangesInd
<1>3. object[r].verify # Uninitialized
  BY <1>2 DEF Consistent, EmptyInd
<1>4. object[r].verify \in Verify \cup {Uninitialized} /\ object[r].data \in [Keys -> Values \cup {None}]
  BY ObjectFacts DEF Consistent
<1>. QED  BY <1>2, <1>3, <1>4

LEMMA StableCompatible ==
    ASSUME Consistent, NoneFatal, NEW r \in Ranks, NEW s \in Ranks, r # s, NEW k \in Keys,
           Pending(s, k), Stable(object[r], k, object[r].data[k])
    PROVE  object[r].data[k] = object[s].data[k]
<1>1. GatherStable(Gathered(r), r, Ranks \ {r})
  BY GatherStableAll DEF NoneFatal
<1>2. PICK i \in DOMAIN object[s].changes :
        object[s].changes[i][1] = k /\ object[s].changes[i][2] = object[s].data[k]
  BY LatestChange
<1>3. i \in Waiting(s, k)
  BY <1>2 DEF Waiting
<1>. QED  BY <1>1, <1>2, <1>3 DEF GatherStable

LEMMA AllCompatible ==
    ASSUME Consistent, LogInd, NoneFatal
    PROVE  Compatible
<1>. SUFFICES ASSUME NEW k \in Keys, NEW r \in Ranks, NEW s \in Ranks, r # s,
                     Pending(r, k), Pending(s, k), object[r].data[k] # object[s].data[k]
              PROVE  FALSE
  BY DEF Compatible
<1>1. \A q \in {r, s} : /\ object[q].verify \in Verify /\ object[q].data[k] \in Values
                        /\ k \in object[q].written
                        /\ \E j \in DOMAIN log : log[j][2] = k /\ RankOf[log[j][1]] = q
  BY PendingFacts
<1>2. object[r].verify = object[s].verify
  BY <1>1, SameVerify, SharedFacts
<1>3. CASE object[r].verify = "NO_VERIFY"
  <2>1. PICK i \in DOMAIN log : log[i][2] = k /\ RankOf[log[i][1]] = r
    BY <1>1
  <2>2. PICK j \in DOMAIN log : log[j][2] = k /\ RankOf[log[j][1]] = s
    BY <1>1
  <2>3. i < j \/ j < i
    <3>1. DOMAIN log \subseteq Nat
      BY DEF Consistent, SharedType
    <3>2. i # j
      BY <2>1, <2>2
    <3>. QED  BY <3>1, <3>2
  <2>0. object[RankOf[log[i][1]]].verify = "NO_VERIFY" /\ object[RankOf[log[j][1]]].verify = "NO_VERIFY"
    BY <1>2, <1>3, <2>1, <2>2
  <2>4. i < j => log[i][1] = log[j][1]
    BY <2>0, <2>1, <2>2 DEF LogInd
  <2>5. j < i => log[j][1] = log[i][1]
    BY <2>0, <2>1, <2>2 DEF LogInd
  <2>. QED  BY <2>1, <2>2, <2>3, <2>4, <2>5
<1>4. CASE object[r].verify # "NO_VERIFY"
  <2>1. \A q \in {r, s} : object[q].data[k] # None /\ object[q].verify \notin {"NO_VERIFY", Uninitialized}
    BY <1>1, <1>2, <1>4, SharedFacts
  <2>2. Stable(object[r], k, object[r].data[k]) \/ Stable(object[s], k, object[s].data[k])
    BY <1>1, <2>1 DEF Stable
  <2>. QED  BY <2>2, StableCompatible
<1>. QED  BY <1>3, <1>4

(* What the exchange makes of the data, key by key. *)
GatherData(u, r, S) ==
    \A k \in Keys :
        /\ \A s \in S \cup {r} : Pending(s, k) => u.data[k] = object[s].data[k]
        /\ (\A s \in S \cup {r} : ~Pending(s, k)) =>
            u.data[k] = IF /\ kind = "array" /\ object[r].data[k] = None
                           /\ \E s \in S : object[s].data[k] # None
                        THEN 0 ELSE object[r].data[k]

LEMMA GatherDataAll ==
    ASSUME Consistent, LogInd, AgreeInd, NoneFatal, NEW r \in Ranks
    PROVE  GatherData(Gathered(r), r, Ranks \ {r})
<1>0. SharedType /\ Compatible
  BY AllCompatible DEF Consistent
<1>1. PICK g, h : Gathering(g, h, r) /\ g[Ranks \ {r}] = Gathered(r)
  BY <1>0, GatherIter
<1>. DEFINE T == {S \in SUBSET (Ranks \ {r}) : ~g[S].fatal => GatherData(g[S], r, S)}
<1>2. {} \in T
  <2>1. g[{}] = object[r]
    BY <1>1 DEF Gathering
  <2>. QED  BY <2>1 DEF GatherData
<1>3. ASSUME NEW S \in SUBSET (Ranks \ {r}), S # {}, S \ {h[S]} \in T PROVE S \in T
  <2>. SUFFICES ASSUME ~g[S].fatal PROVE GatherData(g[S], r, S)
    OBVIOUS
  <2>1. PICK s \in S, o \in Objects, u \in Objects : Gathers(g, h, r, S, s, o, u)
    BY <1>0, <1>1, <1>3, GatherStep
  <2>2. PICK R : R = S \ {s}
    OBVIOUS
  <2>3. /\ u = g[S] /\ ~u.fatal /\ ~o.fatal /\ s \in Ranks /\ u = ApplyChanges(o, s)
        /\ S = R \cup {s} /\ S \subseteq Ranks /\ R \subseteq Ranks
    BY <2>1, <2>2 DEF Gathers, Frame
  <2>4. GatherData(o, r, R)
    BY <1>3, <2>1, <2>2, <2>3 DEF Gathers
  <2>5. ApplyData(o, u, s)
    BY <2>3, ApplyMeans DEF ApplyResult
  <2>6. ASSUME NEW k \in Keys, Pending(s, k)
        PROVE  \A q \in S \cup {r} : Pending(q, k) => u.data[k] = object[q].data[k]
    <3>1. kind = "array" \/ o.data[k] \in {None, object[s].data[k]}
      <4>1. CASE \E q \in R \cup {r} : Pending(q, k)
        BY <1>0, <2>3, <2>4, <2>6, <4>1 DEF GatherData, Compatible
      <4>2. CASE kind # "array" /\ \A q \in R \cup {r} : ~Pending(q, k)
        <5>1. o.data[k] = object[r].data[k]
          BY <2>4, <4>2 DEF GatherData
        <5>. QED  BY <2>3, <2>6, <4>2, <5>1 DEF AgreeInd
      <4>. QED  BY <4>1, <4>2
    <3>2. u.data[k] = object[s].data[k]
      BY <2>5, <2>6, <3>1 DEF ApplyData
    <3>. QED  BY <1>0, <2>3, <2>6, <3>2 DEF Compatible
  <2>7. ASSUME NEW k \in Keys, ~Pending(s, k), NEW q \in S \cup {r}, Pending(q, k)
        PROVE  u.data[k] = object[q].data[k]
    <3>1. q \in R \cup {r} /\ q \in Ranks
      BY <2>3, <2>7
    <3>2. o.data[k] = object[q].data[k]
      BY <2>4, <2>7, <3>1 DEF GatherData
    <3>3. object[q].data[k] # None
      BY <2>7, <3>1, PendingFacts, SharedFacts
    <3>. QED  BY <2>5, <2>7, <3>2, <3>3 DEF ApplyData
  <2>8. ASSUME NEW k \in Keys, \A q \in S \cup {r} : ~Pending(q, k)
        PROVE  u.data[k] = IF /\ kind = "array" /\ object[r].data[k] = None
                              /\ \E q \in S : object[q].data[k] # None
                           THEN 0 ELSE object[r].data[k]
    <3>1. o.data[k] = IF /\ kind = "array" /\ object[r].data[k] = None
                         /\ \E q \in R : object[q].data[k] # None
                      THEN 0 ELSE object[r].data[k]
      BY <2>3, <2>4, <2>8 DEF GatherData
    <3>2. u.data[k] = IF kind = "array" /\ o.data[k] = None /\ object[s].data[k] # None THEN 0
                      ELSE o.data[k]
      BY <2>5, <2>8 DEF ApplyData
    <3>. QED  BY <2>3, <3>1, <3>2
  <2>9. GatherData(u, r, S)
    BY <2>6, <2>7, <2>8 DEF GatherData
  <2>. QED  BY <2>3, <2>9
<1>4. \A S \in SUBSET (Ranks \ {r}) : S \in T
  <2>1. Inductive(T, h, Ranks \ {r})
    BY <1>2, <1>3 DEF Inductive
  <2>. HIDE DEF T
  <2>. QED  BY <1>1, <2>1, GatherInduction
<1>5. Ranks \ {r} \in SUBSET (Ranks \ {r})
  OBVIOUS
<1>. QED  BY <1>1, <1>4, <1>5 DEF NoneFatal

-----------------------------------------------------------------------------
(* The change set a of a rank after a write of v at k, c before. *)
AddResult(a, c, k, v) ==
    /\ a \in Seq(Keys \X Values)
    /\ Cardinality(Ranks) = 1 => a = c
    /\ \A i \in DOMAIN a : a[i] = <<k, v>> \/ \E j \in DOMAIN c : a[i] = c[j]
    /\ \A j \in DOMAIN c : \E i \in DOMAIN a : a[i][1] = c[j][1]
    /\ Cardinality(Ranks) # 1 => \E i \in DOMAIN a : a[i][1] = k
    /\ Cardinality(Ranks) # 1 /\ kind = "array" =>
        Len(a) = Len(c) + 1 /\ a[Len(a)] = <<k, v>> /\ \A i \in 1 .. Len(c) : a[i] = c[i]

LEMMA AddedChange ==
    ASSUME NEW c \in Seq(Keys \X Values), NEW k \in Keys, NEW v \in Values
    PROVE  AddResult(AddChange(c, <<k, v>>), c, k, v)
<1>. DEFINE same == {i \in DOMAIN c : c[i][1] = k}
<1>0. <<k, v>> \in Keys \X Values /\ <<k, v>>[1] = k
  OBVIOUS
<1>1. PICK x : x = <<k, v>> /\ x[1] = k /\ x \in Keys \X Values
  BY <1>0
<1>2. DOMAIN c = 1 .. Len(c) /\ Len(c) \in Nat
  OBVIOUS
<1>3. CASE Cardinality(Ranks) = 1
  BY <1>1, <1>3 DEF AddChange, AddResult
<1>4. CASE Cardinality(Ranks) # 1 /\ kind = "set" /\ same # {}
  BY <1>1, <1>4 DEF AddChange, AddResult
<1>5. CASE Cardinality(Ranks) # 1 /\ kind = "map" /\ same # {}
  <2>1. PICK a : a = [i \in DOMAIN c |-> IF i \in same THEN x ELSE c[i]]
    OBVIOUS
  <2>2. AddChange(c, x) = a
    BY <1>1, <1>5, <2>1 DEF AddChange
  <2>3. DOMAIN a = 1 .. Len(c) /\ \A i \in 1 .. Len(c) : a[i] = IF i \in same THEN x ELSE c[i]
    BY <1>2, <2>1
  <2>4. \A i \in 1 .. Len(c) : a[i] \in Keys \X Values
    BY <1>1, <2>3
  <2>5. a \in Seq(Keys \X Values)
    BY <1>2, <2>1, <2>3, <2>4
  <2>6. \A i \in 1 .. Len(c) : a[i][1] = c[i][1]
    BY <1>1, <1>2, <2>3
  <2>7. \E i \in DOMAIN c : a[i][1] = k
    BY <1>5, <1>2, <2>6
  <2>. QED  BY <1>1, <1>2, <1>5, <2>2, <2>3, <2>5, <2>6, <2>7 DEF AddResult
<1>6. CASE Cardinality(Ranks) # 1 /\ ~(kind \in {"map", "set"} /\ same # {})
  <2>1. AddChange(c, x) = Append(c, x)
    BY <1>1, <1>6 DEF AddChange
  <2>2. PICK a : a = Append(c, x)
    OBVIOUS
  <2>3. /\ a \in Seq(Keys \X Values) /\ Len(a) = Len(c) + 1 /\ a[Len(c) + 1] = x
        /\ \A i \in 1 .. Len(c) : a[i] = c[i]
    BY <1>1, <2>2
  <2>4. DOMAIN a = 1 .. Len(c) + 1
    BY <2>3
  <2>5. \A i \in DOMAIN a : i = Len(c) + 1 \/ i \in 1 .. Len(c)
    BY <1>2, <2>4
  <2>6. Len(c) + 1 \in DOMAIN a /\ \A i \in 1 .. Len(c) : i \in DOMAIN a
    BY <1>2, <2>4
  <2>. QED  BY <1>1, <1>2, <1>6, <2>1, <2>2, <2>3, <2>5, <2>6 DEF AddResult
<1>. QED  BY <1>3, <1>4, <1>5, <1>6

(* The counters and flags that stay. *)
SameFlags(o, u) ==
    u.publish = o.publish /\ u.fully = o.fully /\ u.locked = o.locked

OnlyAt(r) ==
    /\ object' \in [Ranks -> Objects]
    /\ \A s \in Ranks : s # r => object'[s] = object[s]

WriteMeans(p, r, k, v) ==
    /\ r = RankOf[p] /\ r \in Ranks /\ OnlyAt(r)
    /\ instance[p] # "none" /\ MayWrite(p, k)
    /\ log' = Append(log, <<p, k, v>>) /\ settled' = FALSE
    /\ UNCHANGED <<kind, instance, known>>
    /\ SameFlags(object[r], object'[r]) /\ object'[r].share = object[r].share
    /\ object'[r].made = object[r].made /\ object'[r].verify = object[r].verify
    /\ IF instance[p] = "published" \/ object[r].locked
       THEN object'[r].fatal /\ object'[r].data = object[r].data
       ELSE /\ WriteResult(object[r], object'[r], k, v)
            /\ AddResult(object'[r].changes, object[r].changes, k, v)

LEMMA WriteStep ==
    ASSUME SharedType, NEW p \in Sharers, NEW k \in Keys, NEW v \in Values, Write(p, k, v)
    PROVE  \E r \in Ranks : WriteMeans(p, r, k, v)
<1>1. PICK r \in Ranks : r = RankOf[p]
  BY SharedFacts
<1>2. PICK o \in Objects : o = object[r]
  BY ObjectFacts
<1>3. object \in [Ranks -> Objects]
  BY DEF SharedType
<1>4. CASE instance[p] = "published" \/ o.locked
  <2>1. PICK w : w = [o EXCEPT !.fatal = TRUE]
    OBVIOUS
  <2>2. w \in Objects
    BY <2>1 DEF Objects
  <2>3. object' = [object EXCEPT ![r] = w]
    BY <1>1, <1>2, <1>4, <2>1 DEF Write
  <2>4. OnlyAt(r) /\ object'[r] = w
    BY <1>3, <2>2, <2>3 DEF OnlyAt
  <2>5. SameFlags(o, w) /\ w.share = o.share /\ w.made = o.made /\ w.verify = o.verify
        /\ w.fatal /\ w.data = o.data
    BY <2>1 DEF SameFlags, Objects
  <2>. QED  BY <1>1, <1>2, <1>4, <2>4, <2>5 DEF Write, WriteMeans
<1>5. CASE ~(instance[p] = "published" \/ o.locked)
  <2>1. PICK u : u = UpdateWrite(o, <<k, v>>)
    OBVIOUS
  <2>2. u \in Objects /\ Frame(o, u) /\ WriteResult(o, u, k, v)
    BY <2>1, WriteFields
  <2>3. PICK c : c = AddChange(o.changes, <<k, v>>)
    OBVIOUS
  <2>4. AddResult(c, o.changes, k, v)
    <3>1. o.changes \in Seq(Keys \X Values)
      BY DEF Objects
    <3>. QED  BY <2>3, <3>1, AddedChange
  <2>5. PICK w : w = [u EXCEPT !.changes = c]
    OBVIOUS
  <2>6. u.changes = o.changes
    BY <2>2 DEF Frame
  <2>7. object' = [object EXCEPT ![r] = w]
    BY <1>1, <1>2, <1>5, <2>1, <2>3, <2>5, <2>6 DEF Write
  <2>8. w \in Objects
    BY <2>2, <2>4, <2>5 DEF Objects, AddResult
  <2>9. OnlyAt(r) /\ object'[r] = w
    BY <1>3, <2>7, <2>8 DEF OnlyAt
  <2>10. /\ w.changes = c /\ w.data = u.data /\ w.written = u.written /\ w.fatal = u.fatal
         /\ w.share = u.share /\ w.publish = u.publish /\ w.fully = u.fully
         /\ w.locked = u.locked /\ w.made = u.made /\ w.verify = u.verify
    BY <2>2, <2>5 DEF Objects
  <2>11. WriteResult(o, w, k, v)
    BY <2>2, <2>10 DEF WriteResult
  <2>12. SameFlags(o, w) /\ w.share = o.share /\ w.made = o.made /\ w.verify = o.verify
    BY <2>2, <2>10 DEF SameFlags, Frame, WriteResult
  <2>. QED  BY <1>1, <1>2, <1>5, <2>4, <2>9, <2>10, <2>11, <2>12 DEF Write, WriteMeans
<1>. QED  BY <1>4, <1>5

InitializeMeans(p, r, n, v) ==
    /\ r = RankOf[p] /\ r \in Ranks /\ OnlyAt(r)
    /\ instance[p] = "none" /\ instance' = [instance EXCEPT ![p] = "initialized"]
    /\ settled' = FALSE
    /\ UNCHANGED <<kind, log, known>>
    /\ SameFlags(object[r], object'[r]) /\ object'[r].changes = object[r].changes
    /\ object'[r].written = object[r].written
    /\ IF object[r].locked THEN object'[r].fatal /\ object'[r].data = object[r].data
       ELSE /\ object'[r].made /\ object'[r].share = object[r].share + 1
            /\ object'[r].verify = IF v = Uninitialized THEN object[r].verify ELSE v
            /\ object'[r].fatal \/ v = Uninitialized \/ object[r].verify \in {Uninitialized, v}
            /\ \A k \in Keys : object'[r].data[k] =
                    IF v # Uninitialized /\ kind = "array" /\ k <= n /\ object[r].data[k] = None THEN 0
                    ELSE object[r].data[k]

LEMMA InitializeStep ==
    ASSUME SharedType, NEW p \in Sharers, NEW n, NEW v \in Verify, Initialize(p, n, v)
    PROVE  \E r \in Ranks, w \in Verify \cup {Uninitialized} :
                /\ InitializeMeans(p, r, n, w)
                /\ w = IF kind = "array" /\ n = 0 THEN Uninitialized ELSE v
<1>1. PICK r \in Ranks : r = RankOf[p]
  BY SharedFacts
<1>2. PICK o \in Objects : o = object[r]
  BY ObjectFacts
<1>3. object \in [Ranks -> Objects]
  BY DEF SharedType
<1>0. PICK w \in Verify \cup {Uninitialized} :
            w = IF kind = "array" /\ n = 0 THEN Uninitialized ELSE v
  OBVIOUS
<1>4. CASE o.locked
  <2>1. PICK e : e = [o EXCEPT !.fatal = TRUE]
    OBVIOUS
  <2>2. e \in Objects
    BY <2>1 DEF Objects
  <2>3. object' = [object EXCEPT ![r] = e]
    BY <1>1, <1>2, <1>4, <2>1 DEF Initialize
  <2>4. OnlyAt(r) /\ object'[r] = e
    BY <1>3, <2>2, <2>3 DEF OnlyAt
  <2>5. SameFlags(o, e) /\ e.changes = o.changes /\ e.written = o.written /\ e.fatal /\ e.data = o.data
    BY <2>1 DEF SameFlags, Objects
  <2>6. InitializeMeans(p, r, n, w)
    BY <1>1, <1>2, <1>4, <2>4, <2>5 DEF Initialize, InitializeMeans
  <2>. QED  BY <1>0, <2>6
<1>5. CASE ~o.locked
  <2>1. PICK d : d = Declared(o, n, w)
    OBVIOUS
  <2>2. d \in Objects /\ Frame(o, d) /\ DeclareResult(o, d, n, w)
    BY <2>1, DeclareFields
  <2>0. PICK m \in Nat : m = d.share + 1
    BY <2>2 DEF Objects
  <2>3. PICK e : e = [d EXCEPT !.made = TRUE, !.share = m]
    OBVIOUS
  <2>4. object' = [object EXCEPT ![r] = e]
    BY <1>0, <1>1, <1>2, <1>5, <2>0, <2>1, <2>3 DEF Initialize
  <2>5. e \in Objects
    BY <2>2, <2>3 DEF Objects
  <2>6. OnlyAt(r) /\ object'[r] = e
    BY <1>3, <2>4, <2>5 DEF OnlyAt
  <2>7. /\ e.made /\ e.share = d.share + 1
        /\ e.changes = d.changes /\ e.data = d.data /\ e.written = d.written /\ e.fatal = d.fatal
        /\ e.publish = d.publish /\ e.fully = d.fully /\ e.locked = d.locked /\ e.verify = d.verify
    BY <2>0, <2>2, <2>3 DEF Objects
  <2>8. SameFlags(o, e) /\ e.changes = o.changes /\ e.share = o.share + 1
    BY <2>2, <2>7 DEF SameFlags, Frame
  <2>9. /\ e.written = o.written /\ e.verify = (IF w = Uninitialized THEN o.verify ELSE w)
        /\ e.fatal \/ w = Uninitialized \/ o.verify \in {Uninitialized, w}
        /\ \A k \in Keys : e.data[k] =
                    IF w # Uninitialized /\ kind = "array" /\ k <= n /\ o.data[k] = None THEN 0
                    ELSE o.data[k]
    BY <2>2, <2>7 DEF DeclareResult
  <2>11. /\ instance[p] = "none" /\ instance' = [instance EXCEPT ![p] = "initialized"]
         /\ settled' = FALSE /\ UNCHANGED <<kind, log, known>>
    BY DEF Initialize
  <2>12. e.made
    BY <2>7
  <2>10. InitializeMeans(p, r, n, w)
    BY <1>1, <1>2, <1>5, <2>6, <2>8, <2>9, <2>11, <2>12 DEF InitializeMeans
  <2>. QED  BY <1>0, <2>10
<1>. QED  BY <1>4, <1>5

PublishMeans(p, r) ==
    /\ r = RankOf[p] /\ r \in Ranks /\ OnlyAt(r)
    /\ instance[p] = "initialized" /\ instance' = [instance EXCEPT ![p] = "published"]
    /\ settled' = FALSE
    /\ UNCHANGED <<kind, log, known>>
    /\ Frame(object[r], [object'[r] EXCEPT !.publish = object[r].publish])
    /\ object'[r].publish = object[r].publish + 1
    /\ object'[r].made = object[r].made /\ object'[r].verify = object[r].verify
    /\ object'[r].data = object[r].data /\ object'[r].written = object[r].written

LEMMA PublishStep ==
    ASSUME SharedType, NEW p \in Sharers, Publish(p)
    PROVE  \E r \in Ranks : PublishMeans(p, r)
<1>1. PICK r \in Ranks : r = RankOf[p]
  BY SharedFacts
<1>2. PICK o \in Objects : o = object[r]
  BY ObjectFacts
<1>3. object \in [Ranks -> Objects]
  BY DEF SharedType
<1>0. PICK m \in Nat : m = o.publish + 1
  BY DEF Objects
<1>4. PICK e : e = [o EXCEPT !.publish = m]
  OBVIOUS
<1>5. object' = [object EXCEPT ![r] = e]
  <2>1. object' = [object EXCEPT ![RankOf[p]].publish = @ + 1]
    BY DEF Publish
  <2>2. [object EXCEPT ![r].publish = @ + 1] = [object EXCEPT ![r] = [object[r] EXCEPT !.publish = @ + 1]]
    OBVIOUS
  <2>. QED  BY <1>0, <1>1, <1>2, <1>4, <2>1, <2>2
<1>6. e \in Objects
  BY <1>4 DEF Objects
<1>7. OnlyAt(r) /\ object'[r] = e
  BY <1>3, <1>5, <1>6 DEF OnlyAt
<1>8. /\ e.publish = o.publish + 1 /\ e.share = o.share /\ e.fully = o.fully /\ e.locked = o.locked
      /\ e.changes = o.changes /\ e.fatal = o.fatal
      /\ e.made = o.made /\ e.verify = o.verify /\ e.data = o.data /\ e.written = o.written
  BY <1>0, <1>4 DEF Objects
<1>9. Frame(o, [e EXCEPT !.publish = o.publish])
  BY <1>6, <1>8 DEF Frame, Objects
<1>. QED  BY <1>1, <1>2, <1>7, <1>8, <1>9 DEF Publish, PublishMeans

UpdateMeans ==
    /\ settled' = TRUE /\ known' = {p \in Sharers : instance[p] # "none"}
    /\ UNCHANGED <<kind, instance, log>>
    /\ object' \in [Ranks -> Objects]
    /\ \A r \in Ranks :
        /\ object'[r].share = object[r].share /\ object'[r].publish = object[r].publish
        /\ object[r].made => object'[r].made
        /\ object'[r].changes = <<>>
        /\ \/ object'[r].locked
           \/ object'[r].fully = FullyPublished(r)
        /\ object'[r].verify = Gathered(r).verify /\ object'[r].data = Gathered(r).data
        /\ object'[r].written = Gathered(r).written /\ object'[r].fatal = Gathered(r).fatal
        /\ object'[r].made = Gathered(r).made

LEMMA UpdateStep == ASSUME SharedType, UpdateState PROVE UpdateMeans
<1>1. ASSUME NEW r \in Ranks
      PROVE  /\ object'[r] \in Objects
             /\ object'[r].share = object[r].share /\ object'[r].publish = object[r].publish
             /\ object[r].made => object'[r].made
             /\ object'[r].changes = <<>>
             /\ \/ object'[r].locked
                \/ object'[r].fully = FullyPublished(r)
             /\ object'[r].verify = Gathered(r).verify /\ object'[r].data = Gathered(r).data
             /\ object'[r].written = Gathered(r).written /\ object'[r].fatal = Gathered(r).fatal
             /\ object'[r].made = Gathered(r).made
  <2>1. PICK g \in Objects : g = Gathered(r) /\ Frame(object[r], g)
    BY GatherFrame
  <2>2. PICK f \in BOOLEAN : f = FullyPublished(r)
    BY DEF FullyPublished
  <2>3. PICK e : e = [g EXCEPT !.changes = <<>>, !.fully = f]
    OBVIOUS
  <2>4. /\ e \in Objects /\ e.changes = <<>> /\ e.fully = f /\ e.share = g.share /\ e.publish = g.publish
        /\ e.made = g.made /\ e.verify = g.verify /\ e.data = g.data /\ e.written = g.written
        /\ e.fatal = g.fatal
    <3>1. <<>> \in Seq(Keys \X Values)
      OBVIOUS
    <3>. QED  BY <2>3, <3>1 DEF Objects
  <2>5. PICK l : l = [e EXCEPT !.fully = TRUE, !.locked = TRUE]
    OBVIOUS
  <2>6. /\ l \in Objects /\ l.changes = <<>> /\ l.locked /\ l.share = g.share /\ l.publish = g.publish
        /\ l.made = g.made /\ l.verify = g.verify /\ l.data = g.data /\ l.written = g.written
        /\ l.fatal = g.fatal
    BY <2>4, <2>5 DEF Objects
  <2>7. object'[r] \in {e, l}
    BY <2>1, <2>2, <2>3, <2>5 DEF UpdateState
  <2>. QED  BY <2>1, <2>2, <2>4, <2>6, <2>7 DEF Frame
<1>2. object' \in [Ranks -> Objects]
  <2>1. object' = [r \in Ranks |-> object'[r]]
    BY DEF UpdateState
  <2>. QED  BY <1>1, <2>1
<1>. QED  BY <1>1, <1>2 DEF UpdateState, UpdateMeans

-----------------------------------------------------------------------------
LEMMA TypeInit == ASSUME SharedInit PROVE SharedType
<1>1. NoObject \in Objects
  BY DEF NoObject, Objects
<1>2. log \in Seq(Sharers \X Keys \X Values)
  BY DEF SharedInit
<1>. QED  BY <1>1, <1>2 DEF SharedInit, SharedType

SharedAction ==
    \/ UNCHANGED svars
    \/ UpdateMeans
    \/ \E p \in Sharers, r \in Ranks :
        \/ \E n \in Nat : \E v \in Verify \cup {Uninitialized} :
            /\ InitializeMeans(p, r, n, v)
            /\ v = Uninitialized => kind = "array"
        \/ PublishMeans(p, r)
        \/ \E k \in Keys, v \in Values : WriteMeans(p, r, k, v)

LEMMA ActionCases == ASSUME SharedType, [SharedNext]_allvars PROVE SharedAction
<1>1. ASSUME NEW p \in Sharers, SharedStep(p) PROVE SharedAction
  <2>1. ASSUME NEW n \in Lengths, NEW v \in VerifyTypes, Initialize(p, n, v) PROVE SharedAction
    <3>1. v \in Verify /\ v # Uninitialized /\ n \in Nat
      BY SharedFacts DEF VerifyTypes, Lengths
    <3>. QED  BY <2>1, <3>1, InitializeStep DEF SharedAction
  <2>2. ASSUME Publish(p) PROVE SharedAction
    BY <2>2, PublishStep DEF SharedAction
  <2>3. ASSUME NEW k \in Keys, NEW v \in Values, Write(p, k, v) PROVE SharedAction
    BY <2>3, WriteStep DEF SharedAction
  <2>. QED  BY <1>1, <2>1, <2>2, <2>3 DEF SharedStep
<1>2. CASE UpdateState
  BY <1>2, UpdateStep DEF SharedAction
<1>3. CASE UNCHANGED svars
  BY <1>3 DEF SharedAction
<1>4. CASE UNCHANGED allvars
  BY <1>4 DEF SharedAction, allvars, svars
<1>. QED  BY <1>1, <1>2, <1>3, <1>4 DEF SharedNext

LEMMA TypeStep == ASSUME SharedType, SharedAction PROVE SharedType'
<1>1. CASE UNCHANGED svars
  BY <1>1 DEF SharedType, svars
<1>2. CASE UpdateMeans
  BY <1>2 DEF UpdateMeans, SharedType
<1>3. ASSUME NEW p \in Sharers, NEW r \in Ranks, NEW n \in Nat, NEW v, InitializeMeans(p, r, n, v)
      PROVE  SharedType'
  <2>1. instance' \in [Sharers -> {"none", "initialized", "published"}]
    BY <1>3 DEF InitializeMeans, SharedType
  <2>. QED  BY <1>3, <2>1 DEF InitializeMeans, SharedType, OnlyAt
<1>4. ASSUME NEW p \in Sharers, NEW r \in Ranks, PublishMeans(p, r) PROVE SharedType'
  <2>1. instance' \in [Sharers -> {"none", "initialized", "published"}]
    BY <1>4 DEF PublishMeans, SharedType
  <2>. QED  BY <1>4, <2>1 DEF PublishMeans, SharedType, OnlyAt
<1>5. ASSUME NEW p \in Sharers, NEW r \in Ranks, NEW k \in Keys, NEW v \in Values,
             WriteMeans(p, r, k, v)
      PROVE  SharedType'
  <2>1. <<p, k, v>> \in Sharers \X Keys \X Values
    OBVIOUS
  <2>2. Append(log, <<p, k, v>>) \in Seq(Sharers \X Keys \X Values)
    BY <2>1 DEF SharedType
  <2>. QED  BY <1>5, <2>2 DEF WriteMeans, SharedType, OnlyAt
<1>. QED  BY <1>1, <1>2, <1>3, <1>4, <1>5 DEF SharedAction

-----------------------------------------------------------------------------
(* The counters. *)
LEMMA CountsStep ==
    ASSUME SharedType, CountsInd, SharedAction, ~Fatal'
    PROVE  CountsInd'
<1>0. \A r \in Ranks : IsFiniteSet(Initialized(r)) /\ IsFiniteSet(Published(r))
  BY SharedFacts, FS_Subset DEF Initialized, Published
<1>1. CASE UNCHANGED svars
  BY <1>1 DEF CountsInd, svars, Initialized, Published
<1>2. CASE UpdateMeans
  <2>1. \A r \in Ranks : Initialized(r)' = Initialized(r) /\ Published(r)' = Published(r)
    BY <1>2 DEF UpdateMeans, Initialized, Published
  <2>. QED  BY <1>2, <2>1 DEF CountsInd, UpdateMeans
<1>3. ASSUME NEW p \in Sharers, NEW r \in Ranks, NEW n \in Nat, NEW v, InitializeMeans(p, r, n, v)
      PROVE  CountsInd'
  <2>1. /\ p \notin Initialized(r) /\ Initialized(r)' = Initialized(r) \cup {p}
        /\ Published(r)' = Published(r)
        /\ \A s \in Ranks : s # r => Initialized(s)' = Initialized(s) /\ Published(s)' = Published(s)
    BY <1>3 DEF InitializeMeans, Initialized, Published, SharedType
  <2>2. Cardinality(Initialized(r) \cup {p}) = Cardinality(Initialized(r)) + 1
    BY <1>0, <2>1, FS_AddElement
  <2>3. ~object'[r].fatal
    BY DEF Fatal
  <2>4. /\ object'[r].share = object[r].share + 1 /\ object'[r].publish = object[r].publish
        /\ object'[r].made /\ \A s \in Ranks : s # r => object'[s] = object[s]
    BY <1>3, <2>3 DEF InitializeMeans, SameFlags, OnlyAt
  <2>5. ASSUME NEW s \in Ranks
        PROVE  /\ object'[s].share = Cardinality(Initialized(s)')
               /\ object'[s].publish = Cardinality(Published(s)')
               /\ object'[s].made \/ Initialized(s)' = {}
    BY <2>1, <2>2, <2>4 DEF CountsInd
  <2>. QED  BY <2>5 DEF CountsInd
<1>4. ASSUME NEW p \in Sharers, NEW r \in Ranks, PublishMeans(p, r) PROVE CountsInd'
  <2>1. /\ p \notin Published(r) /\ Published(r)' = Published(r) \cup {p}
        /\ Initialized(r)' = Initialized(r)
        /\ \A s \in Ranks : s # r => Initialized(s)' = Initialized(s) /\ Published(s)' = Published(s)
    BY <1>4 DEF PublishMeans, Initialized, Published, SharedType
  <2>2. Cardinality(Published(r) \cup {p}) = Cardinality(Published(r)) + 1
    BY <1>0, <2>1, FS_AddElement
  <2>3. object' \in [Ranks -> Objects]
    BY <1>4 DEF PublishMeans, OnlyAt
  <2>4. /\ object'[r].share = object[r].share /\ object'[r].publish = object[r].publish + 1
        /\ object'[r].made = object[r].made /\ \A s \in Ranks : s # r => object'[s] = object[s]
    <3>1. PICK o \in Objects : o = object'[r]
      BY <2>3
    <3>2. [o EXCEPT !.publish = object[r].publish].share = o.share
      BY DEF Objects
    <3>. QED  BY <1>4, <3>1, <3>2 DEF PublishMeans, Frame, OnlyAt
  <2>5. ASSUME NEW s \in Ranks
        PROVE  /\ object'[s].share = Cardinality(Initialized(s)')
               /\ object'[s].publish = Cardinality(Published(s)')
               /\ object'[s].made \/ Initialized(s)' = {}
    BY <2>1, <2>2, <2>4 DEF CountsInd
  <2>. QED  BY <2>5 DEF CountsInd
<1>5. ASSUME NEW p \in Sharers, NEW r \in Ranks, NEW k \in Keys, NEW v \in Values,
             WriteMeans(p, r, k, v)
      PROVE  CountsInd'
  <2>1. \A s \in Ranks : Initialized(s)' = Initialized(s) /\ Published(s)' = Published(s)
    BY <1>5 DEF WriteMeans, Initialized, Published
  <2>2. ASSUME NEW s \in Ranks
        PROVE  /\ object'[s].share = object[s].share /\ object'[s].publish = object[s].publish
               /\ object'[s].made = object[s].made
    BY <1>5 DEF WriteMeans, OnlyAt, SameFlags
  <2>. QED  BY <2>1, <2>2 DEF CountsInd
<1>. QED  BY <1>1, <1>2, <1>3, <1>4, <1>5 DEF SharedAction

(* When as many have published as have initialized, all have. *)
LEMMA AllPublished ==
    ASSUME SharedType, CountsInd, NEW r \in Ranks, FullyPublished(r),
           NEW p \in Sharers, instance[p] # "none"
    PROVE  instance[p] = "published"
<1>1. PICK s \in Ranks : s = RankOf[p]
  BY SharedFacts
<1>2. p \in Initialized(s)
  BY <1>1 DEF Initialized
<1>3. object[s].share = object[s].publish
  BY <1>2 DEF CountsInd, FullyPublished
<1>4. Published(s) \in SUBSET Initialized(s) /\ IsFiniteSet(Initialized(s))
  BY SharedFacts, FS_Subset DEF Published, Initialized
<1>5. Published(s) = Initialized(s)
  BY <1>3, <1>4, FS_Subset DEF CountsInd
<1>. QED  BY <1>2, <1>5 DEF Published

LEMMA PublishedStep ==
    ASSUME SharedType, CountsInd, PublishedInd, SharedAction, ~Fatal'
    PROVE  PublishedInd'
<1>1. CASE UNCHANGED svars
  BY <1>1 DEF PublishedInd, NoNewcomer, svars
<1>2. CASE UpdateMeans
  <2>1. ASSUME NEW r \in Ranks, object'[r].fully, ~object'[r].locked
        PROVE  /\ \A p \in known' : instance'[p] = "published"
               /\ \A s \in Ranks : object'[s].changes = <<>>
    <3>1. FullyPublished(r)
      BY <1>2, <2>1 DEF UpdateMeans
    <3>. QED  BY <1>2, <3>1, AllPublished DEF UpdateMeans
  <2>. QED  BY <2>1 DEF PublishedInd
<1>3. ASSUME NEW p \in Sharers, NEW r \in Ranks, NEW n \in Nat, NEW v, InitializeMeans(p, r, n, v)
      PROVE  PublishedInd'
  <2>1. \A s \in Ranks : /\ object'[s].fully = object[s].fully /\ object'[s].locked = object[s].locked
                        /\ object'[s].changes = object[s].changes
    BY <1>3 DEF InitializeMeans, OnlyAt, SameFlags
  <2>2. known' = known /\ known \subseteq Sharers
    BY <1>3 DEF InitializeMeans, SharedType
  <2>3. \A q \in Sharers : instance'[q] = IF q = p THEN "initialized" ELSE instance[q]
    BY <1>3 DEF InitializeMeans, SharedType
  <2>4. instance[p] = "none"
    BY <1>3 DEF InitializeMeans
  <2>. QED  BY <2>1, <2>2, <2>3, <2>4 DEF PublishedInd, NoNewcomer
<1>4. ASSUME NEW p \in Sharers, NEW r \in Ranks, PublishMeans(p, r) PROVE PublishedInd'
  <2>1. \A s \in Ranks : /\ object'[s].fully = object[s].fully /\ object'[s].locked = object[s].locked
                        /\ object'[s].changes = object[s].changes
    <3>1. PICK o \in Objects : o = object'[r]
      BY <1>4 DEF PublishMeans, OnlyAt
    <3>2. /\ [o EXCEPT !.publish = object[r].publish].fully = o.fully
          /\ [o EXCEPT !.publish = object[r].publish].locked = o.locked
          /\ [o EXCEPT !.publish = object[r].publish].changes = o.changes
      BY DEF Objects
    <3>. QED  BY <1>4, <3>1, <3>2 DEF PublishMeans, Frame, OnlyAt
  <2>2. known' = known /\ known \subseteq Sharers
    BY <1>4 DEF PublishMeans, SharedType
  <2>3. \A q \in Sharers : instance'[q] = IF q = p THEN "published" ELSE instance[q]
    BY <1>4 DEF PublishMeans, SharedType
  <2>4. instance[p] = "initialized"
    BY <1>4 DEF PublishMeans
  <2>. QED  BY <2>1, <2>2, <2>3, <2>4 DEF PublishedInd, NoNewcomer
<1>5. ASSUME NEW p \in Sharers, NEW r \in Ranks, NEW k \in Keys, NEW v \in Values,
             WriteMeans(p, r, k, v)
      PROVE  PublishedInd'
  <2>1. ~object'[r].fatal
    BY DEF Fatal
  <2>2. instance[p] # "published" /\ instance[p] # "none"
    BY <1>5, <2>1 DEF WriteMeans
  <2>3. \A s \in Ranks : object'[s].fully = object[s].fully /\ object'[s].locked = object[s].locked
    BY <1>5 DEF WriteMeans, OnlyAt, SameFlags
  <2>4. known' = known /\ instance' = instance
    BY <1>5 DEF WriteMeans
  <2>. QED  BY <2>2, <2>3, <2>4 DEF PublishedInd, NoNewcomer
<1>. QED  BY <1>1, <1>2, <1>3, <1>4, <1>5 DEF SharedAction

-----------------------------------------------------------------------------
PublishInv == Fatal \/ (SharedType /\ CountsInd /\ PublishedInd)

FatalStops == Fatal => UNCHANGED allvars

LEMMA FatalIsLast == ASSUME [SharedNext]_allvars PROVE FatalStops
  BY DEF SharedNext, FatalStops

LEMMA PublishAlways == SharedSpec => []PublishInv
<1>1. ASSUME SharedInit PROVE PublishInv
  <2>1. SharedType
    BY <1>1, TypeInit
  <2>2. \A r \in Ranks : object[r].share = 0 /\ object[r].publish = 0 /\ ~object[r].fully
    BY <1>1 DEF SharedInit, NoObject
  <2>3. \A r \in Ranks : Initialized(r) = {} /\ Published(r) = {}
    BY <1>1 DEF SharedInit, Initialized, Published
  <2>. QED  BY <2>1, <2>2, <2>3, FS_EmptySet DEF PublishInv, CountsInd, PublishedInd
<1>2. ASSUME PublishInv, [SharedNext]_allvars PROVE PublishInv'
  <2>1. CASE Fatal
    <3>1. UNCHANGED allvars
      BY <1>2, <2>1, FatalIsLast DEF FatalStops
    <3>. QED  BY <2>1, <3>1 DEF PublishInv, Fatal, allvars, svars
  <2>2. CASE ~Fatal /\ ~Fatal'
    <3>1. SharedType /\ CountsInd /\ PublishedInd
      BY <1>2, <2>2 DEF PublishInv
    <3>2. SharedAction
      BY <1>2, <3>1, ActionCases
    <3>. QED  BY <2>2, <3>1, <3>2, TypeStep, CountsStep, PublishedStep DEF PublishInv
  <2>3. CASE Fatal'
    BY <2>3 DEF PublishInv
  <2>. QED  BY <2>1, <2>2, <2>3
<1>. QED  BY <1>1, <1>2, PTL DEF SharedSpec

(* Nothing that is there is lost. *)
Grows(d, e) == \A k \in Keys : d[k] \in {None, e[k]}

NothingChanges == \A s \in Ranks : object[s].changes = <<>>

(* Without changes an exchange only makes an array longer. *)
LEMMA GatherGrows ==
    ASSUME SharedType, NothingChanges, NEW r \in Ranks
    PROVE  Grows(object[r].data, Gathered(r).data)
<1>1. PICK g, h : Gathering(g, h, r) /\ g[Ranks \ {r}] = Gathered(r)
  BY GatherIter
<1>. DEFINE T == {S \in SUBSET (Ranks \ {r}) : Grows(object[r].data, g[S].data)}
<1>2. {} \in T
  BY <1>1 DEF Gathering, Grows
<1>3. ASSUME NEW S \in SUBSET (Ranks \ {r}), S # {}, S \ {h[S]} \in T PROVE S \in T
  <2>1. PICK s \in S, o \in Objects, u \in Objects : Gathers(g, h, r, S, s, o, u)
    BY <1>1, <1>3, GatherStep
  <2>2. Grows(object[r].data, o.data)
    BY <1>3, <2>1 DEF Gathers
  <2>3. Grows(o.data, u.data)
    <3>1. s \in Ranks /\ u = ApplyChanges(o, s)
      BY <2>1 DEF Gathers
    <3>2. CASE ~object[s].made
      BY <3>1, <3>2 DEF ApplyChanges, Grows
    <3>3. CASE object[s].made
      <4>1. PICK n : n = SizeOf(object[s])
        OBVIOUS
      <4>2. PICK d : d = Declared(o, n, object[s].verify)
        OBVIOUS
      <4>3. d \in Objects /\ DeclareResult(o, d, n, object[s].verify)
        BY <3>1, <4>2, ObjectFacts, DeclareFields
      <4>4. PICK e : e = [d EXCEPT !.made = TRUE]
        OBVIOUS
      <4>5. e \in Objects /\ e.data = d.data
        BY <4>3, <4>4 DEF Objects
      <4>6. PICK c \in Seq(Keys \X Values) : c = object[s].changes /\ c = <<>> /\ Len(c) = 0
        BY <3>1, ObjectFacts DEF NothingChanges
      <4>7. PICK t : Trace(t, e, c) /\ t[Len(c)] = FoldLeft(UpdateWrite, e, c)
        BY <4>5, WriteIter
      <4>8. u = FoldLeft(UpdateWrite, e, c)
        BY <3>1, <3>3, <4>1, <4>2, <4>4, <4>6 DEF ApplyChanges
      <4>9. t[Len(c)] = e
        BY <4>6, <4>7 DEF Trace
      <4>10. u.data = d.data
        BY <4>5, <4>7, <4>8, <4>9
      <4>. QED  BY <4>3, <4>10 DEF DeclareResult, Grows
    <3>. QED  BY <3>2, <3>3
  <2>4. Grows(object[r].data, u.data)
    BY <2>2, <2>3 DEF Grows
  <2>. QED  BY <2>1, <2>4 DEF Gathers
<1>4. \A S \in SUBSET (Ranks \ {r}) : S \in T
  <2>1. Inductive(T, h, Ranks \ {r})
    BY <1>2, <1>3 DEF Inductive
  <2>. HIDE DEF T
  <2>. QED  BY <1>1, <2>1, GatherInduction
<1>5. Ranks \ {r} \in SUBSET (Ranks \ {r})
  OBVIOUS
<1>. QED  BY <1>1, <1>4, <1>5

LEMMA PublishedStays ==
    ASSUME SharedType, CountsInd, PublishedInd, SharedAction,
           NEW r \in Ranks, object[r].fully, ~object[r].locked, NoNewcomer,
           NEW s \in Ranks
    PROVE  Grows(object[s].data, object'[s].data)
<1>0. NothingChanges /\ \A p \in known : instance[p] = "published"
  BY DEF PublishedInd, NothingChanges
<1>1. CASE UNCHANGED svars
  BY <1>1 DEF svars, Grows
<1>2. CASE UpdateMeans
  <2>1. object'[s].data = Gathered(s).data
    BY <1>2 DEF UpdateMeans
  <2>. QED  BY <1>0, <2>1, GatherGrows
<1>3. ASSUME NEW p \in Sharers, NEW q \in Ranks, NEW n \in Nat, NEW v, InitializeMeans(p, q, n, v)
      PROVE  Grows(object[s].data, object'[s].data)
  <2>1. CASE s # q
    BY <1>3, <2>1 DEF InitializeMeans, OnlyAt, Grows
  <2>2. CASE s = q
    BY <1>3, <2>2 DEF InitializeMeans, Grows
  <2>. QED  BY <2>1, <2>2
<1>4. ASSUME NEW p \in Sharers, NEW q \in Ranks, PublishMeans(p, q)
      PROVE  Grows(object[s].data, object'[s].data)
  BY <1>4 DEF PublishMeans, OnlyAt, Grows
<1>5. ASSUME NEW p \in Sharers, NEW q \in Ranks, NEW k \in Keys, NEW v \in Values,
             WriteMeans(p, q, k, v)
      PROVE  Grows(object[s].data, object'[s].data)
  <2>1. instance[p] = "published"
    BY <1>0, <1>5 DEF WriteMeans, NoNewcomer
  <2>. QED  BY <1>5, <2>1 DEF WriteMeans, OnlyAt, Grows
<1>. QED  BY <1>1, <1>2, <1>3, <1>4, <1>5 DEF SharedAction

(***************************************************************************)
(* A component that sees isFullyPublished() has all data: what is in the   *)
(* object on any rank changes no more, unless an instance was initialized  *)
(* since the last updateState.                                             *)
(***************************************************************************)
THEOREM PublishedMeansFinal == SharedSpec => PublishedIsFinal
<1>. DEFINE A == \A r, s \in Ranks : object[r].fully /\ ~object[r].locked =>
                    \/ \A k \in Keys : object[s].data[k] \in {None, object'[s].data[k]}
                    \/ \E p \in Sharers \ known : instance[p] # "none"
<1>1. ASSUME PublishInv, [SharedNext]_allvars PROVE [A]_allvars
  <2>. SUFFICES ASSUME ~UNCHANGED allvars PROVE A
    OBVIOUS
  <2>1. ~Fatal
    BY <1>1, FatalIsLast DEF FatalStops
  <2>2. SharedType /\ CountsInd /\ PublishedInd
    BY <1>1, <2>1 DEF PublishInv
  <2>3. SharedAction
    BY <1>1, <2>2, ActionCases
  <2>4. ASSUME NEW r \in Ranks, NEW s \in Ranks, object[r].fully, ~object[r].locked, NoNewcomer
        PROVE  \A k \in Keys : object[s].data[k] \in {None, object'[s].data[k]}
    <3>1. Grows(object[s].data, object'[s].data)
      BY <2>2, <2>3, <2>4, PublishedStays
    <3>. QED  BY <3>1 DEF Grows
  <2>. QED  BY <2>4 DEF NoNewcomer
<1>. QED  BY <1>1, PublishAlways, PTL DEF SharedSpec, PublishedIsFinal

-----------------------------------------------------------------------------
(* What an exchange that is not fatal means for all ranks. *)
Exchanged ==
    /\ \A k \in Keys : \A r, s \in Ranks :
        Pending(s, k) => object'[r].data[k] = object[s].data[k] /\ k \in object'[r].written
    /\ \A r, s \in Ranks : object[s].verify # Uninitialized => object'[r].verify = object[s].verify
    /\ \A k \in Keys : (\A s \in Ranks : ~Pending(s, k)) => \A r \in Ranks :
        object'[r].data[k] = IF /\ kind = "array" /\ object[r].data[k] = None
                               /\ \E s \in Ranks : object[s].data[k] # None
                            THEN 0 ELSE object[r].data[k]
    /\ \A r \in Ranks :
        /\ object[r].written \subseteq object'[r].written
        /\ \/ object'[r].verify = Uninitialized /\ \A s \in Ranks : object[s].verify = Uninitialized
           \/ object'[r].made /\ \E s \in Ranks : object[s].verify = object'[r].verify

LEMMA ExchangeMeans ==
    ASSUME SharedType, ContentInd, UpdateMeans, ~Fatal'
    PROVE  Exchanged
<1>0. Consistent /\ LogInd /\ AgreeInd
  BY DEF Consistent, ContentInd
<1>1. NoneFatal
  BY DEF UpdateMeans, Fatal, NoneFatal
<1>2. ASSUME NEW r \in Ranks
      PROVE  /\ GatherVerify(object'[r], r, Ranks \ {r})
             /\ object[r].written \subseteq object'[r].written
             /\ \A s \in Ranks \ {r} : \A k \in Keys : Pending(s, k) => k \in object'[r].written
             /\ GatherData(object'[r], r, Ranks \ {r})
  <2>1. GatherVerify(Gathered(r), r, Ranks \ {r}) /\ GatherStable(Gathered(r), r, Ranks \ {r})
    BY <1>0, <1>1, GatherStableAll DEF NoneFatal
  <2>2. GatherData(Gathered(r), r, Ranks \ {r})
    BY <1>0, <1>1, GatherDataAll
  <2>3. /\ object'[r].verify = Gathered(r).verify /\ object'[r].data = Gathered(r).data
        /\ object'[r].written = Gathered(r).written /\ object'[r].made = Gathered(r).made
    BY DEF UpdateMeans
  <2>. QED  BY <2>1, <2>2, <2>3 DEF GatherVerify, GatherStable, GatherData
<1>6. ASSUME NEW r \in Ranks, NEW s \in Ranks, object[s].verify # Uninitialized
      PROVE  object'[r].verify = object[s].verify
  BY <1>2, <1>6 DEF GatherVerify
<1>3. ASSUME NEW k \in Keys, NEW r \in Ranks, NEW s \in Ranks
      PROVE  Pending(s, k) => object'[r].data[k] = object[s].data[k] /\ k \in object'[r].written
  <2>2. Pending(s, k) => object'[r].data[k] = object[s].data[k]
    BY <1>2 DEF GatherData
  <2>3. Pending(s, k) => k \in object'[r].written
    BY <1>0, <1>2, PendingFacts
  <2>. QED  BY <2>2, <2>3
<1>4. ASSUME NEW k \in Keys, \A s \in Ranks : ~Pending(s, k), NEW r \in Ranks
      PROVE  object'[r].data[k] = IF /\ kind = "array" /\ object[r].data[k] = None
                                    /\ \E s \in Ranks : object[s].data[k] # None
                                 THEN 0 ELSE object[r].data[k]
  <2>1. object'[r].data[k] = IF /\ kind = "array" /\ object[r].data[k] = None
                               /\ \E s \in Ranks \ {r} : object[s].data[k] # None
                            THEN 0 ELSE object[r].data[k]
    BY <1>2, <1>4 DEF GatherData
  <2>. QED  BY <2>1
<1>5. ASSUME NEW r \in Ranks
      PROVE  \/ object'[r].verify = Uninitialized /\ \A s \in Ranks : object[s].verify = Uninitialized
             \/ object'[r].made /\ \E s \in Ranks : object[s].verify = object'[r].verify
  BY <1>2 DEF GatherVerify
<1>. QED  BY <1>2, <1>3, <1>4, <1>5, <1>6 DEF Exchanged

LEMMA ExchangeEqual ==
    ASSUME SharedType, ContentInd, UpdateMeans, Exchanged, NEW k \in Keys
    PROVE  /\ \A r, s \in Ranks : object'[r].data[k] = object'[s].data[k]
           /\ \A r \in Ranks : object'[r].data[k] # None => \E s \in Ranks : object[s].data[k] # None
           /\ \A r, s \in Ranks : kind = "array" /\ object[s].data[k] # None =>
                object'[r].data[k] # None
<1>0. Consistent
  BY DEF Consistent, ContentInd
<1>1. CASE \E s \in Ranks : Pending(s, k)
  <2>1. PICK s \in Ranks : Pending(s, k)
    BY <1>1
  <2>2. \A r \in Ranks : object'[r].data[k] = object[s].data[k]
    BY <2>1 DEF Exchanged
  <2>3. object[s].data[k] # None
    BY <1>0, <2>1, PendingFacts, SharedFacts
  <2>. QED  BY <2>2, <2>3
<1>2. CASE \A s \in Ranks : ~Pending(s, k)
  <2>1. \A r \in Ranks : object'[r].data[k] =
                            IF /\ kind = "array" /\ object[r].data[k] = None
                               /\ \E s \in Ranks : object[s].data[k] # None
                            THEN 0 ELSE object[r].data[k]
    BY <1>2 DEF Exchanged
  <2>2. ASSUME NEW r \in Ranks, NEW s \in Ranks
        PROVE  \/ object[r].data[k] = object[s].data[k]
               \/ kind = "array" /\ {object[r].data[k], object[s].data[k]} = {None, 0}
    <3>1. ~Pending(r, k) /\ ~Pending(s, k)
      BY <1>2
    <3>2. AgreeInd
      BY DEF ContentInd
    <3>. QED  BY <3>1, <3>2 DEF AgreeInd
  <2>3. ASSUME NEW r \in Ranks, NEW s \in Ranks PROVE object'[r].data[k] = object'[s].data[k]
    <3>1. CASE object[r].data[k] = object[s].data[k]
      BY <2>1, <3>1
    <3>2. CASE kind = "array" /\ object[r].data[k] = None /\ object[s].data[k] = 0
      BY <2>1, <3>2 DEF None
    <3>3. CASE kind = "array" /\ object[r].data[k] = 0 /\ object[s].data[k] = None
      BY <2>1, <3>3 DEF None
    <3>4. \/ object[r].data[k] = object[s].data[k]
          \/ kind = "array" /\ {object[r].data[k], object[s].data[k]} = {None, 0}
      BY <2>2
    <3>. QED  BY <3>1, <3>2, <3>3, <3>4 DEF None
  <2>4. \A r \in Ranks : object'[r].data[k] # None => \E s \in Ranks : object[s].data[k] # None
    BY <2>1
  <2>5. ASSUME NEW r \in Ranks, NEW s \in Ranks, kind = "array", object[s].data[k] # None
        PROVE  object'[r].data[k] # None
    <3>1. object'[r].data[k] = IF object[r].data[k] = None THEN 0 ELSE object[r].data[k]
      BY <2>1, <2>5
    <3>. QED  BY <3>1 DEF None
  <2>. QED  BY <2>3, <2>4, <2>5
<1>. QED  BY <1>1, <1>2

LEMMA LogFacts ==
    ASSUME SharedType
    PROVE  /\ Len(log) \in Nat /\ DOMAIN log = 1 .. Len(log)
           /\ \A i \in DOMAIN log : /\ log[i][1] \in Sharers /\ log[i][2] \in Keys
                                   /\ log[i][3] \in Values /\ RankOf[log[i][1]] \in Ranks
<1>1. log \in Seq(Sharers \X Keys \X Values)
  BY DEF SharedType
<1>2. \A i \in 1 .. Len(log) : log[i] \in Sharers \X Keys \X Values
  BY <1>1, ElementOfSeq
<1>3. ASSUME NEW i \in 1 .. Len(log)
      PROVE  log[i][1] \in Sharers /\ log[i][2] \in Keys /\ log[i][3] \in Values
  BY <1>2
<1>. QED  BY <1>1, <1>3, SharedFacts

LEMMA UpdateKept ==
    ASSUME SharedType, ContentInd, UpdateMeans, Exchanged, NEW i \in DOMAIN log, NEW r \in Ranks
    PROVE  Kept(r, i)'
<1>0. Consistent /\ log' = log /\ kind' = kind
  BY DEF Consistent, ContentInd, UpdateMeans
<1>1. PICK k \in Keys, v \in Values, q \in Ranks : k = log[i][2] /\ v = log[i][3] /\ q = RankOf[log[i][1]]
  BY LogFacts
<1>2. v # None
  BY SharedFacts
<1>. DEFINE Keeps(x) ==
        \/ object[x].data[k] = v /\ (kind = "array" /\ object[x].verify = "FE_VERIFY" => k \in object[x].written)
        \/ kind = "array" /\ object[x].verify = "INIT_VERIFY" /\ v = 0
        \/ object[x].verify = "NO_VERIFY" /\ \E j \in DOMAIN log : j > i /\ log[j][2] = k
<1>3. \A x \in Ranks : Keeps(x) \/ (x # q /\ Pending(q, k))
  BY <1>1 DEF ContentInd, KeptInd, Kept
<1>4. Kept(r, i)' <=>
        \/ object'[r].data[k] = v /\ (kind = "array" /\ object'[r].verify = "FE_VERIFY" => k \in object'[r].written)
        \/ kind = "array" /\ object'[r].verify = "INIT_VERIFY" /\ v = 0
        \/ object'[r].verify = "NO_VERIFY" /\ \E j \in DOMAIN log : j > i /\ log[j][2] = k
  BY <1>0, <1>1 DEF Kept
<1>5. \A x \in Ranks : object[x].verify \in {"INIT_VERIFY", "NO_VERIFY"} => object'[r].verify = object[x].verify
  BY DEF Exchanged, Uninitialized
<1>6. CASE \E s \in Ranks : Pending(s, k)
  <2>1. PICK s \in Ranks : Pending(s, k)
    BY <1>6
  <2>2. PICK x \in Ranks : Keeps(x) /\ Pending(x, k)
    <3>1. CASE Pending(q, k)
      BY <1>3, <3>1
    <3>2. CASE ~Pending(q, k)
      BY <1>3, <2>1, <3>2
    <3>. QED  BY <3>1, <3>2
  <2>3. object'[r].data[k] = object[x].data[k] /\ k \in object'[r].written
    BY <2>2 DEF Exchanged
  <2>. HIDE DEF Kept
  <2>. QED  BY <1>4, <1>5, <2>2, <2>3
<1>7. CASE \A s \in Ranks : ~Pending(s, k)
  <2>1. Keeps(r)
    BY <1>3, <1>7
  <2>2. object[r].data[k] = v => object'[r].data[k] = v
    BY <1>2, <1>7 DEF Exchanged
  <2>3. object[r].data[k] = v => object'[r].verify = object[r].verify
    BY <1>2 DEF Exchanged, ContentInd, EmptyInd
  <2>4. object[r].written \subseteq object'[r].written
    BY DEF Exchanged
  <2>. QED  BY <1>4, <1>5, <2>1, <2>2, <2>3, <2>4
<1>. QED  BY <1>6, <1>7

LEMMA ContentUpdate ==
    ASSUME SharedType, SharedType', ContentInd, UpdateMeans, ~Fatal'
    PROVE  ContentInd'
<1>0. Consistent /\ log' = log /\ kind' = kind /\ Exchanged /\ instance' = instance
  BY ExchangeMeans DEF Consistent, ContentInd, UpdateMeans
<1>1. \A r \in Ranks : object'[r].changes = <<>>
  BY DEF UpdateMeans
<1>2. \A r \in Ranks, k \in Keys : ~Pending(r, k)'
  BY <1>1 DEF Pending, Waiting
<1>3. EmptyInd'
  <2>1. ASSUME NEW r \in Ranks, ~object'[r].made PROVE object'[r].verify = Uninitialized
    BY <1>0, <2>1 DEF Exchanged
  <2>2. ASSUME NEW r \in Ranks, object'[r].verify = Uninitialized, NEW k \in Keys
        PROVE  object'[r].data[k] = None
    <3>1. \A s \in Ranks : object[s].verify = Uninitialized
      BY <1>0, <2>2 DEF Exchanged
    <3>2. \A s \in Ranks : object[s].data[k] = None
      BY <3>1 DEF ContentInd, EmptyInd
    <3>. QED  BY <1>0, <3>2, ExchangeEqual
  <2>. QED  BY <1>1, <2>1, <2>2 DEF EmptyInd
<1>4. DeclaredInd'
  <2>1. ASSUME NEW p \in Sharers, kind # "array", instance[p] # "none"
        PROVE  object'[RankOf[p]].verify # Uninitialized
    <3>1. RankOf[p] \in Ranks /\ object[RankOf[p]].verify # Uninitialized
      BY <2>1, SharedFacts DEF ContentInd, DeclaredInd
    <3>. QED  BY <1>0, <3>1 DEF Exchanged
  <2>. QED  BY <1>0, <2>1 DEF DeclaredInd
<1>5. LengthInd'
  <2>. SUFFICES ASSUME NEW r \in Ranks, kind = "array", NEW k \in Keys, NEW l \in Keys,
                       k <= l, object'[r].data[l] # None
                PROVE  object'[r].data[k] # None
    BY <1>0 DEF LengthInd
  <2>1. PICK s \in Ranks : object[s].data[l] # None
    BY <1>0, ExchangeEqual
  <2>2. object[s].data[k] # None
    BY <2>1 DEF ContentInd, LengthInd
  <2>. QED  BY <1>0, <2>2, ExchangeEqual
<1>6. ChangesInd'
  BY <1>1 DEF ChangesInd
<1>7. AgreeInd'
  BY <1>0, <1>2, ExchangeEqual DEF AgreeInd
<1>8. LogInd'
  <2>1. ASSUME NEW i \in DOMAIN log, NEW q, q = RankOf[log[i][1]]
        PROVE  q \in Ranks /\ object[q].verify # Uninitialized /\ object'[q].verify = object[q].verify
    <3>1. q \in Ranks /\ object[q].verify # Uninitialized
      BY <2>1, LogFacts DEF ContentInd, LogInd
    <3>2. \E k : k \in Keys
      BY LogFacts
    <3>. QED  BY <1>0, <3>1, <3>2 DEF Exchanged
  <2>2. ASSUME kind # "array", NEW r \in Ranks, NEW k \in Keys, object'[r].data[k] # None
        PROVE  \E i \in DOMAIN log : log[i][2] = k
    <3>1. PICK s \in Ranks : object[s].data[k] # None
      BY <1>0, <2>2, ExchangeEqual
    <3>. QED  BY <2>2, <3>1 DEF ContentInd, LogInd
  <2>3. ASSUME NEW i \in DOMAIN log, NEW j \in DOMAIN log, i < j, log[i][2] = log[j][2],
               object'[RankOf[log[j][1]]].verify = "NO_VERIFY"
        PROVE  kind = "array" /\ log[i][1] = log[j][1]
    BY <2>1, <2>3 DEF ContentInd, LogInd
  <2>. QED  BY <1>0, <2>1, <2>2, <2>3 DEF LogInd
<1>9. KeptInd'
  <2>1. \A i \in DOMAIN log, r \in Ranks : Kept(r, i)'
    BY <1>0, UpdateKept
  <2>. QED  BY <1>0, <2>1 DEF KeptInd
<1>10. SettledInd'
  <2>1. ASSUME NEW r \in Ranks, NEW s \in Ranks
        PROVE  object'[r].data = object'[s].data /\ object'[r].verify = object'[s].verify
    <3>1. \A k \in Keys : object'[r].data[k] = object'[s].data[k]
      BY <1>0, ExchangeEqual
    <3>2. PICK o \in Objects, u \in Objects : o = object'[r] /\ u = object'[s]
      BY DEF SharedType
    <3>6. o.data \in [Keys -> Values \cup {None}] /\ u.data \in [Keys -> Values \cup {None}]
      BY DEF Objects
    <3>7. \A k \in Keys : o.data[k] = u.data[k]
      BY <3>1, <3>2
    <3>8. o.data = u.data
      BY <3>6, <3>7
    <3>3. object'[r].data = object'[s].data
      BY <3>2, <3>8
    <3>4. CASE \A q \in Ranks : object[q].verify = Uninitialized
      BY <1>0, <3>3, <3>4 DEF Exchanged
    <3>5. CASE \E q \in Ranks : object[q].verify # Uninitialized
      BY <1>0, <3>3, <3>5, SharedFacts DEF Exchanged
    <3>. QED  BY <3>4, <3>5
  <2>. QED  BY <1>1, <2>1 DEF SettledInd
<1>. QED  BY <1>3, <1>4, <1>5, <1>6, <1>7, <1>8, <1>9, <1>10 DEF ContentInd

-----------------------------------------------------------------------------
(* What a write that is not fatal does, to the rank's data and to the log. *)
Written(p, r, k, v) ==
    /\ r \in Ranks /\ r = RankOf[p] /\ kind' = kind /\ instance' = instance /\ settled' = FALSE
    /\ \A s \in Ranks : s # r => object'[s] = object[s]
    /\ object'[r].made = object[r].made /\ object'[r].verify = object[r].verify
    /\ object[r].verify # Uninitialized
    /\ object'[r].written = object[r].written \cup {k}
    /\ \A l \in Keys : l # k => object'[r].data[l] = object[r].data[l]
    /\ object'[r].data[k] = v /\ v # None
    /\ ~Conflict(object[r], k, v)
    /\ IF kind = "array" THEN object[r].data[k] # None ELSE object[r].data[k] \in {None, v}
    /\ AddResult(object'[r].changes, object[r].changes, k, v)

Logged(p, k, v) ==
    /\ DOMAIN log = 1 .. Len(log) /\ Len(log) \in Nat
    /\ DOMAIN log' = 1 .. Len(log) + 1
    /\ \A i \in DOMAIN log : i \in DOMAIN log' /\ log'[i] = log[i]
    /\ log'[Len(log) + 1][1] = p /\ log'[Len(log) + 1][2] = k /\ log'[Len(log) + 1][3] = v

LEMMA WriteFacts ==
    ASSUME SharedType, ContentInd, ~InPlace, NEW p \in Sharers, NEW r \in Ranks,
           NEW k \in Keys, NEW v \in Values, WriteMeans(p, r, k, v), ~Fatal'
    PROVE  Written(p, r, k, v) /\ Logged(p, k, v)
<1>1. ~object'[r].fatal
  BY DEF Fatal
<1>2. /\ WriteResult(object[r], object'[r], k, v)
      /\ AddResult(object'[r].changes, object[r].changes, k, v)
  BY <1>1 DEF WriteMeans
<1>3. ~Conflict(object[r], k, v)
  BY <1>1, <1>2 DEF WriteResult
<1>4. v # None /\ r = RankOf[p]
  BY SharedFacts DEF WriteMeans
<1>5. kind = "array" => object[r].data[k] # None
  BY <1>4 DEF WriteMeans, MayWrite
<1>6. ASSUME kind # "array" PROVE object[r].data[k] \in {None, v}
  <2>1. CASE object[r].verify = "NO_VERIFY"
    <3>1. {i \in DOMAIN log : log[i][2] = k} = {}
      BY <1>4, <1>6, <2>1 DEF WriteMeans, MayWrite
    <3>2. ~\E i \in DOMAIN log : log[i][2] = k
      BY <3>1
    <3>. QED  BY <1>6, <3>2 DEF ContentInd, LogInd
  <2>2. CASE object[r].verify # "NO_VERIFY"
    BY <1>3, <1>6, <2>2 DEF Conflict
  <2>. QED  BY <2>1, <2>2
<1>7. object[r].verify # Uninitialized
  <2>1. CASE kind = "array"
    BY <1>5, <2>1 DEF ContentInd, EmptyInd
  <2>2. CASE kind # "array"
    BY <1>4, <2>2 DEF ContentInd, DeclaredInd, WriteMeans
  <2>. QED  BY <2>1, <2>2
<1>8. Written(p, r, k, v)
  <2>1. object'[r].data[k] = v
    BY <1>2, <1>3, <1>6 DEF WriteResult
  <2>. QED  BY <1>2, <1>3, <1>4, <1>5, <1>6, <1>7, <2>1 DEF Written, WriteResult, WriteMeans, OnlyAt
<1>9. Logged(p, k, v)
  <2>0. PICK x : x = <<p, k, v>>
    OBVIOUS
  <2>1. x \in Sharers \X Keys \X Values /\ x = <<p, k, v>> /\ x[1] = p /\ x[2] = k /\ x[3] = v
    BY <2>0
  <2>2. log' = Append(log, x) /\ log \in Seq(Sharers \X Keys \X Values)
    BY <2>1 DEF WriteMeans, SharedType
  <2>3. /\ Len(log') = Len(log) + 1 /\ log'[Len(log) + 1] = x
        /\ \A i \in 1 .. Len(log) : log'[i] = log[i]
    BY <2>2
  <2>4. DOMAIN log = 1 .. Len(log) /\ Len(log) \in Nat /\ DOMAIN log' = 1 .. Len(log) + 1
    BY <2>2
  <2>. QED  BY <2>1, <2>3, <2>4 DEF Logged
<1>. QED  BY <1>8, <1>9

(* The change set then holds the key, unless there is only this rank. *)
LEMMA WritePending ==
    ASSUME SharedType, SharedType', ContentInd, NEW p, NEW r \in Ranks, NEW k \in Keys, NEW v,
           Written(p, r, k, v)
    PROVE  /\ \A s \in Ranks, l \in Keys : Pending(s, l) => Pending(s, l)'
           /\ \A s \in Ranks, l \in Keys : s # r \/ l # k => (Pending(s, l)' => Pending(s, l))
           /\ \A s \in Ranks : s # r => Pending(r, k)'
<1>1. PICK c : c = object[r].changes
  OBVIOUS
<1>2. PICK a : a = object'[r].changes
  OBVIOUS
<1>3. AddResult(a, c, k, v)
  BY <1>1, <1>2 DEF Written
<1>4. ASSUME NEW s \in Ranks, s # r PROVE Cardinality(Ranks) # 1
  <2>1. Cardinality({r}) = 1 /\ IsFiniteSet({r})
    BY FS_Singleton
  <2>2. {r} \in SUBSET Ranks /\ {r} # Ranks /\ IsFiniteSet(Ranks)
    BY <1>4, SharedFacts
  <2>. QED  BY <2>1, <2>2, FS_Subset
<1>5. \A s \in Ranks : s # r => Pending(r, k)'
  BY <1>2, <1>3, <1>4 DEF AddResult, Pending, Waiting
<1>6. \A s \in Ranks, l \in Keys : s # r => (Pending(s, l)' <=> Pending(s, l))
  BY DEF Written, Pending, Waiting
<1>7. ASSUME NEW l \in Keys, Pending(r, l) PROVE Pending(r, l)'
  <2>1. PICK j \in DOMAIN c : c[j][1] = l
    BY <1>1, <1>7 DEF Pending, Waiting
  <2>2. PICK i \in DOMAIN a : a[i][1] = l
    BY <1>3, <2>1 DEF AddResult
  <2>. QED  BY <1>2, <2>2 DEF Pending, Waiting
<1>8. ASSUME NEW l \in Keys, l # k, Pending(r, l)' PROVE Pending(r, l)
  <2>1. PICK i \in DOMAIN a : a[i][1] = l
    BY <1>2, <1>8 DEF Pending, Waiting
  <2>2. a[i] # <<k, v>>
    BY <1>8, <2>1
  <2>3. PICK j \in DOMAIN c : a[i] = c[j]
    BY <1>3, <2>2 DEF AddResult
  <2>. QED  BY <1>1, <2>1, <2>3 DEF Pending, Waiting
<1>. QED  BY <1>5, <1>6, <1>7, <1>8

LEMMA WriteChanges ==
    ASSUME SharedType, SharedType', ContentInd, NEW p, NEW r \in Ranks, NEW k \in Keys,
           NEW v \in Values, Written(p, r, k, v), Logged(p, k, v)
    PROVE  ChangesInd'
<1>. DEFINE Good(s, i) ==
        LET x == object[s].changes[i]
        IN  /\ Latest(s, i) \/ kind # "array" => object[s].data[x[1]] = x[2]
            /\ x[1] \in object[s].written /\ object[s].data[x[1]] # None
            /\ \E j \in DOMAIN log : log[j][2] = x[1] /\ RankOf[log[j][1]] = s
<1>0. /\ \A s \in Ranks : \A i \in DOMAIN object[s].changes : Good(s, i)
      /\ kind' = kind /\ r = RankOf[p]
  BY DEF ContentInd, ChangesInd, Written
<1>1. ASSUME NEW s \in Ranks, NEW l, \E j \in DOMAIN log : log[j][2] = l /\ RankOf[log[j][1]] = s
      PROVE  \E j \in DOMAIN log' : log'[j][2] = l /\ RankOf[log'[j][1]] = s
  BY <1>1 DEF Logged
<1>2. ASSUME NEW s \in Ranks, s # r, NEW i \in DOMAIN object'[s].changes PROVE Good(s, i)'
  <2>1. object'[s] = object[s]
    BY <1>2 DEF Written
  <2>2. Latest(s, i)' <=> Latest(s, i)
    BY <2>1 DEF Latest
  <2>3. Good(s, i)
    BY <1>0, <1>2, <2>1
  <2>. QED  BY <1>0, <1>1, <2>1, <2>2, <2>3
<1>3. PICK c : c = object[r].changes
  OBVIOUS
<1>4. PICK a : a = object'[r].changes
  OBVIOUS
<1>5. AddResult(a, c, k, v) /\ DOMAIN c = 1 .. Len(c) /\ Len(c) \in Nat /\ DOMAIN a = 1 .. Len(a)
  BY <1>3, <1>4, ObjectFacts DEF Written, AddResult
<1>6. k \in object'[r].written /\ object'[r].data[k] = v /\ v # None
      /\ \E j \in DOMAIN log' : log'[j][2] = k /\ RankOf[log'[j][1]] = r
  <2>1. Len(log) + 1 \in DOMAIN log'
    BY DEF Logged
  <2>. QED  BY <1>0, <2>1 DEF Written, Logged
<1>7. ASSUME NEW i \in DOMAIN a, a[i] = <<k, v>> PROVE Good(r, i)'
  <2>1. a[i][1] = k /\ a[i][2] = v
    BY <1>7
  <2>. QED  BY <1>4, <1>6, <2>1
<1>8. ASSUME NEW i \in DOMAIN a, a[i] # <<k, v>> PROVE Good(r, i)'
  <2>1. PICK j \in DOMAIN c : a[i] = c[j] /\ (kind = "array" => j = i)
    <3>1. CASE kind = "array" /\ Cardinality(Ranks) # 1
      <4>1. Len(a) = Len(c) + 1 /\ a[Len(a)] = <<k, v>> /\ \A m \in 1 .. Len(c) : a[m] = c[m]
        BY <1>5, <3>1 DEF AddResult
      <4>2. i \in 1 .. Len(c)
        BY <1>5, <1>8, <4>1
      <4>. QED  BY <1>5, <4>1, <4>2
    <3>2. CASE kind = "array" /\ Cardinality(Ranks) = 1
      BY <1>5, <3>2 DEF AddResult
    <3>3. CASE kind # "array"
      BY <1>5, <1>8, <3>3 DEF AddResult
    <3>. QED  BY <3>1, <3>2, <3>3
  <2>2. PICK l \in Keys, w \in Values : l = c[j][1] /\ w = c[j][2]
    BY <1>3, <1>5, ObjectFacts, ElementOfSeq
  <2>3. /\ Latest(r, j) \/ kind # "array" => object[r].data[l] = w
        /\ l \in object[r].written /\ object[r].data[l] # None
        /\ \E m \in DOMAIN log : log[m][2] = l /\ RankOf[log[m][1]] = r
    BY <1>0, <1>3, <2>2
  <2>4. l \in object'[r].written /\ \E m \in DOMAIN log' : log'[m][2] = l /\ RankOf[log'[m][1]] = r
    BY <1>1, <2>3 DEF Written
  <2>5. CASE l # k
    <3>1. object'[r].data[l] = object[r].data[l]
      BY <2>5 DEF Written
    <3>2. kind = "array" /\ Latest(r, i)' => Latest(r, j)
      <4>1. ASSUME kind = "array", Latest(r, i)' PROVE Latest(r, j)
        <5>1. \A m \in DOMAIN c : m \in DOMAIN a /\ a[m] = c[m]
          <6>1. CASE Cardinality(Ranks) = 1
            BY <1>5, <6>1 DEF AddResult
          <6>2. CASE Cardinality(Ranks) # 1
            <7>1. Len(a) = Len(c) + 1 /\ \A m \in 1 .. Len(c) : a[m] = c[m]
              BY <1>5, <4>1, <6>2 DEF AddResult
            <7>. QED  BY <1>5, <7>1
          <6>. QED  BY <6>1, <6>2
        <5>. QED  BY <1>3, <1>4, <2>1, <4>1, <5>1 DEF Latest
      <4>. QED  BY <4>1
    <3>3. Latest(r, i)' \/ kind # "array" => object'[r].data[l] = w
      BY <2>3, <3>1, <3>2
    <3>. QED  BY <1>0, <1>4, <2>1, <2>2, <2>3, <2>4, <3>1, <3>3
  <2>6. CASE l = k
    <3>1. kind = "array" => ~Latest(r, i)'
      <4>1. ASSUME kind = "array" PROVE ~Latest(r, i)'
        <5>1. Cardinality(Ranks) # 1
          BY <1>3, <1>5, ObjectFacts DEF ContentInd, EmptyInd
        <5>2. Len(a) = Len(c) + 1 /\ a[Len(a)] = <<k, v>>
          BY <1>5, <4>1, <5>1 DEF AddResult
        <5>3. Len(a) \in DOMAIN a /\ Len(a) > i /\ a[Len(a)][1] = a[i][1]
          BY <1>5, <2>1, <2>2, <2>6, <4>1, <5>2
        <5>. QED  BY <1>4, <5>3 DEF Latest
      <4>. QED  BY <4>1
    <3>2. kind # "array" => w = v
      BY <2>3, <2>6 DEF Written
    <3>3. Latest(r, i)' \/ kind # "array" => object'[r].data[l] = w
      BY <1>6, <2>6, <3>1, <3>2
    <3>. QED  BY <1>0, <1>4, <1>6, <2>1, <2>2, <2>4, <2>6, <3>3
  <2>. QED  BY <2>5, <2>6
<1>9. \A s \in Ranks : \A i \in DOMAIN object'[s].changes : Good(s, i)'
  <2>. HIDE DEF Good
  <2>. QED  BY <1>2, <1>4, <1>7, <1>8
<1>. QED  BY <1>9 DEF ChangesInd

LEMMA WriteAgree ==
    ASSUME SharedType, SharedType', ContentInd, NEW p, NEW r \in Ranks, NEW k \in Keys,
           NEW v \in Values, Written(p, r, k, v)
    PROVE  AgreeInd'
<1>1. ASSUME NEW l \in Keys, NEW x \in Ranks, NEW y \in Ranks, x # y, ~Pending(x, l)'
      PROVE  /\ ~Pending(y, l)' =>
                    \/ object'[x].data[l] = object'[y].data[l]
                    \/ kind = "array" /\ {object'[x].data[l], object'[y].data[l]} = {None, 0}
             /\ Pending(y, l)' /\ kind # "array" => object'[x].data[l] \in {None, object'[y].data[l]}
  <2>1. ~Pending(x, l)
    BY <1>1, WritePending
  <2>2. /\ ~Pending(y, l) => \/ object[x].data[l] = object[y].data[l]
                             \/ kind = "array" /\ {object[x].data[l], object[y].data[l]} = {None, 0}
        /\ Pending(y, l) /\ kind # "array" => object[x].data[l] \in {None, object[y].data[l]}
    BY <2>1 DEF ContentInd, AgreeInd
  <2>3. CASE l # k \/ (x # r /\ y # r)
    <3>1. object'[x].data[l] = object[x].data[l] /\ object'[y].data[l] = object[y].data[l]
      BY <2>3 DEF Written
    <3>2. Pending(y, l)' <=> Pending(y, l)
      <4>1. y # r \/ l # k
        BY <2>3
      <4>2. Pending(y, l) => Pending(y, l)'
        BY WritePending
      <4>3. Pending(y, l)' => Pending(y, l)
        BY <4>1, WritePending
      <4>. QED  BY <4>2, <4>3
    <3>. QED  BY <2>2, <3>1, <3>2
  <2>4. CASE l = k /\ x = r
    BY <1>1, <2>4, WritePending
  <2>5. CASE l = k /\ y = r
    <3>1. object'[x].data[l] = object[x].data[l] /\ object'[y].data[l] = v
      BY <1>1, <2>5 DEF Written
    <3>3. Pending(y, l)'
      <4>1. Pending(r, k)'
        BY <1>1, <2>5, WritePending
      <4>. QED  BY <2>5, <4>1 DEF Pending, Waiting
    <3>2. kind # "array" => object[y].data[l] \in {None, v}
      BY <2>5 DEF Written
    <3>. QED  BY <2>2, <3>1, <3>2, <3>3
  <2>. QED  BY <2>3, <2>4, <2>5
<1>2. ASSUME NEW l \in Keys, NEW x \in Ranks, NEW y \in Ranks, x = y, ~Pending(x, l)'
      PROVE  object'[x].data[l] = object'[y].data[l] /\ ~Pending(y, l)'
  BY <1>2
<1>3. kind' = kind
  BY DEF Written
<1>. QED  BY <1>1, <1>2, <1>3 DEF AgreeInd

LEMMA WriteLog ==
    ASSUME SharedType, SharedType', ContentInd, ~InPlace, NEW p, NEW r \in Ranks, NEW k \in Keys,
           NEW v \in Values, Written(p, r, k, v), Logged(p, k, v), MayWrite(p, k)
    PROVE  LogInd'
<1>1. /\ r = RankOf[p] /\ kind' = kind
      /\ object[r].verify # Uninitialized
      /\ \A s \in Ranks : object'[s].verify = object[s].verify
  BY DEF Written
<1>2. \A i \in DOMAIN log' : i \in DOMAIN log \/ i = Len(log) + 1
  BY DEF Logged
<1>3. ASSUME NEW i \in DOMAIN log'
      PROVE  RankOf[log'[i][1]] \in Ranks /\ object[RankOf[log'[i][1]]].verify # Uninitialized
  <2>1. CASE i \in DOMAIN log
    <3>1. log'[i] = log[i] /\ RankOf[log[i][1]] \in Ranks
      BY <2>1, LogFacts DEF Logged
    <3>. QED  BY <2>1, <3>1 DEF ContentInd, LogInd
  <2>2. CASE i = Len(log) + 1
    BY <1>1, <2>2 DEF Logged
  <2>. QED  BY <1>2, <2>1, <2>2
<1>4. ASSUME NEW i \in DOMAIN log', NEW j \in DOMAIN log', i < j, log'[i][2] = log'[j][2],
             object'[RankOf[log'[j][1]]].verify = "NO_VERIFY"
      PROVE  kind = "array" /\ log'[i][1] = log'[j][1]
  <2>0. object[RankOf[log'[j][1]]].verify = "NO_VERIFY"
    BY <1>1, <1>3, <1>4
  <2>1. i \in DOMAIN log /\ log'[i] = log[i]
    BY <1>2, <1>4 DEF Logged
  <2>2. CASE j \in DOMAIN log
    <3>1. log'[j] = log[j]
      BY <2>2 DEF Logged
    <3>. QED  BY <1>4, <2>0, <2>1, <2>2, <3>1 DEF ContentInd, LogInd
  <2>3. CASE j = Len(log) + 1
    <3>1. log'[j][1] = p /\ log'[j][2] = k
      BY <2>3 DEF Logged
    <3>2. i \in {m \in DOMAIN log : log[m][2] = k}
      BY <1>4, <2>1, <3>1
    <3>3. object[RankOf[p]].verify = "NO_VERIFY"
      BY <2>0, <3>1
    <3>. QED  BY <2>1, <3>1, <3>2, <3>3 DEF MayWrite
  <2>. QED  BY <1>2, <2>2, <2>3
<1>5. ASSUME kind # "array", NEW s \in Ranks, NEW l \in Keys, object'[s].data[l] # None
      PROVE  \E i \in DOMAIN log' : log'[i][2] = l
  <2>1. CASE s = r /\ l = k
    <3>1. Len(log) + 1 \in DOMAIN log' /\ log'[Len(log) + 1][2] = k
      BY DEF Logged
    <3>. QED  BY <2>1, <3>1
  <2>2. CASE ~(s = r /\ l = k)
    <3>1. object'[s].data[l] = object[s].data[l]
      BY <2>2 DEF Written
    <3>2. PICK i \in DOMAIN log : log[i][2] = l
      BY <1>5, <3>1 DEF ContentInd, LogInd
    <3>. QED  BY <3>2 DEF Logged
  <2>. QED  BY <2>1, <2>2
<1>. QED  BY <1>1, <1>3, <1>4, <1>5 DEF LogInd

LEMMA WriteKept ==
    ASSUME SharedType, SharedType', ContentInd, NEW p, NEW r \in Ranks, NEW k \in Keys,
           NEW v \in Values, Written(p, r, k, v), Logged(p, k, v)
    PROVE  KeptInd'
<1>. DEFINE Keeps(x, i, l, w) ==
        \/ object[x].data[l] = w /\ (kind = "array" /\ object[x].verify = "FE_VERIFY" => l \in object[x].written)
        \/ kind = "array" /\ object[x].verify = "INIT_VERIFY" /\ w = 0
        \/ object[x].verify = "NO_VERIFY" /\ \E j \in DOMAIN log : j > i /\ log[j][2] = l
<1>1. /\ r = RankOf[p] /\ kind' = kind /\ object'[r].data[k] = v /\ k \in object'[r].written
      /\ object[r].written \subseteq object'[r].written
      /\ \A s \in Ranks : object'[s].verify = object[s].verify
  BY DEF Written
<1>2. \A i \in DOMAIN log' : i \in DOMAIN log \/ i = Len(log) + 1
  BY DEF Logged
<1>3. ASSUME NEW i, i = Len(log) + 1, NEW x \in Ranks
      PROVE  (Kept(x, i) \/ (x # RankOf[log[i][1]] /\ Pending(RankOf[log[i][1]], log[i][2])))'
  <2>1. log'[i][1] = p /\ log'[i][2] = k /\ log'[i][3] = v
    BY <1>3 DEF Logged
  <2>2. CASE x = r
    BY <1>1, <2>1, <2>2 DEF Kept
  <2>3. CASE x # r
    <3>1. Pending(r, k)'
      BY <2>3, WritePending
    <3>. QED  BY <1>1, <2>1, <2>3, <3>1 DEF Pending, Waiting
  <2>. QED  BY <2>2, <2>3
<1>4. ASSUME NEW i \in DOMAIN log, NEW x \in Ranks
      PROVE  (Kept(x, i) \/ (x # RankOf[log[i][1]] /\ Pending(RankOf[log[i][1]], log[i][2])))'
  <2>1. PICK l \in Keys, w \in Values, q \in Ranks :
            l = log[i][2] /\ w = log[i][3] /\ q = RankOf[log[i][1]]
    BY LogFacts
  <2>2. log'[i] = log[i] /\ i \in DOMAIN log'
    BY DEF Logged
  <2>3. Keeps(x, i, l, w) \/ (x # q /\ Pending(q, l))
    BY <2>1 DEF ContentInd, KeptInd, Kept
  <2>4. (\E j \in DOMAIN log : j > i /\ log[j][2] = l) => \E j \in DOMAIN log' : j > i /\ log'[j][2] = l
    BY DEF Logged
  <2>5. Pending(q, l) => Pending(q, l)'
    BY WritePending
  <2>6. Keeps(x, i, l, w) => Keeps(x, i, l, w)'
    <3>1. CASE x # r \/ l # k
      <4>1. object'[x].data[l] = object[x].data[l] /\ object[x].written \subseteq object'[x].written
        BY <3>1 DEF Written
      <4>. QED  BY <1>1, <2>4, <4>1
    <3>2. CASE x = r /\ l = k /\ v = w
      BY <1>1, <3>2
    <3>3. CASE x = r /\ l = k /\ v # w
      <4>1. kind # "array" => object[x].data[l] # w
        <5>1. w # None
          BY SharedFacts
        <5>. QED  BY <3>3, <5>1 DEF Written
      <4>2. object[r].verify \in {"FE_VERIFY", "INIT_VERIFY", "NO_VERIFY"}
        BY ObjectFacts, SharedFacts DEF Written, Objects
      <4>3. object[x].verify = "NO_VERIFY" => \E j \in DOMAIN log' : j > i /\ log'[j][2] = l
        <5>1. Len(log) + 1 \in DOMAIN log' /\ Len(log) + 1 > i /\ log'[Len(log) + 1][2] = k
          BY DEF Logged
        <5>. QED  BY <3>3, <5>1
      <4>4. kind = "array" /\ object[x].data[l] = w /\ object[x].verify = "FE_VERIFY" /\ l \in object[x].written => FALSE
        BY <3>3 DEF Written, Conflict
      <4>5. kind = "array" /\ object[x].data[l] = w /\ object[x].verify = "INIT_VERIFY" => w = 0
        BY <3>3 DEF Written, Conflict
      <4>. QED  BY <1>1, <3>3, <4>1, <4>2, <4>3, <4>4, <4>5
    <3>. QED  BY <3>1, <3>2, <3>3
  <2>7. Keeps(x, i, l, w)' => Kept(x, i)'
    BY <2>1, <2>2 DEF Kept
  <2>8. log'[i][2] = l /\ RankOf[log'[i][1]] = q
    BY <2>1, <2>2
  <2>. HIDE DEF Keeps
  <2>9. CASE Keeps(x, i, l, w)
    BY <2>6, <2>7, <2>9
  <2>10. CASE x # q /\ Pending(q, l)
    <3>1. Pending(q, l)'
      BY <2>5, <2>10
    <3>. QED  BY <2>8, <2>10, <3>1 DEF Pending, Waiting
  <2>. QED  BY <2>3, <2>9, <2>10
<1>. QED  BY <1>2, <1>3, <1>4 DEF KeptInd

LEMMA ContentWrite ==
    ASSUME SharedType, SharedType', ContentInd, ~InPlace, NEW p \in Sharers, NEW r \in Ranks,
           NEW k \in Keys, NEW v \in Values, WriteMeans(p, r, k, v), ~Fatal'
    PROVE  ContentInd'
<1>1. Written(p, r, k, v) /\ Logged(p, k, v) /\ MayWrite(p, k)
  BY WriteFacts DEF WriteMeans
<1>2. \A s \in Ranks : object'[s].verify = object[s].verify /\ object'[s].made = object[s].made
  BY <1>1 DEF Written
<1>3. EmptyInd'
  <2>1. ASSUME NEW s \in Ranks
        PROVE  /\ Cardinality(Ranks) = 1 => object'[s].changes = <<>>
               /\ ~object'[s].made => object'[s].verify = Uninitialized
               /\ object'[s].verify = Uninitialized =>
                    object'[s].changes = <<>> /\ \A l \in Keys : object'[s].data[l] = None
    <3>1. CASE s # r
      BY <1>1, <3>1 DEF Written, ContentInd, EmptyInd
    <3>2. CASE s = r
      BY <1>1, <3>2 DEF Written, AddResult, ContentInd, EmptyInd
    <3>. QED  BY <3>1, <3>2
  <2>. QED  BY <2>1 DEF EmptyInd
<1>4. DeclaredInd'
  <2>1. kind' = kind /\ instance' = instance /\ \A q \in Sharers : RankOf[q] \in Ranks
    BY <1>1, SharedFacts DEF Written
  <2>. QED  BY <1>2, <2>1 DEF ContentInd, DeclaredInd
<1>5. LengthInd'
  <2>1. ASSUME kind = "array", NEW s \in Ranks, NEW l \in Keys
        PROVE  object'[s].data[l] # None <=> object[s].data[l] # None
    BY <1>1, <2>1 DEF Written
  <2>2. kind' = kind
    BY <1>1 DEF Written
  <2>. QED  BY <2>1, <2>2 DEF ContentInd, LengthInd
<1>6. ChangesInd'
  BY <1>1, WriteChanges
<1>7. AgreeInd'
  BY <1>1, WriteAgree
<1>8. LogInd'
  BY <1>1, WriteLog
<1>9. KeptInd'
  BY <1>1, WriteKept
<1>10. SettledInd'
  BY <1>1 DEF Written, SettledInd
<1>. QED  BY <1>3, <1>4, <1>5, <1>6, <1>7, <1>8, <1>9, <1>10 DEF ContentInd

LEMMA ContentInitialize ==
    ASSUME SharedType, SharedType', ContentInd, NEW p \in Sharers, NEW r \in Ranks, NEW n \in Nat,
           NEW v \in Verify \cup {Uninitialized}, InitializeMeans(p, r, n, v),
           v = Uninitialized => kind = "array", ~Fatal'
    PROVE  ContentInd'
<1>0. kind' = kind /\ log' = log /\ r = RankOf[p] /\ 0 # None
  BY DEF InitializeMeans, None
<1>1. ~object'[r].fatal
  BY DEF Fatal
<1>2. /\ object'[r].made
      /\ object'[r].verify = IF v = Uninitialized THEN object[r].verify ELSE v
      /\ v = Uninitialized \/ object[r].verify \in {Uninitialized, v}
      /\ \A k \in Keys : object'[r].data[k] =
                    IF v # Uninitialized /\ kind = "array" /\ k <= n /\ object[r].data[k] = None THEN 0
                    ELSE object[r].data[k]
  BY <1>1 DEF InitializeMeans
<1>3. ASSUME NEW s \in Ranks
      PROVE  /\ object'[s].changes = object[s].changes /\ object'[s].written = object[s].written
             /\ object[s].verify # Uninitialized => object'[s].verify = object[s].verify
             /\ \A k \in Keys : object[s].data[k] # None => object'[s].data[k] = object[s].data[k]
             /\ \A k \in Keys : \/ object'[s].data[k] = object[s].data[k]
                                \/ kind = "array" /\ object'[s].data[k] = 0
  <2>1. CASE s # r
    BY <2>1 DEF InitializeMeans, OnlyAt
  <2>2. CASE s = r
    BY <1>2, <2>2 DEF InitializeMeans
  <2>. QED  BY <2>1, <2>2
<1>4. \A s \in Ranks, k \in Keys : Pending(s, k)' <=> Pending(s, k)
  BY <1>3 DEF Pending, Waiting
<1>5. EmptyInd'
  <2>1. ASSUME NEW s \in Ranks
        PROVE  /\ Cardinality(Ranks) = 1 => object'[s].changes = <<>>
               /\ ~object'[s].made => object'[s].verify = Uninitialized
               /\ object'[s].verify = Uninitialized =>
                    object'[s].changes = <<>> /\ \A k \in Keys : object'[s].data[k] = None
    <3>1. CASE s # r
      BY <3>1 DEF InitializeMeans, OnlyAt, ContentInd, EmptyInd
    <3>2. CASE s = r
      BY <1>2, <1>3, <3>2 DEF ContentInd, EmptyInd
    <3>. QED  BY <3>1, <3>2
  <2>. QED  BY <2>1 DEF EmptyInd
<1>6. DeclaredInd'
  <2>1. ASSUME kind # "array", NEW q \in Sharers, instance'[q] # "none"
        PROVE  object'[RankOf[q]].verify # Uninitialized
    <3>1. CASE q = p
      BY <1>0, <1>2, <2>1, <3>1
    <3>2. CASE q # p
      <4>1. instance[q] # "none" /\ RankOf[q] \in Ranks
        BY <2>1, <3>2, SharedFacts DEF InitializeMeans, SharedType
      <4>2. object[RankOf[q]].verify # Uninitialized
        BY <2>1, <4>1 DEF ContentInd, DeclaredInd
      <4>. QED  BY <1>3, <4>1, <4>2
    <3>. QED  BY <3>1, <3>2
  <2>. QED  BY <1>0, <2>1 DEF DeclaredInd
<1>7. LengthInd'
  <2>1. ASSUME NEW s \in Ranks, kind = "array", NEW k \in Keys, NEW l \in Keys,
               k <= l, object'[s].data[l] # None
        PROVE  object'[s].data[k] # None
    <3>1. CASE object[s].data[l] # None
      <4>1. object[s].data[k] # None
        BY <2>1, <3>1 DEF ContentInd, LengthInd
      <4>. QED  BY <1>3, <4>1
    <3>2. CASE object[s].data[l] = None
      <4>1. s = r
        BY <2>1, <3>2 DEF InitializeMeans, OnlyAt
      <4>2. v # Uninitialized /\ l <= n
        BY <1>2, <2>1, <3>2, <4>1
      <4>3. k \in Nat /\ l \in Nat
        BY SharedFacts
      <4>4. k <= n
        BY <2>1, <4>2, <4>3
      <4>. QED  BY <1>0, <1>2, <2>1, <4>1, <4>2, <4>4
    <3>. QED  BY <3>1, <3>2
  <2>. QED  BY <1>0, <2>1 DEF LengthInd
<1>8. ChangesInd'
  <2>1. ASSUME NEW s \in Ranks, NEW i \in DOMAIN object[s].changes, NEW x, x = object[s].changes[i]
        PROVE  /\ Latest(s, i) \/ kind # "array" => object'[s].data[x[1]] = x[2]
               /\ x[1] \in object'[s].written /\ object'[s].data[x[1]] # None
               /\ \E j \in DOMAIN log : log[j][2] = x[1] /\ RankOf[log[j][1]] = s
    <3>1. /\ Latest(s, i) \/ kind # "array" => object[s].data[x[1]] = x[2]
          /\ x[1] \in object[s].written /\ object[s].data[x[1]] # None
          /\ \E j \in DOMAIN log : log[j][2] = x[1] /\ RankOf[log[j][1]] = s
      BY <2>1 DEF ContentInd, ChangesInd
    <3>2. x[1] \in Keys
      <4>1. object[s].changes \in Seq(Keys \X Values) /\ i \in 1 .. Len(object[s].changes)
        BY ObjectFacts
      <4>. QED  BY <2>1, <4>1, ElementOfSeq
    <3>. QED  BY <1>3, <3>1, <3>2
  <2>2. \A s \in Ranks : \A i \in DOMAIN object[s].changes : Latest(s, i)' <=> Latest(s, i)
    BY <1>3 DEF Latest
  <2>. QED  BY <1>0, <1>3, <2>1, <2>2 DEF ChangesInd
<1>9. AgreeInd'
  <2>1. ASSUME NEW k \in Keys, NEW x \in Ranks, NEW y \in Ranks, ~Pending(x, k)
        PROVE  /\ ~Pending(y, k) =>
                    \/ object'[x].data[k] = object'[y].data[k]
                    \/ kind = "array" /\ {object'[x].data[k], object'[y].data[k]} = {None, 0}
               /\ Pending(y, k) /\ kind # "array" => object'[x].data[k] \in {None, object'[y].data[k]}
    <3>1. /\ ~Pending(y, k) => \/ object[x].data[k] = object[y].data[k]
                               \/ kind = "array" /\ {object[x].data[k], object[y].data[k]} = {None, 0}
          /\ Pending(y, k) /\ kind # "array" => object[x].data[k] \in {None, object[y].data[k]}
      BY <2>1 DEF ContentInd, AgreeInd
    <3>2. CASE kind # "array"
      <4>1. object'[x].data[k] = object[x].data[k] /\ object'[y].data[k] = object[y].data[k]
        BY <1>3, <3>2
      <4>. QED  BY <3>1, <4>1
    <3>3. CASE kind = "array" /\ ~Pending(y, k)
      <4>1. object[x].data[k] # None => object'[x].data[k] = object[x].data[k]
        BY <1>3
      <4>2. object[y].data[k] # None => object'[y].data[k] = object[y].data[k]
        BY <1>3
      <4>3. object[x].data[k] = None => object'[x].data[k] \in {None, 0}
        BY <1>3
      <4>4. object[y].data[k] = None => object'[y].data[k] \in {None, 0}
        BY <1>3
      <4>5. \/ object[x].data[k] = object[y].data[k]
            \/ object[x].data[k] = None /\ object[y].data[k] = 0
            \/ object[x].data[k] = 0 /\ object[y].data[k] = None
        BY <3>1, <3>3
      <4>. QED  BY <1>0, <3>3, <4>1, <4>2, <4>3, <4>4, <4>5
    <3>. QED  BY <3>2, <3>3
  <2>. QED  BY <1>0, <1>4, <2>1 DEF AgreeInd
<1>10. LogInd'
  <2>1. ASSUME NEW i \in DOMAIN log, NEW q, q = RankOf[log[i][1]]
        PROVE  object[q].verify # Uninitialized /\ object'[q].verify = object[q].verify
    <3>1. q \in Ranks /\ object[q].verify # Uninitialized
      BY <2>1, LogFacts DEF ContentInd, LogInd
    <3>. QED  BY <1>3, <3>1
  <2>2. ASSUME kind # "array", NEW s \in Ranks, NEW k \in Keys, object'[s].data[k] # None
        PROVE  \E i \in DOMAIN log : log[i][2] = k
    <3>1. object[s].data[k] # None
      BY <1>3, <2>2
    <3>. QED  BY <2>2, <3>1 DEF ContentInd, LogInd
  <2>3. ASSUME NEW i \in DOMAIN log, NEW j \in DOMAIN log, i < j, log[i][2] = log[j][2],
               object'[RankOf[log[j][1]]].verify = "NO_VERIFY"
        PROVE  kind = "array" /\ log[i][1] = log[j][1]
    BY <2>1, <2>3 DEF ContentInd, LogInd
  <2>. QED  BY <1>0, <2>1, <2>2, <2>3 DEF LogInd
<1>11. KeptInd'
  <2>1. ASSUME NEW i \in DOMAIN log, NEW s \in Ranks, Kept(s, i) PROVE Kept(s, i)'
    <3>1. PICK k \in Keys, w \in Values : k = log[i][2] /\ w = log[i][3] /\ w # None
      BY LogFacts, SharedFacts
    <3>2. object[s].verify = Uninitialized => object[s].data[k] = None
      BY DEF ContentInd, EmptyInd
    <3>3. object[s].data[k] = w => object'[s].data[k] = w /\ object'[s].verify = object[s].verify
      BY <1>3, <3>1, <3>2
    <3>4. object[s].verify \in {"INIT_VERIFY", "NO_VERIFY"} => object'[s].verify = object[s].verify
      BY <1>3 DEF Uninitialized
    <3>5. object'[s].written = object[s].written
      BY <1>3
    <3>. QED  BY <1>0, <2>1, <3>1, <3>3, <3>4, <3>5 DEF Kept
  <2>2. \A i \in DOMAIN log : log[i][2] \in Keys /\ RankOf[log[i][1]] \in Ranks
    BY LogFacts
  <2>3. ASSUME NEW i \in DOMAIN log, NEW s \in Ranks
        PROVE  Kept(s, i)' \/ (s # RankOf[log[i][1]] /\ Pending(RankOf[log[i][1]], log[i][2]))
    BY <2>1 DEF ContentInd, KeptInd
  <2>4. ASSUME NEW i \in DOMAIN log, Pending(RankOf[log[i][1]], log[i][2])
        PROVE  Pending(RankOf[log[i][1]], log[i][2])'
    <3>1. PICK q \in Ranks, k \in Keys : q = RankOf[log[i][1]] /\ k = log[i][2]
      BY <2>2
    <3>2. Pending(q, k)'
      BY <1>4, <2>4, <3>1
    <3>. QED  BY <1>0, <3>1, <3>2 DEF Pending, Waiting
  <2>. QED  BY <1>0, <2>3, <2>4 DEF KeptInd
<1>12. SettledInd'
  BY DEF InitializeMeans, SettledInd
<1>. QED  BY <1>5, <1>6, <1>7, <1>8, <1>9, <1>10, <1>11, <1>12 DEF ContentInd

LEMMA ContentSame ==
    ASSUME SharedType, ContentInd, kind' = kind, log' = log,
           \A s \in Ranks : /\ object'[s].made = object[s].made /\ object'[s].verify = object[s].verify
                            /\ object'[s].data = object[s].data /\ object'[s].changes = object[s].changes
                            /\ object'[s].written = object[s].written,
           \A q \in Sharers : instance'[q] # "none" => instance[q] # "none",
           settled' => settled
    PROVE  ContentInd'
<1>1. \A q \in Sharers : RankOf[q] \in Ranks
  BY SharedFacts
<1>2. \A i \in DOMAIN log : RankOf[log[i][1]] \in Ranks /\ log[i][2] \in Keys
  BY LogFacts
<1>3. EmptyInd' /\ DeclaredInd' /\ LengthInd'
  BY <1>1 DEF ContentInd, EmptyInd, DeclaredInd, LengthInd
<1>4. ChangesInd'
  <2>1. \A s \in Ranks : \A i \in DOMAIN object[s].changes : Latest(s, i)' <=> Latest(s, i)
    BY DEF Latest
  <2>. QED  BY <2>1 DEF ContentInd, ChangesInd
<1>5. \A s \in Ranks, k \in Keys : Pending(s, k)' <=> Pending(s, k)
  BY DEF Pending, Waiting
<1>6. AgreeInd'
  BY <1>5 DEF ContentInd, AgreeInd
<1>7. LogInd'
  BY <1>2 DEF ContentInd, LogInd
<1>8. KeptInd'
  <2>1. ASSUME NEW i \in DOMAIN log, NEW s \in Ranks PROVE Kept(s, i)' <=> Kept(s, i)
    BY DEF Kept
  <2>2. ASSUME NEW i \in DOMAIN log, Pending(RankOf[log[i][1]], log[i][2])
        PROVE  Pending(RankOf[log[i][1]], log[i][2])'
    BY <1>2, <2>2 DEF Pending, Waiting
  <2>. QED  BY <2>1, <2>2 DEF ContentInd, KeptInd
<1>9. SettledInd'
  BY DEF ContentInd, SettledInd
<1>. QED  BY <1>3, <1>4, <1>6, <1>7, <1>8, <1>9 DEF ContentInd

LEMMA ContentStep ==
    ASSUME SharedType, SharedType', ContentInd, SharedAction, ~InPlace, ~Fatal'
    PROVE  ContentInd'
<1>1. CASE UNCHANGED svars
  BY <1>1, ContentSame DEF svars
<1>2. CASE UpdateMeans
  BY <1>2, ContentUpdate
<1>3. ASSUME NEW p \in Sharers, NEW r \in Ranks, NEW n \in Nat, NEW v \in Verify \cup {Uninitialized},
             InitializeMeans(p, r, n, v), v = Uninitialized => kind = "array"
      PROVE  ContentInd'
  BY <1>3, ContentInitialize
<1>4. ASSUME NEW p \in Sharers, NEW r \in Ranks, PublishMeans(p, r) PROVE ContentInd'
  <2>1. \A s \in Ranks :
            /\ object'[s].made = object[s].made /\ object'[s].verify = object[s].verify
            /\ object'[s].data = object[s].data /\ object'[s].changes = object[s].changes
            /\ object'[s].written = object[s].written
    <3>1. PICK o \in Objects : o = object'[r]
      BY <1>4 DEF PublishMeans, OnlyAt
    <3>2. [o EXCEPT !.publish = object[r].publish].changes = o.changes
      BY DEF Objects
    <3>. QED  BY <1>4, <3>1, <3>2 DEF PublishMeans, Frame, OnlyAt
  <2>2. \A q \in Sharers : instance'[q] # "none" => instance[q] # "none"
    BY <1>4 DEF PublishMeans, SharedType
  <2>3. kind' = kind /\ log' = log /\ settled' = FALSE
    BY <1>4 DEF PublishMeans
  <2>. QED  BY <2>1, <2>2, <2>3, ContentSame
<1>5. ASSUME NEW p \in Sharers, NEW r \in Ranks, NEW k \in Keys, NEW v \in Values,
             WriteMeans(p, r, k, v)
      PROVE  ContentInd'
  BY <1>5, ContentWrite
<1>. QED  BY <1>1, <1>2, <1>3, <1>4, <1>5 DEF SharedAction

LEMMA ContentInit == ASSUME SharedInit PROVE ContentInd
<1>1. \A r \in Ranks :
        /\ object[r].made = FALSE /\ object[r].verify = Uninitialized /\ object[r].changes = <<>>
        /\ \A k \in Keys : object[r].data[k] = None
  BY DEF SharedInit, NoObject
<1>2. \A r, s \in Ranks : object[r].data = object[s].data
  BY DEF SharedInit
<1>3. DOMAIN log = {}
  BY DEF SharedInit
<1>4. \A r \in Ranks : DOMAIN object[r].changes = {}
  BY <1>1
<1>5. EmptyInd /\ LengthInd /\ SettledInd
  BY <1>1, <1>2 DEF EmptyInd, LengthInd, SettledInd
<1>6. DeclaredInd
  BY DEF DeclaredInd, SharedInit
<1>7. ChangesInd
  BY <1>4 DEF ChangesInd
<1>8. AgreeInd
  <2>1. \A r \in Ranks, k \in Keys : ~Pending(r, k)
    BY <1>4 DEF Pending, Waiting
  <2>. QED  BY <1>2, <2>1 DEF AgreeInd
<1>9. LogInd /\ KeptInd
  BY <1>1, <1>3 DEF LogInd, KeptInd
<1>. QED  BY <1>5, <1>6, <1>7, <1>8, <1>9 DEF ContentInd

LEMMA ContentAlways == ASSUME ~InPlace PROVE SharedSpec => []ContentInv
<1>1. ASSUME SharedInit PROVE ContentInv
  BY <1>1, TypeInit, ContentInit DEF ContentInv
<1>2. ASSUME ContentInv, [SharedNext]_allvars PROVE ContentInv'
  <2>1. CASE Fatal
    <3>1. UNCHANGED allvars
      BY <1>2, <2>1, FatalIsLast DEF FatalStops
    <3>. QED  BY <2>1, <3>1 DEF ContentInv, Fatal, allvars, svars
  <2>2. CASE ~Fatal /\ ~Fatal'
    <3>1. SharedType /\ ContentInd
      BY <1>2, <2>2 DEF ContentInv
    <3>2. SharedAction
      BY <1>2, <3>1, ActionCases
    <3>3. SharedType'
      BY <3>1, <3>2, TypeStep
    <3>. QED  BY <2>2, <3>1, <3>2, <3>3, ContentStep DEF ContentInv
  <2>3. CASE Fatal'
    BY <2>3 DEF ContentInv
  <2>. QED  BY <2>1, <2>2, <2>3
<1>. QED  BY <1>1, <1>2, PTL DEF SharedSpec

(***************************************************************************)
(* After an updateState all ranks hold the same, and every write: with     *)
(* FE_VERIFY each value, with INIT_VERIFY each but init_value, without     *)
(* verification the last one of each key.  InPlace is excluded: a map that *)
(* is not verified and written twice at a key keeps the first value on the *)
(* writing rank and sends the second to the others, which TLC shows.       *)
(***************************************************************************)
THEOREM ExchangedIsSame == ASSUME ~InPlace PROVE SharedSpec => []SameContents
<1>1. ASSUME ContentInv PROVE SameContents
  <2>. SUFFICES ASSUME settled, ~Fatal, NEW r \in Ranks, NEW s \in Ranks, NEW i \in DOMAIN log
       PROVE  /\ object[r].data = object[s].data
              /\ LET k == log[i][2]
                     v == log[i][3]
                 IN  \/ object[r].data[k] = v
                     \/ kind = "array" /\ object[r].verify = "INIT_VERIFY" /\ v = 0
                     \/ object[r].verify = "NO_VERIFY" /\ \E j \in DOMAIN log : j > i /\ log[j][2] = k
    <3>1. ASSUME settled, ~Fatal, NEW r \in Ranks, NEW s \in Ranks
          PROVE  object[r].data = object[s].data
      BY <1>1, <3>1 DEF ContentInv, ContentInd, SettledInd
    <3>. QED  BY <3>1 DEF SameContents
  <2>1. SharedType /\ ContentInd
    BY <1>1 DEF ContentInv
  <2>2. object[r].data = object[s].data
    BY <2>1 DEF ContentInd, SettledInd
  <2>3. RankOf[log[i][1]] \in Ranks
    BY <2>1, LogFacts
  <2>4. ~Pending(RankOf[log[i][1]], log[i][2])
    BY <2>1, <2>3 DEF ContentInd, SettledInd, Pending, Waiting
  <2>5. Kept(r, i)
    BY <2>1, <2>4 DEF ContentInd, KeptInd
  <2>. QED  BY <2>2, <2>5 DEF Kept
<1>2. ContentInv => SameContents
  BY <1>1
<1>. QED  BY <1>2, ContentAlways, PTL
=============================================================================
