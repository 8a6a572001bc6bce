------------------------- MODULE ThreadSharedProofs -------------------------
(***************************************************************************)
(* What the threads of a rank and the processes of a node share keeps its  *)
(* promises, for any number of threads, processes, messages, cells, slots  *)
(* and items: the barrier holds back every thread in every round; the      *)
(* bounded queue keeps its elements in order and gives a cell to one       *)
(* thread at a time; the memory pools lose no item and hand none out       *)
(* twice; the end time is the one of the last component; and the tunnel    *)
(* gives every slot to one process at a time.                              *)
(***************************************************************************)
EXTENDS Barrier, BoundedQueue, MemPool, Tunnel, Exit, FoldLemmas, SequenceTheorems

-----------------------------------------------------------------------------
(* The barrier. *)

(* Incrementing changes generation: that is what a spinning thread sees. *)
LEMMA IncrementedDiffers ==
    ASSUME NEW g \in 0 .. GenMax
    PROVE  Incremented(g) \in 0 .. GenMax /\ Incremented(g) # g
  BY GenAssumption DEF Incremented

LEMMA OrigCountType == origCount \in Nat /\ origCount >= 1
<1>1. origCount \in Nat
  BY ThreadAssumption, FS_CardinalityType DEF origCount
<1>2. origCount # 0
  BY ThreadAssumption, FS_EmptySet DEF origCount
<1>. QED  BY <1>1, <1>2

(* The threads a round has collected are finitely many. *)
LEMMA WaitingFinite ==
    /\ IsFiniteSet(Waiting) /\ Cardinality(Waiting) \in Nat
    /\ Cardinality(Waiting) <= origCount
<1>1. Waiting \subseteq Thread
  BY DEF Waiting
<1>. QED  BY <1>1, ThreadAssumption, FS_Subset, FS_CardinalityType DEF origCount

LEMMA InitInv == ASSUME Init PROVE BarrierInv
<1>1. TypeOK
  <2>1. /\ count \in 0 .. origCount /\ generation \in 0 .. GenMax /\ released \in Nat
        /\ pc \in [Thread -> PC] /\ gen \in [Thread -> 0 .. GenMax]
        /\ entered \in [Thread -> Nat] /\ left \in [Thread -> Nat]
    BY GenAssumption, OrigCountType DEF Init, PC
  <2>2. enabled \in BOOLEAN
    BY DEF Init
  <2>. QED  BY <2>1, <2>2 DEF TypeOK
<1>2. RoundInv
  BY DEF Init, RoundInv
<1>3. CountInv
  BY Zenon DEF Init, CountInv
<1>. QED  BY <1>1, <1>2, <1>3 DEF BarrierInv

LEMMA ResizeInv == ASSUME BarrierInv, Resize PROVE BarrierInv'
<1>. USE OrigCountType
<1>1. TypeOK'
  BY GenAssumption DEF BarrierInv, TypeOK, Resize
<1>2. RoundInv'
  BY DEF BarrierInv, RoundInv, Resize, TypeOK, PC
<1>3. CountInv'
  <2>1. Waiting' = {}
    BY DEF Waiting, Resize
  <2>2. Cardinality(Waiting') = 0
    BY <2>1, FS_EmptySet
  <2>. QED  BY <2>2 DEF CountInv, Resize
<1>. QED  BY <1>1, <1>2, <1>3 DEF BarrierInv

LEMMA LoadGenerationInv ==
    ASSUME BarrierInv, NEW t \in Thread, LoadGeneration(t) PROVE BarrierInv'
<1>. USE OrigCountType
<1>1. TypeOK'
  BY DEF BarrierInv, TypeOK, LoadGeneration, PC
<1>2. RoundInv'
  BY DEF BarrierInv, RoundInv, LoadGeneration, TypeOK, PC
<1>3. CountInv'
  <2>1. Waiting' = Waiting
    BY DEF Waiting, LoadGeneration, BarrierInv, TypeOK
  <2>2. /\ enabled /\ \A u \in Thread : pc[u] \notin {"store", "increment"}
        /\ count >= 1 /\ count + Cardinality(Waiting) = origCount
    BY DEF BarrierInv, CountInv, LoadGeneration, Waiting
  <2>3. \A u \in Thread : pc'[u] \notin {"store", "increment"}
    BY <2>2 DEF LoadGeneration, BarrierInv, TypeOK
  <2>. QED  BY <2>1, <2>2, <2>3 DEF CountInv, LoadGeneration
<1>. QED  BY <1>1, <1>2, <1>3 DEF BarrierInv

LEMMA FetchSubInv ==
    ASSUME BarrierInv, NEW t \in Thread, FetchSub(t) PROVE BarrierInv'
<1>. USE OrigCountType, WaitingFinite
<1>1. /\ enabled /\ \A u \in Thread : pc[u] \notin {"store", "increment"}
      /\ count >= 1 /\ count + Cardinality(Waiting) = origCount
  BY DEF BarrierInv, CountInv, FetchSub, Waiting
<1>2. /\ count' = count - 1 /\ pc[t] = "subtract"
      /\ UNCHANGED <<enabled, generation, gen, entered, left, released>>
      /\ count \in 0 .. origCount
      /\ pc' = [pc EXCEPT ![t] = IF count' = 0 THEN "store" ELSE "spin"]
      /\ pc \in [Thread -> PC]
  BY DEF FetchSub, BarrierInv, TypeOK
<1>3. TypeOK'
  BY <1>1, <1>2 DEF BarrierInv, TypeOK, PC
<1>4. RoundInv'
  BY <1>2 DEF BarrierInv, RoundInv, TypeOK, PC
<1>5. t \notin Waiting /\ gen[t] = generation
  BY <1>2 DEF Waiting, BarrierInv, RoundInv
<1>6. CountInv'
  <2>1. CASE count' = 0
    <3>1. Waiting' = Waiting
      BY <1>2, <2>1 DEF Waiting
    <3>2. /\ Waiting \subseteq Thread \ {t}
          /\ IsFiniteSet(Thread \ {t}) /\ Cardinality(Thread \ {t}) = origCount - 1
      BY <1>5, ThreadAssumption, FS_RemoveElement DEF Waiting, origCount
    <3>3. Cardinality(Waiting) = origCount - 1
      BY <1>1, <1>2, <2>1
    <3>4. Waiting = Thread \ {t}
      BY <3>2, <3>3, FS_Subset
    <3>. QED  BY <1>1, <1>2, <2>1, <3>1, <3>4 DEF CountInv
  <2>2. CASE count' # 0
    <3>1. Waiting' = Waiting \cup {t}
      BY <1>2, <1>5, <2>2 DEF Waiting
    <3>2. Cardinality(Waiting') = Cardinality(Waiting) + 1
      BY <1>5, <3>1, FS_AddElement
    <3>3. \A u \in Thread : pc'[u] \notin {"store", "increment"}
      BY <1>1, <1>2, <2>2
    <3>. QED  BY <1>1, <1>2, <2>2, <3>2, <3>3 DEF CountInv
  <2>. QED  BY <2>1, <2>2
<1>. QED  BY <1>3, <1>4, <1>6 DEF BarrierInv

(* While a thread releases the others, all of them wait in this round. *)
LEMMA ReleaserIsAlone ==
    ASSUME BarrierInv, NEW t \in Thread, pc[t] \in {"store", "increment"}
    PROVE  /\ enabled /\ Waiting = Thread \ {t}
           /\ pc[t] = "increment" => count = origCount
           /\ \A u \in Thread : u # t => pc[u] = "spin" /\ gen[u] = generation
  BY DEF BarrierInv, CountInv, Waiting

LEMMA StoreCountInv ==
    ASSUME BarrierInv, NEW t \in Thread, StoreCount(t) PROVE BarrierInv'
<1>. USE OrigCountType
<1>1. TypeOK'
  BY DEF BarrierInv, TypeOK, StoreCount, PC
<1>2. RoundInv'
  BY DEF BarrierInv, RoundInv, StoreCount, TypeOK, PC
<1>3. CountInv'
  <2>1. enabled /\ Waiting = Thread \ {t}
    BY ReleaserIsAlone DEF StoreCount
  <2>2. Waiting' = Waiting
    BY DEF Waiting, StoreCount, BarrierInv, TypeOK
  <2>3. pc'[t] = "increment" /\ count' = origCount /\ enabled'
    BY <2>1 DEF StoreCount, BarrierInv, TypeOK
  <2>. QED  BY <2>1, <2>2, <2>3 DEF CountInv
<1>. QED  BY <1>1, <1>2, <1>3 DEF BarrierInv

LEMMA IncrementGenerationInv ==
    ASSUME BarrierInv, NEW t \in Thread, IncrementGeneration(t) PROVE BarrierInv'
<1>. USE OrigCountType
<1>1. /\ enabled /\ count = origCount
      /\ \A u \in Thread : u # t => pc[u] = "spin" /\ gen[u] = generation
  BY ReleaserIsAlone DEF IncrementGeneration
<1>2. generation \in 0 .. GenMax /\ generation' \in 0 .. GenMax
      /\ generation' # generation /\ generation' = Incremented(generation)
  BY IncrementedDiffers DEF IncrementGeneration, BarrierInv, TypeOK
<1>3. TypeOK'
  BY <1>2 DEF BarrierInv, TypeOK, IncrementGeneration, Return, PC
<1>4. RoundInv'
  <2>1. \A u \in Thread : pc'[u] = (IF u = t THEN "out" ELSE pc[u])
                       /\ left'[u] = (IF u = t THEN left[u] + 1 ELSE left[u])
    BY DEF IncrementGeneration, Return, BarrierInv, TypeOK
  <2>2. UNCHANGED <<gen, entered>> /\ released' = released + 1 /\ pc[t] = "increment"
    BY DEF IncrementGeneration
  <2>3. entered[t] = released + 1 /\ left[t] = released
    BY <2>2 DEF BarrierInv, RoundInv
  <2>4. \A u \in Thread : u # t => entered[u] = released + 1 /\ left[u] = released
    BY <1>1, <1>2, IncrementedDiffers DEF BarrierInv, RoundInv
  <2>5. \A u \in Thread : released \in Nat /\ left[u] \in Nat /\ entered[u] \in Nat
    BY DEF BarrierInv, TypeOK
  <2>. QED  BY <1>1, <1>2, <2>1, <2>2, <2>3, <2>4, <2>5 DEF RoundInv
<1>5. CountInv'
  <2>1. Waiting' = {}
    BY <1>1, <1>2 DEF Waiting, IncrementGeneration, Return, BarrierInv, TypeOK
  <2>2. Cardinality(Waiting') = 0
    BY <2>1, FS_EmptySet
  <2>3. \A u \in Thread : pc'[u] \notin {"store", "increment"}
    BY <1>1 DEF IncrementGeneration, Return, BarrierInv, TypeOK
  <2>4. enabled' /\ count' = origCount
    BY <1>1 DEF IncrementGeneration
  <2>. QED  BY <2>2, <2>3, <2>4 DEF CountInv
<1>. QED  BY <1>3, <1>4, <1>5 DEF BarrierInv

LEMMA SpinInv ==
    ASSUME BarrierInv, NEW t \in Thread, Spin(t) PROVE BarrierInv'
<1>. USE OrigCountType
<1>1. /\ entered[t] = released /\ left[t] + 1 = released /\ t \notin Waiting
  BY DEF Spin, BarrierInv, RoundInv, Waiting
<1>2. TypeOK'
  BY DEF BarrierInv, TypeOK, Spin, Return, PC
<1>3. RoundInv'
  <2>1. \A u \in Thread : pc'[u] = (IF u = t THEN "out" ELSE pc[u])
                       /\ left'[u] = (IF u = t THEN left[u] + 1 ELSE left[u])
    BY DEF Spin, Return, BarrierInv, TypeOK
  <2>2. UNCHANGED <<gen, entered, released, generation>>
    BY DEF Spin
  <2>. QED  BY <1>1, <2>1, <2>2 DEF BarrierInv, RoundInv
<1>4. CountInv'
  <2>1. Waiting' = Waiting
    BY DEF Waiting, Spin, Return, BarrierInv, TypeOK
  <2>2. /\ enabled /\ \A u \in Thread : pc[u] \notin {"store", "increment"}
        /\ count >= 1 /\ count + Cardinality(Waiting) = origCount
    BY <1>1 DEF BarrierInv, CountInv, Spin
  <2>3. \A u \in Thread : pc'[u] \notin {"store", "increment"}
    BY <2>2 DEF Spin, Return, BarrierInv, TypeOK
  <2>. QED  BY <2>1, <2>2, <2>3 DEF CountInv, Spin
<1>. QED  BY <1>2, <1>3, <1>4 DEF BarrierInv

(***************************************************************************)
(* In every reachable state count, generation and the threads' copies of   *)
(* it agree on the round the barrier is in.                                *)
(***************************************************************************)
THEOREM BarrierInvariance == Spec => []BarrierInv
<1>1. BarrierInv /\ [Next]_vars => BarrierInv'
  <2>. SUFFICES ASSUME BarrierInv, [Next]_vars PROVE BarrierInv'
    OBVIOUS
  <2>1. CASE Resize
    BY <2>1, ResizeInv
  <2>2. ASSUME NEW t \in Thread, Wait(t) PROVE BarrierInv'
    <3>1. CASE SpinAgain(t)
      BY <3>1 DEF SpinAgain, vars, BarrierInv, TypeOK, RoundInv, CountInv, Waiting
    <3>. QED  BY <2>2, <3>1, LoadGenerationInv, FetchSubInv, StoreCountInv,
                 IncrementGenerationInv, SpinInv DEF Wait
  <2>3. CASE UNCHANGED vars
    BY <2>3 DEF vars, BarrierInv, TypeOK, RoundInv, CountInv, Waiting
  <2>. QED  BY <2>1, <2>2, <2>3 DEF Next
<1>. QED  BY <1>1, InitInv, PTL DEF Spec

(***************************************************************************)
(* Barrier::wait() keeps its promise: no thread returns from its k-th call *)
(* before every thread of the rank has made its k-th call.                 *)
(***************************************************************************)
THEOREM BarrierHolds == Spec => RefinesPromise
<1>1. Init => Promise!Init
  BY DEF Init, Promise!Init
<1>2. BarrierInv /\ [Next]_vars => [Promise!Next]_Promise!vars
  <2>. SUFFICES ASSUME BarrierInv, [Next]_vars PROVE [Promise!Next]_Promise!vars
    OBVIOUS
  <2>1. ASSUME NEW t \in Thread, LoadGeneration(t) PROVE Promise!Enter(t)
    BY <2>1 DEF LoadGeneration, Promise!Enter, BarrierInv, RoundInv
  <2>2. ASSUME NEW t \in Thread, IncrementGeneration(t) PROVE Promise!Leave(t)
    <3>1. left[t] + 1 = entered[t] /\ entered[t] = released + 1
      BY <2>2 DEF IncrementGeneration, BarrierInv, RoundInv
    <3>2. \A u \in Thread : entered[u] = released + 1
      <4>1. \A u \in Thread : u # t => pc[u] = "spin" /\ gen[u] = generation
        BY <2>2, ReleaserIsAlone DEF IncrementGeneration
      <4>. QED  BY <3>1, <4>1, IncrementedDiffers DEF BarrierInv, RoundInv, TypeOK
    <3>3. \A u \in Thread : entered[u] \in Nat
      BY DEF BarrierInv, TypeOK
    <3>. QED  BY <2>2, <3>1, <3>2, <3>3 DEF IncrementGeneration, Return, Promise!Leave
  <2>3. ASSUME NEW t \in Thread, Spin(t) PROVE Promise!Leave(t)
    <3>1. entered[t] = released /\ left[t] + 1 = entered[t]
      BY <2>3 DEF Spin, BarrierInv, RoundInv
    <3>2. \A u \in Thread : released <= entered[u]
      BY DEF BarrierInv, RoundInv, TypeOK, PC
    <3>. QED  BY <2>3, <3>1, <3>2 DEF Spin, Return, Promise!Leave
  <2>4. ASSUME NEW t \in Thread, FetchSub(t) \/ StoreCount(t) PROVE UNCHANGED Promise!vars
    BY <2>4 DEF FetchSub, StoreCount, Promise!vars
  <2>5. CASE Resize \/ UNCHANGED vars
    BY <2>5 DEF Resize, vars, Promise!vars
  <2>. QED  BY <2>1, <2>2, <2>3, <2>4, <2>5 DEF Next, Wait, SpinAgain, Promise!Next
<1>. QED  BY <1>1, <1>2, BarrierInvariance, PTL DEF Spec, RefinesPromise, Promise!Spec

-----------------------------------------------------------------------------
(* The bounded queue. *)

-----------------------------------------------------------------------------
(* The inductive invariant. *)

Inserting(t) == qpc[t] \in {"insertWrite", "insertStore"}
Removing(t) == qpc[t] \in {"removeRead", "removeStore"}

(* Whoever used the cell of position k before has given it back. *)
Before(k) == \A j \in 0 .. k - 1 : Slot(j) = Slot(k) => j \in Released

(* The cell of position k is to take its element: nobody has claimed it yet, *)
(* or a thread is about to write it.                                         *)
Free(k) ==
    /\ sequence[Slot(k)] = k /\ k >= rPtr /\ wPtr <= k + dsize
    /\ k < wPtr => \E t \in QueueThread : Inserting(t) /\ pos[t] = k
    /\ Before(k)

(* It holds the element: nobody removes it yet, or a thread is about to read it. *)
Full(k) ==
    /\ sequence[Slot(k)] = k + 1 /\ k < wPtr /\ wPtr <= k + dsize
    /\ k < rPtr => \E t \in QueueThread : Removing(t) /\ pos[t] = k
    /\ \A t \in QueueThread : ~(Inserting(t) /\ pos[t] = k)
    /\ data[Slot(k)] = inserted[k]
    /\ Before(k)

CellInv == \A c \in Cell : \E k \in Nat : Slot(k) = c /\ (Free(k) \/ Full(k))

(* A thread that has claimed a cell finds it as it was when it did. *)
Claim(t) ==
    /\ Inserting(t) => /\ pos[t] < wPtr /\ Free(pos[t])
                       /\ val[t] = inserted[pos[t]]
                       /\ qpc[t] = "insertStore" => data[Slot(pos[t])] = val[t]
    /\ Removing(t) => pos[t] < rPtr /\ Full(pos[t])

ClaimInv == \A t \in QueueThread : Claim(t)

UniqueInv ==
    \A s, t \in QueueThread : s # t /\ pos[s] = pos[t] =>
        ~(Inserting(s) /\ Inserting(t)) /\ ~(Removing(s) /\ Removing(t))

(* A thread that is about to claim a position has seen its cell ready for it, *)
(* and nothing has changed since if the position is still the next one.       *)
LoadInv ==
    \A t \in QueueThread :
        /\ qpc[t] \in {"insertTest", "insertCas"} => pos[t] <= wPtr
        /\ qpc[t] \in {"removeTest", "removeCas"} => pos[t] <= rPtr
        /\ qpc[t] = "insertCas" /\ pos[t] = wPtr => sequence[Slot(pos[t])] = pos[t]
        /\ qpc[t] = "removeCas" /\ pos[t] = rPtr => sequence[Slot(pos[t])] = pos[t] + 1
        /\ qpc[t] \in InsertLabel => val[t] \in Value

OrderInv ==
    /\ rPtr <= wPtr
    /\ \A k \in Position : removed[k] # NoValue => k < rPtr /\ removed[k] = inserted[k]

(* The elements that are offered or in the queue; a queue of one cell has one at most. *)
OfferInv ==
    /\ wPtr + Cardinality(Offering) <= MaxInserts
    /\ dsize = 1 => wPtr + Cardinality(Offering) - Cardinality(Released) <= 1

QueueInd ==
    /\ QueueTypeOK /\ CellInv /\ ClaimInv /\ UniqueInv /\ LoadInv /\ OrderInv /\ OfferInv

-----------------------------------------------------------------------------
(* A multiple of n that is nearer to 0 than n is 0. *)
LEMMA MultipleBelow ==
    ASSUME NEW n \in Nat \ {0}, NEW m \in Int, -n < n * m, n * m < n PROVE m = 0
<1>1. CASE m >= 1
  BY <1>1
<1>2. CASE m <= -1
  BY <1>2
<1>. QED  BY <1>1, <1>2

(* Remainders: two positions of one cell are at least dsize apart. *)
LEMMA SlotFacts ==
    ASSUME dsize \in Nat \ {0}
    PROVE  /\ \A k \in Nat : Slot(k) \in Cell /\ Slot(k + dsize) = Slot(k)
           /\ \A c \in Cell : Slot(c) = c
           /\ \A i, j \in Nat : i < j /\ Slot(i) = Slot(j) => i + dsize <= j
<1>1. ASSUME NEW k \in Nat PROVE Slot(k) \in Cell
  BY DEF Slot, Cell
<1>2. ASSUME NEW k \in Nat PROVE Slot(k + dsize) = Slot(k)
  <2>1. /\ k = dsize * (k \div dsize) + Slot(k)
        /\ k + dsize = dsize * ((k + dsize) \div dsize) + Slot(k + dsize)
        /\ Slot(k) \in 0 .. dsize - 1 /\ Slot(k + dsize) \in 0 .. dsize - 1
        /\ k \div dsize \in Int /\ (k + dsize) \div dsize \in Int
    BY DEF Slot
  <2>2. PICK a \in Int, b \in Int : a = k \div dsize /\ b = (k + dsize) \div dsize
    BY <2>1
  <2>3. dsize * (a + 1 - b) = dsize * a + dsize - dsize * b
    OBVIOUS
  <2>. DEFINE m == a + 1 - b
  <2>4. dsize * m = Slot(k + dsize) - Slot(k)
    BY <2>1, <2>2, <2>3
  <2>5. m \in Int
    OBVIOUS
  <2>. HIDE DEF m
  <2>6. m = 0
    BY <2>1, <2>4, <2>5, MultipleBelow
  <2>. QED  BY <2>1, <2>4, <2>6
<1>3. ASSUME NEW c \in Cell PROVE Slot(c) = c
  BY DEF Slot, Cell
<1>4. ASSUME NEW i \in Nat, NEW j \in Nat, i < j, Slot(i) = Slot(j) PROVE i + dsize <= j
  <2>1. /\ i = dsize * (i \div dsize) + Slot(i) /\ j = dsize * (j \div dsize) + Slot(j)
        /\ i \div dsize \in Int /\ j \div dsize \in Int /\ Slot(i) \in Int
    BY DEF Slot
  <2>2. j - i = dsize * ((j \div dsize) - (i \div dsize))
    BY <1>4, <2>1
  <2>3. (j \div dsize) - (i \div dsize) >= 1
    BY <1>4, <2>1, <2>2
  <2>. QED  BY <2>1, <2>2, <2>3
<1>. QED  BY <1>1, <1>2, <1>3, <1>4

LEMMA SizeType == ASSUME QueueTypeOK PROVE dsize \in Nat \ {0} /\ MaxInserts \in Nat
  BY QueueAssumption DEF QueueTypeOK

(* The sequence number of a cell tells the two uses of it apart. *)
LEMMA OneUse ==
    ASSUME QueueTypeOK, NEW i \in Nat, NEW j \in Nat, Slot(i) = Slot(j)
    PROVE  /\ Free(i) /\ Free(j) => i = j
           /\ Full(i) /\ Full(j) => i = j
           /\ ~(Free(i) /\ Full(j))
<1>. USE SizeType, SlotFacts
<1>1. Full(j) => j \notin Released
  BY DEF Full, Released, Removing, QueueTypeOK
<1>2. Free(i) /\ Full(j) => i = j + 1 /\ j \in 0 .. i - 1
  BY DEF Free, Full, QueueTypeOK
<1>3. ~(Free(i) /\ Full(j))
  BY <1>1, <1>2 DEF Free, Before
<1>. QED  BY <1>3 DEF Free, Full, QueueTypeOK

LEMMA SegmentCount ==
    ASSUME NEW n \in Nat PROVE IsFiniteSet(0 .. n - 1) /\ Cardinality(0 .. n - 1) = n
  BY FS_Interval

LEMMA SetsFinite ==
    ASSUME QueueTypeOK
    PROVE  /\ IsFiniteSet(Offering) /\ Cardinality(Offering) \in Nat
           /\ IsFiniteSet(Released) /\ Cardinality(Released) \in Nat
           /\ Cardinality(Released) <= rPtr
           /\ Cardinality(Released) = rPtr => Released = 0 .. rPtr - 1
<1>1. IsFiniteSet(Offering) /\ Cardinality(Offering) \in Nat
  <2>1. Offering \in SUBSET QueueThread
    BY DEF Offering
  <2>. QED  BY <2>1, QueueAssumption, FS_Subset, FS_CardinalityType
<1>2. IsFiniteSet(0 .. rPtr - 1) /\ Cardinality(0 .. rPtr - 1) = rPtr
  BY SegmentCount DEF QueueTypeOK
<1>3. Released \in SUBSET (0 .. rPtr - 1)
  BY DEF Released
<1>. QED  BY <1>1, <1>2, <1>3, FS_Subset, FS_CardinalityType

LEMMA QueueInitInd == ASSUME QueueInit PROVE QueueInd
<1>. USE QueueAssumption DEF QueueInit
<1>1. QueueTypeOK
  BY DEF QueueTypeOK, Position, Cell
<1>. USE <1>1, SizeType, SlotFacts
<1>2. CellInv
  <2>1. ASSUME NEW c \in Cell PROVE Slot(c) = c /\ Free(c)
    <3>1. Before(c)
      BY DEF Before, Cell
    <3>. QED  BY <3>1 DEF Free, Cell
  <2>. QED  BY <2>1 DEF CellInv, Cell
<1>3. ClaimInv /\ UniqueInv /\ LoadInv /\ OrderInv
  BY DEF ClaimInv, Claim, UniqueInv, LoadInv, OrderInv, Inserting, Removing, InsertLabel
<1>4. OfferInv
  <2>1. Offering = {} /\ Released = {}
    BY DEF Offering, Released
  <2>. QED  BY <2>1, FS_EmptySet DEF OfferInv
<1>. QED  BY <1>2, <1>3, <1>4 DEF QueueInd

-----------------------------------------------------------------------------
(* Nothing moves the cells. *)
LEMMA SlotFrame ==
    ASSUME QueueInd, dsize' = dsize
    PROVE  /\ Cell' = Cell /\ \A k \in Nat : Slot(k)' = Slot(k)
           /\ dsize \in Nat \ {0} /\ MaxInserts \in Nat
           /\ \A k \in Nat : Slot(k) \in Cell /\ Slot(k + dsize) = Slot(k)
           /\ \A i, j \in Nat : i < j /\ Slot(i) = Slot(j) => i + dsize <= j
<1>1. Cell' = Cell /\ \A k \in Nat : Slot(k)' = Slot(k)
  BY DEF Cell, Slot
<1>2. dsize \in Nat \ {0} /\ MaxInserts \in Nat
  BY SizeType DEF QueueInd
<1>. QED  BY <1>1, <1>2, SlotFacts

LEMMA PointerType ==
    ASSUME QueueInd
    PROVE  /\ wPtr \in Nat /\ rPtr \in Nat /\ rPtr <= wPtr /\ wPtr <= MaxInserts
           /\ Cardinality(Offering) \in Nat /\ Cardinality(Released) \in Nat
  BY QueueAssumption, SetsFinite DEF QueueInd, QueueTypeOK, Position, OrderInv

(* Only the thread itself changes where it is. *)
Others(t) ==
    \A u \in QueueThread \ {t} : qpc'[u] = qpc[u] /\ pos'[u] = pos[u] /\ val'[u] = val[u]

(* A step of a thread that holds no cell, before and after it. *)
LEMMA QueueQuietStep ==
    ASSUME QueueInd, QueueTypeOK', NEW t \in QueueThread, Others(t),
           UNCHANGED <<dsize, sequence, data, rPtr, wPtr, inserted, removed>>,
           ~Holds(t), ~Holds(t)'
    PROVE  Released' = Released /\ CellInv' /\ ClaimInv' /\ UniqueInv' /\ OrderInv'
<1>. USE SlotFrame DEF QueueInd
<1>1. \A u \in QueueThread :
        /\ Inserting(u)' <=> Inserting(u)
        /\ Removing(u)' <=> Removing(u)
        /\ Inserting(u) \/ Removing(u) =>
              qpc'[u] = qpc[u] /\ pos'[u] = pos[u] /\ val'[u] = val[u]
  BY DEF Others, Holds, Inserting, Removing
<1>2. Released' = Released
  BY <1>1 DEF Released, Removing
<1>3. ASSUME NEW k \in Nat PROVE (Free(k)' <=> Free(k)) /\ (Full(k)' <=> Full(k))
  <2>1. Before(k)' <=> Before(k)
    BY <1>2 DEF Before
  <2>. QED  BY <1>1, <2>1 DEF Free, Full
<1>4. CellInv'
  BY <1>3 DEF CellInv
<1>5. ClaimInv'
  BY <1>1, <1>3 DEF ClaimInv, Claim, QueueTypeOK
<1>6. UniqueInv'
  BY <1>1 DEF UniqueInv
<1>7. OrderInv'
  BY DEF OrderInv
<1>. QED  BY <1>2, <1>4, <1>5, <1>6, <1>7

LEMMA TryInsertInd ==
    ASSUME QueueInd, NEW t \in QueueThread, NEW v \in Value, TryInsert(t, v), dsize' = dsize
    PROVE  QueueInd'
<1>. USE SlotFrame
<1>1. QueueTypeOK'
  BY DEF QueueInd, QueueTypeOK, TryInsert, Move, InsertLabel
<1>2. Released' = Released /\ CellInv' /\ ClaimInv' /\ UniqueInv' /\ OrderInv'
  <2>1. Others(t) /\ ~Holds(t) /\ ~Holds(t)'
    BY DEF Others, Holds, TryInsert, Move, QueueInd, QueueTypeOK
  <2>. QED  BY <1>1, <2>1, QueueQuietStep DEF TryInsert
<1>3. LoadInv'
  BY DEF QueueInd, QueueTypeOK, LoadInv, TryInsert, Move, InsertLabel
<1>4. OfferInv'
  <2>1. Offering' = Offering \cup {t} /\ t \notin Offering
    BY DEF Offering, TryInsert, Move, QueueInd, QueueTypeOK
  <2>2. Cardinality(Offering') = Cardinality(Offering) + 1
    BY <2>1, SetsFinite, FS_AddElement DEF QueueInd
  <2>3. /\ wPtr' = wPtr /\ wPtr + Cardinality(Offering) < MaxInserts
        /\ dsize = 1 => wPtr + Cardinality(Offering) - Cardinality(Released) < dsize
    BY DEF TryInsert
  <2>. QED  BY <1>2, <2>2, <2>3, PointerType DEF OfferInv
<1>. QED  BY <1>1, <1>2, <1>3, <1>4 DEF QueueInd

LEMMA TryRemoveInd ==
    ASSUME QueueInd, NEW t \in QueueThread, TryRemove(t), dsize' = dsize PROVE QueueInd'
<1>. USE SlotFrame
<1>1. QueueTypeOK'
  BY DEF QueueInd, QueueTypeOK, TryRemove, Move, RemoveLabel
<1>2. Released' = Released /\ CellInv' /\ ClaimInv' /\ UniqueInv' /\ OrderInv'
  <2>1. Others(t) /\ ~Holds(t) /\ ~Holds(t)'
    BY DEF Others, Holds, TryRemove, Move, QueueInd, QueueTypeOK
  <2>. QED  BY <1>1, <2>1, QueueQuietStep DEF TryRemove
<1>3. LoadInv'
  BY DEF QueueInd, QueueTypeOK, LoadInv, TryRemove, Move, InsertLabel
<1>4. OfferInv'
  <2>1. Offering' = Offering
    BY DEF Offering, TryRemove, Move, QueueInd, QueueTypeOK
  <2>. QED  BY <1>2, <2>1 DEF OfferInv, TryRemove, QueueInd
<1>. QED  BY <1>1, <1>2, <1>3, <1>4 DEF QueueInd

LEMMA LoadInd ==
    ASSUME QueueInd, NEW t \in QueueThread, Load(t), dsize' = dsize PROVE QueueInd'
<1>. USE SlotFrame
<1>1. QueueTypeOK'
  <2>1. /\ qpc' \in [QueueThread -> {"idle"} \cup InsertLabel \cup RemoveLabel]
        /\ pos' \in [QueueThread -> Nat]
    <3>1. \E l \in {"idle"} \cup InsertLabel \cup RemoveLabel : qpc' = [qpc EXCEPT ![t] = l]
      BY DEF Load, Move, InsertLabel, RemoveLabel
    <3>2. \E k \in Nat : pos' = [pos EXCEPT ![t] = k]
      BY PointerType DEF Load
    <3>. QED  BY <3>1, <3>2 DEF QueueInd, QueueTypeOK
  <2>. QED  BY <2>1 DEF QueueInd, QueueTypeOK, Load
<1>2. Released' = Released /\ CellInv' /\ ClaimInv' /\ UniqueInv' /\ OrderInv'
  <2>1. Others(t) /\ ~Holds(t) /\ ~Holds(t)'
    BY DEF Others, Holds, Load, Move, QueueInd, QueueTypeOK
  <2>. QED  BY <1>1, <2>1, QueueQuietStep DEF Load
<1>3. LoadInv'
  BY PointerType DEF QueueInd, QueueTypeOK, LoadInv, Load, Move, InsertLabel
<1>4. OfferInv'
  <2>1. Offering' = Offering
    BY DEF Offering, Load, Move, QueueInd, QueueTypeOK
  <2>. QED  BY <1>2, <2>1 DEF OfferInv, Load, QueueInd
<1>. QED  BY <1>1, <1>2, <1>3, <1>4 DEF QueueInd

LEMMA TestInd ==
    ASSUME QueueInd, NEW t \in QueueThread, Test(t), dsize' = dsize PROVE QueueInd'
<1>. USE SlotFrame
<1>1. QueueTypeOK'
  <2>1. /\ qpc' \in [QueueThread -> {"idle"} \cup InsertLabel \cup RemoveLabel]
        /\ pos' \in [QueueThread -> Nat]
        /\ val' \in [QueueThread -> Value \cup {NoValue}]
    <3>1. \E l \in {"idle"} \cup InsertLabel \cup RemoveLabel : qpc' = [qpc EXCEPT ![t] = l]
      BY DEF Test, Move, Leave, InsertLabel, RemoveLabel
    <3>. QED  BY <3>1 DEF QueueInd, QueueTypeOK, Test, Leave
  <2>. QED  BY <2>1 DEF QueueInd, QueueTypeOK, Test
<1>2. Released' = Released /\ CellInv' /\ ClaimInv' /\ UniqueInv' /\ OrderInv'
  <2>1. Others(t) /\ ~Holds(t) /\ ~Holds(t)'
    BY DEF Others, Holds, Test, Move, Leave, QueueInd, QueueTypeOK
  <2>. QED  BY <1>1, <2>1, QueueQuietStep DEF Test
<1>3. LoadInv'
  BY DEF QueueInd, QueueTypeOK, LoadInv, Test, Move, Leave, InsertLabel
<1>4. OfferInv'
  <2>1. Offering' \in SUBSET Offering
    BY DEF Offering, Test, Move, Leave, QueueInd, QueueTypeOK
  <2>2. Cardinality(Offering') <= Cardinality(Offering) /\ Cardinality(Offering') \in Nat
    BY <2>1, SetsFinite, FS_Subset, FS_CardinalityType DEF QueueInd
  <2>3. wPtr \in Nat /\ wPtr' = wPtr /\ Cardinality(Released') = Cardinality(Released)
    BY <1>2 DEF Test, QueueInd, QueueTypeOK, Position
  <2>4. Cardinality(Offering) \in Nat /\ Cardinality(Released) \in Nat
    BY SetsFinite DEF QueueInd
  <2>. QED  BY <2>2, <2>3, <2>4 DEF OfferInv, QueueInd
<1>. QED  BY <1>1, <1>2, <1>3, <1>4 DEF QueueInd

(* The exchange on wPtr fails: the position is loaded anew. *)
LEMMA InsertCasAgainInd ==
    ASSUME QueueInd, NEW t \in QueueThread, InsertCas(t), wPtr' = wPtr, dsize' = dsize
    PROVE  QueueInd'
<1>. USE SlotFrame
<1>1. /\ pos' = [pos EXCEPT ![t] = wPtr] /\ qpc' = [qpc EXCEPT ![t] = "insertTest"]
      /\ qpc[t] = "insertCas" /\ UNCHANGED <<sequence, data, rPtr, wPtr, val, inserted, removed>>
      /\ wPtr \in Nat
  BY PointerType DEF InsertCas, Move
<1>2. QueueTypeOK'
  BY <1>1 DEF QueueInd, QueueTypeOK, InsertLabel
<1>3. Released' = Released /\ CellInv' /\ ClaimInv' /\ UniqueInv' /\ OrderInv'
  <2>1. Others(t) /\ ~Holds(t) /\ ~Holds(t)'
    BY <1>1 DEF Others, Holds, QueueInd, QueueTypeOK
  <2>. QED  BY <1>1, <1>2, <2>1, QueueQuietStep
<1>4. LoadInv'
  BY <1>1 DEF QueueInd, QueueTypeOK, LoadInv, InsertLabel
<1>5. OfferInv'
  <2>1. Offering' = Offering
    BY <1>1 DEF Offering, QueueInd, QueueTypeOK
  <2>. QED  BY <1>1, <1>3, <2>1 DEF OfferInv, QueueInd
<1>. QED  BY <1>2, <1>3, <1>4, <1>5 DEF QueueInd

(* A thread that finds the sequence number of the next position in its cell  *)
(* finds the cell free: with one cell that needs what its callers promise.   *)
LEMMA ReadyToInsert ==
    ASSUME QueueInd, NEW t \in Offering, sequence[Slot(wPtr)] = wPtr
    PROVE  Free(wPtr) /\ \A k \in Nat : Full(k) => Slot(k) # Slot(wPtr)
<1>. USE SizeType, SlotFacts DEF QueueInd
<1>1. wPtr \in Nat /\ rPtr \in Nat /\ rPtr <= wPtr
  BY DEF QueueTypeOK, Position, OrderInv
<1>2. ASSUME NEW k \in Nat, Full(k), Slot(k) = Slot(wPtr) PROVE FALSE
  <2>1. k + 1 = wPtr
    BY <1>1, <1>2 DEF Full
  <2>2. dsize = 1
    BY <1>1, <1>2, <2>1
  <2>3. Cardinality(Offering) >= 1
    BY SetsFinite, FS_EmptySet
  <2>4. Cardinality(Released) >= wPtr
    BY <1>1, <2>2, <2>3, SetsFinite DEF OfferInv
  <2>5. Released = 0 .. rPtr - 1 /\ rPtr = wPtr
    BY <1>1, <2>4, SetsFinite
  <2>6. k \in Released
    BY <1>1, <2>1, <2>5
  <2>7. \E u \in QueueThread : Removing(u) /\ pos[u] = k
    BY <1>1, <1>2, <2>1, <2>5 DEF Full
  <2>. QED  BY <2>6, <2>7 DEF Released, Removing
<1>3. Free(wPtr)
  <2>1. PICK k \in Nat : Slot(k) = Slot(wPtr) /\ (Free(k) \/ Full(k))
    BY <1>1 DEF CellInv
  <2>2. Free(k) /\ k = wPtr
    BY <1>2, <2>1 DEF Free
  <2>. QED  BY <2>2
<1>. QED  BY <1>2, <1>3

(* The exchange on wPtr succeeds: the thread has claimed position wPtr. *)
LEMMA InsertCasInd ==
    ASSUME QueueInd, NEW t \in QueueThread, InsertCas(t), wPtr' # wPtr, dsize' = dsize
    PROVE  QueueInd'
<1>. USE SlotFrame
<1>1. /\ wPtr = pos[t] /\ wPtr' = wPtr + 1 /\ qpc[t] = "insertCas"
      /\ qpc' = [qpc EXCEPT ![t] = "insertWrite"]
      /\ inserted' = [inserted EXCEPT ![wPtr] = val[t]]
      /\ UNCHANGED <<sequence, data, rPtr, pos, val, removed>>
  BY DEF InsertCas, Move
<1>2. /\ wPtr \in Nat /\ rPtr \in Nat /\ rPtr <= wPtr /\ pos \in [QueueThread -> Nat]
      /\ sequence[Slot(wPtr)] = wPtr
  BY <1>1 DEF QueueInd, QueueTypeOK, Position, OrderInv, LoadInv
<1>3. t \in Offering /\ Offering' = Offering \ {t}
  BY <1>1 DEF Offering, QueueInd, QueueTypeOK
<1>4. /\ Cardinality(Offering) \in Nat /\ Cardinality(Offering) >= 1
      /\ Cardinality(Offering') = Cardinality(Offering) - 1
  <2>1. IsFiniteSet(Offering)
    BY SetsFinite DEF QueueInd
  <2>. QED  BY <1>3, <2>1, PointerType, FS_RemoveElement, FS_EmptySet
<1>5. Free(wPtr) /\ \A k \in Nat : Full(k) => Slot(k) # Slot(wPtr)
  BY <1>2, <1>3, ReadyToInsert
<1>6. wPtr + 1 <= MaxInserts
  BY <1>2, <1>4 DEF QueueInd, OfferInv
<1>7. QueueTypeOK'
  <2>1. wPtr' \in Position /\ wPtr \in Position
    BY <1>1, <1>2, <1>6, QueueAssumption DEF Position
  <2>. QED  BY <1>1, <2>1 DEF QueueInd, QueueTypeOK, InsertLabel
<1>8. \A u \in QueueThread :
        /\ Inserting(u)' <=> Inserting(u) \/ u = t
        /\ Removing(u)' <=> Removing(u)
  BY <1>1 DEF Inserting, Removing, QueueInd, QueueTypeOK
<1>9. Released' = Released
  BY <1>1, <1>8 DEF Released, Removing
<1>10. ASSUME NEW k \in Nat PROVE (Free(k) => Free(k)') /\ (Full(k) => Full(k)')
  <2>1. Before(k) => Before(k)'
    BY <1>9 DEF Before
  <2>2. Slot(k + dsize) = Slot(k)
    OBVIOUS
  <2>3. ASSUME Free(k) PROVE Free(k)'
    <3>1. wPtr' <= k + dsize
      BY <1>1, <1>2, <2>2, <2>3 DEF Free
    <3>2. k < wPtr' => \E u \in QueueThread : Inserting(u)' /\ pos'[u] = k
      <4>1. CASE k = wPtr
        BY <1>1, <1>8, <4>1
      <4>2. CASE k < wPtr
        BY <1>1, <1>8, <2>3, <4>2 DEF Free
      <4>. QED  BY <1>1, <1>2, <4>1, <4>2
    <3>. QED  BY <1>1, <2>1, <2>3, <3>1, <3>2 DEF Free
  <2>4. ASSUME Full(k) PROVE Full(k)'
    <3>1. k < wPtr /\ wPtr' <= k + dsize
      BY <1>1, <1>2, <1>5, <2>2, <2>4 DEF Full
    <3>2. \A u \in QueueThread : ~(Inserting(u)' /\ pos'[u] = k)
      BY <1>1, <1>2, <1>8, <2>4, <3>1 DEF Full
    <3>3. inserted'[k] = inserted[k]
      BY <1>1, <1>2, <1>6, <3>1 DEF QueueInd, QueueTypeOK, Position
    <3>. QED  BY <1>1, <1>2, <1>8, <2>1, <2>4, <3>1, <3>2, <3>3 DEF Full
  <2>. QED  BY <2>3, <2>4
<1>11. CellInv'
  BY <1>10 DEF QueueInd, CellInv
<1>12. ClaimInv'
  <2>. SUFFICES ASSUME NEW u \in QueueThread PROVE Claim(u)'
    BY DEF ClaimInv
  <2>1. CASE u = t
    BY <1>1, <1>2, <1>5, <1>6, <1>10, <2>1 DEF Claim, Inserting, Removing, QueueInd, QueueTypeOK, Position
  <2>2. CASE u # t
    <3>1. qpc'[u] = qpc[u]
      BY <1>1, <2>2 DEF QueueInd, QueueTypeOK
    <3>2. Removing(u)' => pos'[u] < rPtr' /\ Full(pos[u])'
      BY <1>1, <1>2, <1>8, <1>10 DEF QueueInd, ClaimInv, Claim
    <3>3. ASSUME Inserting(u)'
          PROVE  /\ pos'[u] < wPtr' /\ Free(pos[u])' /\ val'[u] = inserted'[pos'[u]]
                 /\ qpc'[u] = "insertStore" => data'[Slot(pos[u])'] = val'[u]
      <4>1. /\ pos[u] < wPtr /\ Free(pos[u]) /\ val[u] = inserted[pos[u]]
            /\ qpc[u] = "insertStore" => data[Slot(pos[u])] = val[u]
        BY <1>8, <2>2, <3>3 DEF QueueInd, ClaimInv, Claim
      <4>2. inserted'[pos[u]] = inserted[pos[u]]
        BY <1>1, <1>2, <1>6, <4>1 DEF QueueInd, QueueTypeOK, Position
      <4>. QED  BY <1>1, <1>2, <1>10, <3>1, <4>1, <4>2
    <3>. QED  BY <1>1, <3>2, <3>3 DEF Claim
  <2>. QED  BY <2>1, <2>2
<1>13. UniqueInv'
  BY <1>1, <1>2, <1>8 DEF QueueInd, UniqueInv, ClaimInv, Claim
<1>14. LoadInv'
  BY <1>1, <1>2 DEF QueueInd, LoadInv, QueueTypeOK, InsertLabel
<1>15. OrderInv'
  <2>1. ASSUME NEW k \in Position, removed[k] # NoValue
        PROVE  k < rPtr /\ removed[k] = inserted'[k]
    <3>1. k < rPtr /\ removed[k] = inserted[k] /\ k # wPtr
      BY <1>2, <2>1 DEF QueueInd, OrderInv, Position
    <3>. QED  BY <1>1, <3>1 DEF QueueInd, QueueTypeOK
  <2>. QED  BY <1>1, <1>2, <2>1 DEF OrderInv
<1>16. OfferInv'
  BY <1>1, <1>2, <1>4, <1>9, PointerType DEF QueueInd, OfferInv
<1>. QED  BY <1>7, <1>11, <1>12, <1>13, <1>14, <1>15, <1>16 DEF QueueInd

LEMMA InsertWriteInd ==
    ASSUME QueueInd, NEW t \in QueueThread, InsertWrite(t), dsize' = dsize PROVE QueueInd'
<1>. USE SlotFrame
<1>1. /\ qpc[t] = "insertWrite" /\ qpc' = [qpc EXCEPT ![t] = "insertStore"]
      /\ data' = [data EXCEPT ![Slot(pos[t])] = val[t]]
      /\ UNCHANGED <<sequence, rPtr, wPtr, pos, val, inserted, removed>>
  BY DEF InsertWrite, Move
<1>2. pos[t] \in Nat /\ Inserting(t) /\ Free(pos[t]) /\ pos[t] < wPtr /\ val[t] = inserted[pos[t]]
  BY <1>1 DEF QueueInd, QueueTypeOK, ClaimInv, Claim, Inserting
<1>3. QueueTypeOK'
  BY <1>1 DEF QueueInd, QueueTypeOK, InsertLabel
<1>4. \A u \in QueueThread : (Inserting(u)' <=> Inserting(u)) /\ (Removing(u)' <=> Removing(u))
  BY <1>1 DEF Inserting, Removing, QueueInd, QueueTypeOK
<1>5. Released' = Released
  BY <1>1, <1>4 DEF Released, Removing
<1>6. ASSUME NEW k \in Nat PROVE (Free(k) => Free(k)') /\ (Full(k) => Full(k)')
  <2>1. Before(k) => Before(k)'
    BY <1>5 DEF Before
  <2>2. Free(k) => Free(k)'
    BY <1>1, <1>4, <2>1 DEF Free
  <2>3. ASSUME Full(k) PROVE Full(k)'
    <3>1. Slot(k) # Slot(pos[t])
      BY <1>2, <2>3, OneUse DEF QueueInd
    <3>2. data'[Slot(k)] = data[Slot(k)]
      BY <1>1, <3>1 DEF QueueInd, QueueTypeOK
    <3>. QED  BY <1>1, <1>4, <2>1, <2>3, <3>2 DEF Full
  <2>. QED  BY <2>2, <2>3
<1>7. CellInv'
  BY <1>6 DEF QueueInd, CellInv
<1>8. ClaimInv'
  <2>. SUFFICES ASSUME NEW u \in QueueThread PROVE Claim(u)'
    BY DEF ClaimInv
  <2>1. pos[u] \in Nat
    BY DEF QueueInd, QueueTypeOK
  <2>2. Removing(u)' => pos'[u] < rPtr' /\ Full(pos[u])'
    BY <1>1, <1>4, <1>6, <2>1 DEF QueueInd, ClaimInv, Claim
  <2>3. Inserting(u)' => pos'[u] < wPtr' /\ Free(pos[u])' /\ val'[u] = inserted'[pos'[u]]
    BY <1>1, <1>4, <1>6, <2>1 DEF QueueInd, ClaimInv, Claim
  <2>4. ASSUME qpc'[u] = "insertStore" PROVE data'[Slot(pos[u])] = val'[u]
    <3>1. CASE u = t
      BY <1>1, <1>2, <3>1 DEF QueueInd, QueueTypeOK
    <3>2. CASE u # t
      <4>1. qpc[u] = "insertStore" /\ Inserting(u)
        BY <1>1, <2>4, <3>2 DEF QueueInd, QueueTypeOK, Inserting
      <4>2. Free(pos[u]) /\ pos[u] # pos[t] /\ data[Slot(pos[u])] = val[u]
        BY <1>2, <3>2, <4>1 DEF QueueInd, ClaimInv, Claim, UniqueInv
      <4>3. Slot(pos[u]) # Slot(pos[t])
        BY <1>2, <2>1, <4>2, OneUse DEF QueueInd
      <4>. QED  BY <1>1, <2>1, <4>2, <4>3 DEF QueueInd, QueueTypeOK
    <3>. QED  BY <3>1, <3>2
  <2>. QED  BY <1>1, <2>1, <2>2, <2>3, <2>4 DEF Claim
<1>9. UniqueInv'
  BY <1>1, <1>4 DEF QueueInd, UniqueInv
<1>10. LoadInv'
  BY <1>1 DEF QueueInd, LoadInv, QueueTypeOK, InsertLabel
<1>11. OrderInv'
  BY <1>1 DEF QueueInd, OrderInv
<1>12. OfferInv'
  <2>1. Offering' = Offering
    BY <1>1 DEF Offering, QueueInd, QueueTypeOK
  <2>. QED  BY <1>1, <1>5, <2>1 DEF QueueInd, OfferInv
<1>. QED  BY <1>3, <1>7, <1>8, <1>9, <1>10, <1>11, <1>12 DEF QueueInd

LEMMA InsertStoreInd ==
    ASSUME QueueInd, NEW t \in QueueThread, InsertStore(t), dsize' = dsize PROVE QueueInd'
<1>. USE SlotFrame
<1>0. PICK p \in Nat : p = pos[t]
  BY DEF QueueInd, QueueTypeOK
<1>1. /\ qpc[t] = "insertStore" /\ qpc' = [qpc EXCEPT ![t] = "idle"]
      /\ sequence' = [sequence EXCEPT ![Slot(p)] = p + 1]
      /\ pos' = [pos EXCEPT ![t] = 0] /\ val' = [val EXCEPT ![t] = NoValue]
      /\ UNCHANGED <<data, rPtr, wPtr, inserted, removed>>
  BY <1>0 DEF InsertStore, Leave, Move
<1>2. /\ p \in Nat /\ Inserting(t) /\ Free(p) /\ p < wPtr
      /\ data[Slot(p)] = inserted[p]
  BY <1>0, <1>1 DEF QueueInd, QueueTypeOK, ClaimInv, Claim, Inserting
<1>3. QueueTypeOK'
  BY <1>1, <1>2 DEF QueueInd, QueueTypeOK
<1>4. \A u \in QueueThread :
        /\ Inserting(u)' <=> Inserting(u) /\ u # t
        /\ Removing(u)' <=> Removing(u)
        /\ u # t => qpc'[u] = qpc[u] /\ pos'[u] = pos[u] /\ val'[u] = val[u]
        /\ Removing(u) => u # t
  BY <1>1 DEF Inserting, Removing, QueueInd, QueueTypeOK
<1>5. Released' = Released
  BY <1>1, <1>4 DEF Released, Removing
<1>6. ASSUME NEW k \in Nat, Slot(k) # Slot(p) PROVE (Free(k) => Free(k)') /\ (Full(k) => Full(k)')
  <2>1. Before(k) => Before(k)'
    BY <1>5 DEF Before
  <2>2. sequence'[Slot(k)] = sequence[Slot(k)] /\ k # p
    BY <1>1, <1>6 DEF QueueInd, QueueTypeOK
  <2>3. Free(k) => Free(k)'
    BY <1>0, <1>1, <1>4, <2>1, <2>2 DEF Free
  <2>4. Full(k) => Full(k)'
    BY <1>1, <1>4, <2>1, <2>2 DEF Full
  <2>. QED  BY <2>3, <2>4
<1>7. Full(p)'
  <2>1. Before(p)'
    BY <1>2, <1>5 DEF Before, Free
  <2>2. sequence'[Slot(p)] = p + 1
    BY <1>1, <1>2 DEF QueueInd, QueueTypeOK
  <2>3. \A u \in QueueThread : ~(Inserting(u)' /\ pos'[u] = p)
    BY <1>0, <1>2, <1>4 DEF QueueInd, UniqueInv
  <2>. QED  BY <1>1, <1>2, <2>1, <2>2, <2>3, PointerType DEF Free, Full
<1>8. CellInv'
  <2>. SUFFICES ASSUME NEW c \in Cell
                PROVE  \E k \in Nat : Slot(k)' = c /\ (Free(k)' \/ Full(k)')
    BY DEF CellInv
  <2>1. CASE c = Slot(p)
    BY <1>2, <1>7, <2>1
  <2>2. CASE c # Slot(p)
    BY <1>6, <2>2 DEF QueueInd, CellInv
  <2>. QED  BY <2>1, <2>2
<1>9. ClaimInv'
  <2>. SUFFICES ASSUME NEW u \in QueueThread PROVE Claim(u)'
    BY DEF ClaimInv
  <2>1. CASE Inserting(u)' \/ Removing(u)'
    <3>1. u # t /\ pos'[u] = pos[u] /\ pos[u] \in Nat /\ Claim(u)
      BY <1>4, <2>1 DEF QueueInd, QueueTypeOK, ClaimInv
    <3>2. Slot(pos[u]) # Slot(p)
      BY <1>0, <1>2, <1>4, <2>1, <3>1, OneUse DEF QueueInd, UniqueInv, Claim
    <3>. QED  BY <1>1, <1>4, <1>6, <3>1, <3>2 DEF Claim
  <2>2. CASE ~Inserting(u)' /\ ~Removing(u)'
    BY <2>2 DEF Claim
  <2>. QED  BY <2>1, <2>2
<1>10. UniqueInv'
  BY <1>4 DEF QueueInd, UniqueInv
<1>11. LoadInv'
  <2>. SUFFICES ASSUME NEW u \in QueueThread \ {t}
       PROVE  /\ qpc[u] \in {"insertTest", "insertCas"} => pos[u] <= wPtr
              /\ qpc[u] \in {"removeTest", "removeCas"} => pos[u] <= rPtr
              /\ qpc[u] = "insertCas" /\ pos[u] = wPtr => sequence'[Slot(pos[u])] = pos[u]
              /\ qpc[u] = "removeCas" /\ pos[u] = rPtr => sequence'[Slot(pos[u])] = pos[u] + 1
              /\ qpc[u] \in InsertLabel => val[u] \in Value
    BY <1>1, <1>4 DEF QueueInd, QueueTypeOK, LoadInv, InsertLabel
  <2>1. ASSUME qpc[u] = "insertCas", pos[u] = wPtr PROVE Slot(pos[u]) # Slot(p)
    BY <1>2, <2>1 DEF QueueInd, LoadInv, Free
  <2>2. ASSUME qpc[u] = "removeCas", pos[u] = rPtr PROVE Slot(pos[u]) # Slot(p)
    <3>1. Slot(pos[u]) = Slot(p) => p = rPtr + 1
      BY <1>2, <2>2 DEF QueueInd, LoadInv, Free
    <3>2. Slot(rPtr) = Slot(p) /\ p = rPtr + 1 => rPtr \in Released
      BY <1>2, PointerType DEF Free, Before
    <3>. QED  BY <2>2, <3>1, <3>2, PointerType DEF Released
  <2>3. pos[u] \in Nat
    BY DEF QueueInd, QueueTypeOK
  <2>. QED  BY <1>1, <2>1, <2>2, <2>3 DEF QueueInd, QueueTypeOK, LoadInv
<1>12. OrderInv'
  BY <1>1 DEF QueueInd, OrderInv
<1>13. OfferInv'
  <2>1. Offering' = Offering
    BY <1>1 DEF Offering, QueueInd, QueueTypeOK
  <2>. QED  BY <1>1, <1>5, <2>1 DEF QueueInd, OfferInv
<1>. QED  BY <1>3, <1>8, <1>9, <1>10, <1>11, <1>12, <1>13 DEF QueueInd

LEMMA RemoveCasAgainInd ==
    ASSUME QueueInd, NEW t \in QueueThread, RemoveCas(t), rPtr' = rPtr, dsize' = dsize
    PROVE  QueueInd'
<1>. USE SlotFrame
<1>1. /\ pos' = [pos EXCEPT ![t] = rPtr] /\ qpc' = [qpc EXCEPT ![t] = "removeTest"]
      /\ qpc[t] = "removeCas" /\ UNCHANGED <<sequence, data, rPtr, wPtr, val, inserted, removed>>
      /\ rPtr \in Nat
  BY PointerType DEF RemoveCas, Move
<1>2. QueueTypeOK'
  BY <1>1 DEF QueueInd, QueueTypeOK, RemoveLabel
<1>3. Released' = Released /\ CellInv' /\ ClaimInv' /\ UniqueInv' /\ OrderInv'
  <2>1. Others(t) /\ ~Holds(t) /\ ~Holds(t)'
    BY <1>1 DEF Others, Holds, QueueInd, QueueTypeOK
  <2>. QED  BY <1>1, <1>2, <2>1, QueueQuietStep
<1>4. LoadInv'
  BY <1>1 DEF QueueInd, QueueTypeOK, LoadInv, InsertLabel
<1>5. OfferInv'
  <2>1. Offering' = Offering
    BY <1>1 DEF Offering, QueueInd, QueueTypeOK
  <2>. QED  BY <1>1, <1>3, <2>1 DEF OfferInv, QueueInd
<1>. QED  BY <1>2, <1>3, <1>4, <1>5 DEF QueueInd

(* A thread that finds the number of a full cell at rPtr finds its element there. *)
LEMMA ReadyToRemove ==
    ASSUME QueueInd, sequence[Slot(rPtr)] = rPtr + 1
    PROVE  Full(rPtr) /\ ~Free(rPtr)
<1>. USE SizeType, SlotFacts, PointerType DEF QueueInd
<1>1. PICK k \in Nat : Slot(k) = Slot(rPtr) /\ (Free(k) \/ Full(k))
  BY DEF CellInv
<1>2. ~Free(k)
  <2>1. Free(k) => k = rPtr + 1
    BY <1>1 DEF Free
  <2>2. Free(k) => rPtr \in Released
    BY <1>1, <2>1 DEF Free, Before
  <2>. QED  BY <2>2 DEF Released
<1>3. Full(k) /\ k = rPtr
  BY <1>1, <1>2 DEF Full
<1>. QED  BY <1>3 DEF Free

LEMMA RemoveCasInd ==
    ASSUME QueueInd, NEW t \in QueueThread, RemoveCas(t), rPtr' # rPtr, dsize' = dsize
    PROVE  QueueInd'
<1>. USE SlotFrame
<1>1. /\ rPtr = pos[t] /\ rPtr' = rPtr + 1 /\ qpc[t] = "removeCas"
      /\ qpc' = [qpc EXCEPT ![t] = "removeRead"]
      /\ UNCHANGED <<sequence, data, wPtr, pos, val, inserted, removed>>
  BY DEF RemoveCas, Move
<1>2. /\ wPtr \in Nat /\ rPtr \in Nat /\ pos \in [QueueThread -> Nat]
      /\ sequence[Slot(rPtr)] = rPtr + 1
  BY <1>1, PointerType DEF QueueInd, QueueTypeOK, LoadInv
<1>3. Full(rPtr) /\ ~Free(rPtr) /\ rPtr < wPtr
  BY <1>2, ReadyToRemove DEF Full
<1>4. QueueTypeOK'
  BY <1>1, <1>2 DEF QueueInd, QueueTypeOK, RemoveLabel
<1>5. \A u \in QueueThread :
        /\ Inserting(u)' <=> Inserting(u)
        /\ Removing(u)' <=> Removing(u) \/ u = t
        /\ u # t => qpc'[u] = qpc[u]
        /\ Inserting(u) => u # t
  BY <1>1 DEF Inserting, Removing, QueueInd, QueueTypeOK
<1>6. Released' = Released
  BY <1>1, <1>2, <1>5 DEF Released, Removing
<1>7. ASSUME NEW k \in Nat PROVE (Free(k) => Free(k)') /\ (Full(k) => Full(k)')
  <2>1. Before(k) => Before(k)'
    BY <1>6 DEF Before
  <2>2. ASSUME Free(k) PROVE Free(k)'
    <3>1. k >= rPtr'
      BY <1>1, <1>2, <1>3, <2>2 DEF Free
    <3>. QED  BY <1>1, <1>5, <2>1, <2>2, <3>1 DEF Free
  <2>3. ASSUME Full(k) PROVE Full(k)'
    <3>1. k < rPtr' => \E u \in QueueThread : Removing(u)' /\ pos'[u] = k
      <4>1. CASE k = rPtr
        BY <1>1, <1>5, <4>1
      <4>2. CASE k < rPtr
        BY <1>1, <1>5, <2>3, <4>2 DEF Full
      <4>. QED  BY <1>1, <1>2, <4>1, <4>2
    <3>. QED  BY <1>1, <1>5, <2>1, <2>3, <3>1 DEF Full
  <2>. QED  BY <2>2, <2>3
<1>8. CellInv'
  BY <1>7 DEF QueueInd, CellInv
<1>9. ClaimInv'
  <2>. SUFFICES ASSUME NEW u \in QueueThread PROVE Claim(u)'
    BY DEF ClaimInv
  <2>1. pos[u] \in Nat /\ pos'[u] = pos[u] /\ Claim(u)
    BY <1>1, <1>2 DEF QueueInd, ClaimInv
  <2>2. Inserting(u)' => /\ pos'[u] < wPtr' /\ Free(pos[u])' /\ val'[u] = inserted'[pos'[u]]
                         /\ qpc'[u] = "insertStore" => data'[Slot(pos[u])'] = val'[u]
    BY <1>1, <1>5, <1>7, <2>1 DEF Claim
  <2>3. Removing(u)' => pos'[u] < rPtr' /\ Full(pos[u])'
    BY <1>1, <1>2, <1>3, <1>5, <1>7, <2>1 DEF Claim
  <2>. QED  BY <2>2, <2>3 DEF Claim
<1>10. UniqueInv'
  BY <1>1, <1>2, <1>5 DEF QueueInd, UniqueInv, ClaimInv, Claim
<1>11. LoadInv'
  BY <1>1, <1>2 DEF QueueInd, LoadInv, QueueTypeOK, InsertLabel
<1>12. OrderInv'
  BY <1>1, <1>2, <1>3 DEF QueueInd, OrderInv, Position
<1>13. OfferInv'
  <2>1. Offering' = Offering
    BY <1>1 DEF Offering, QueueInd, QueueTypeOK
  <2>. QED  BY <1>1, <1>6, <2>1 DEF QueueInd, OfferInv
<1>. QED  BY <1>4, <1>8, <1>9, <1>10, <1>11, <1>12, <1>13 DEF QueueInd

LEMMA RemoveReadInd ==
    ASSUME QueueInd, NEW t \in QueueThread, RemoveRead(t), dsize' = dsize PROVE QueueInd'
<1>. USE SlotFrame
<1>1. /\ qpc[t] = "removeRead" /\ qpc' = [qpc EXCEPT ![t] = "removeStore"]
      /\ val' = [val EXCEPT ![t] = data[Slot(pos[t])]]
      /\ removed' = [removed EXCEPT ![pos[t]] = data[Slot(pos[t])]]
      /\ UNCHANGED <<sequence, data, rPtr, wPtr, pos, inserted>>
  BY DEF RemoveRead, Move
<1>2. /\ pos[t] \in Nat /\ pos[t] < rPtr /\ Full(pos[t])
      /\ data[Slot(pos[t])] \in Value \cup {NoValue}
  BY <1>1 DEF QueueInd, QueueTypeOK, ClaimInv, Claim, Removing
<1>3. QueueTypeOK'
  BY <1>1, <1>2 DEF QueueInd, QueueTypeOK, RemoveLabel
<1>4. \A u \in QueueThread :
        /\ Inserting(u)' <=> Inserting(u)
        /\ Removing(u)' <=> Removing(u)
        /\ u # t => qpc'[u] = qpc[u] /\ val'[u] = val[u]
        /\ Inserting(u) => u # t
  BY <1>1 DEF Inserting, Removing, QueueInd, QueueTypeOK
<1>5. Released' = Released
  BY <1>1, <1>4 DEF Released, Removing
<1>6. ASSUME NEW k \in Nat PROVE (Free(k) => Free(k)') /\ (Full(k) => Full(k)')
  <2>1. Before(k) => Before(k)'
    BY <1>5 DEF Before
  <2>. QED  BY <1>1, <1>4, <2>1 DEF Free, Full
<1>7. CellInv'
  BY <1>6 DEF QueueInd, CellInv
<1>8. ClaimInv'
  <2>. SUFFICES ASSUME NEW u \in QueueThread PROVE Claim(u)'
    BY DEF ClaimInv
  <2>1. pos[u] \in Nat /\ pos'[u] = pos[u] /\ Claim(u)
    BY <1>1 DEF QueueInd, QueueTypeOK, ClaimInv
  <2>. QED  BY <1>1, <1>4, <1>6, <2>1 DEF Claim
<1>9. UniqueInv'
  BY <1>1, <1>4 DEF QueueInd, UniqueInv
<1>10. LoadInv'
  BY <1>1, <1>4 DEF QueueInd, LoadInv, QueueTypeOK, InsertLabel
<1>11. OrderInv'
  <2>1. ASSUME NEW k \in Position, removed'[k] # NoValue
        PROVE  k < rPtr /\ removed'[k] = inserted[k]
    <3>1. CASE k = pos[t]
      BY <1>1, <1>2, <3>1 DEF QueueInd, QueueTypeOK, Full
    <3>2. CASE k # pos[t]
      BY <1>1, <2>1, <3>2 DEF QueueInd, QueueTypeOK, OrderInv
    <3>. QED  BY <3>1, <3>2
  <2>. QED  BY <1>1, <2>1, PointerType DEF OrderInv
<1>12. OfferInv'
  <2>1. Offering' = Offering
    BY <1>1 DEF Offering, QueueInd, QueueTypeOK
  <2>. QED  BY <1>1, <1>5, <2>1 DEF QueueInd, OfferInv
<1>. QED  BY <1>3, <1>7, <1>8, <1>9, <1>10, <1>11, <1>12 DEF QueueInd

LEMMA RemoveStoreInd ==
    ASSUME QueueInd, NEW t \in QueueThread, RemoveStore(t), dsize' = dsize PROVE QueueInd'
<1>. USE SlotFrame
<1>0. PICK p \in Nat : p = pos[t]
  BY DEF QueueInd, QueueTypeOK
<1>1. /\ qpc[t] = "removeStore" /\ qpc' = [qpc EXCEPT ![t] = "idle"]
      /\ sequence' = [sequence EXCEPT ![Slot(p)] = p + dsize]
      /\ pos' = [pos EXCEPT ![t] = 0] /\ val' = [val EXCEPT ![t] = NoValue]
      /\ UNCHANGED <<data, rPtr, wPtr, inserted, removed>>
  BY <1>0 DEF RemoveStore, Leave, Move
<1>2. Removing(t) /\ Full(p) /\ p < rPtr
  BY <1>0, <1>1 DEF QueueInd, ClaimInv, Claim, Removing
<1>3. QueueTypeOK'
  BY <1>1 DEF QueueInd, QueueTypeOK
<1>4. \A u \in QueueThread :
        /\ Inserting(u)' <=> Inserting(u)
        /\ Removing(u)' <=> Removing(u) /\ u # t
        /\ u # t => qpc'[u] = qpc[u] /\ pos'[u] = pos[u] /\ val'[u] = val[u]
        /\ Inserting(u) => u # t
  BY <1>1 DEF Inserting, Removing, QueueInd, QueueTypeOK
<1>5. Released' = Released \cup {p} /\ p \notin Released
  <2>1. \A u \in QueueThread : Removing(u) /\ u # t => pos[u] # p
    BY <1>0, <1>2 DEF QueueInd, UniqueInv
  <2>2. \A k \in 0 .. rPtr - 1 : k \in Released' <=> (k \in Released \/ k = p)
    BY <1>0, <1>1, <1>2, <1>4, <2>1 DEF Released, Removing
  <2>3. Released \subseteq 0 .. rPtr - 1 /\ Released' \subseteq 0 .. rPtr - 1 /\ p \in 0 .. rPtr - 1
    BY <1>1, <1>2, PointerType DEF Released
  <2>4. p \notin Released
    BY <1>0, <1>2 DEF Released, Removing
  <2>. QED  BY <2>2, <2>3, <2>4
<1>6. ASSUME NEW k \in Nat, Slot(k) # Slot(p) PROVE (Free(k) => Free(k)') /\ (Full(k) => Full(k)')
  <2>1. Before(k) => Before(k)'
    BY <1>5 DEF Before
  <2>2. sequence'[Slot(k)] = sequence[Slot(k)] /\ k # p
    BY <1>1, <1>6 DEF QueueInd, QueueTypeOK
  <2>3. Free(k) => Free(k)'
    BY <1>1, <1>4, <2>1, <2>2 DEF Free
  <2>4. Full(k) => Full(k)'
    BY <1>0, <1>1, <1>4, <2>1, <2>2 DEF Full
  <2>. QED  BY <2>3, <2>4
<1>7. PICK n \in Nat : n = p + dsize
  OBVIOUS
<1>8. Slot(n) = Slot(p) /\ Free(n)'
  <2>1. Slot(n) = Slot(p)
    BY <1>7
  <2>2. ASSUME NEW j \in 0 .. n - 1, Slot(j) = Slot(n) PROVE j \in Released'
    <3>1. CASE j < p
      BY <1>2, <1>5, <2>1, <2>2, <3>1 DEF Full, Before
    <3>2. CASE j = p
      BY <1>5, <3>2
    <3>3. CASE j > p
      BY <1>7, <2>1, <2>2, <3>3
    <3>. QED  BY <3>1, <3>2, <3>3
  <2>3. Before(n)'
    BY <2>2 DEF Before
  <2>4. sequence'[Slot(n)] = n
    BY <1>1, <1>7, <2>1 DEF QueueInd, QueueTypeOK
  <2>5. wPtr <= n /\ rPtr <= n
    BY <1>2, <1>7, PointerType DEF Full
  <2>. QED  BY <1>1, <2>1, <2>3, <2>4, <2>5, PointerType DEF Free
<1>9. CellInv'
  <2>. SUFFICES ASSUME NEW c \in Cell
                PROVE  \E k \in Nat : Slot(k)' = c /\ (Free(k)' \/ Full(k)')
    BY DEF CellInv
  <2>1. CASE c = Slot(p)
    BY <1>8, <2>1
  <2>2. CASE c # Slot(p)
    BY <1>6, <2>2 DEF QueueInd, CellInv
  <2>. QED  BY <2>1, <2>2
<1>10. ClaimInv'
  <2>. SUFFICES ASSUME NEW u \in QueueThread PROVE Claim(u)'
    BY DEF ClaimInv
  <2>1. CASE Inserting(u)' \/ Removing(u)'
    <3>1. u # t /\ pos'[u] = pos[u] /\ pos[u] \in Nat /\ Claim(u)
      BY <1>4, <2>1 DEF QueueInd, QueueTypeOK, ClaimInv
    <3>2. Slot(pos[u]) # Slot(p)
      BY <1>0, <1>2, <1>4, <2>1, <3>1, OneUse DEF QueueInd, UniqueInv, Claim
    <3>. QED  BY <1>1, <1>4, <1>6, <3>1, <3>2 DEF Claim
  <2>2. CASE ~Inserting(u)' /\ ~Removing(u)'
    BY <2>2 DEF Claim
  <2>. QED  BY <2>1, <2>2
<1>11. UniqueInv'
  BY <1>4 DEF QueueInd, UniqueInv
<1>12. LoadInv'
  <2>. SUFFICES ASSUME NEW u \in QueueThread \ {t}
       PROVE  /\ qpc[u] \in {"insertTest", "insertCas"} => pos[u] <= wPtr
              /\ qpc[u] \in {"removeTest", "removeCas"} => pos[u] <= rPtr
              /\ qpc[u] = "insertCas" /\ pos[u] = wPtr => sequence'[Slot(pos[u])] = pos[u]
              /\ qpc[u] = "removeCas" /\ pos[u] = rPtr => sequence'[Slot(pos[u])] = pos[u] + 1
              /\ qpc[u] \in InsertLabel => val[u] \in Value
    BY <1>1, <1>4 DEF QueueInd, QueueTypeOK, LoadInv, InsertLabel
  <2>1. pos[u] \in Nat /\ sequence \in [Cell -> Nat]
    BY DEF QueueInd, QueueTypeOK
  <2>2. ASSUME qpc[u] = "insertCas", pos[u] = wPtr PROVE sequence'[Slot(pos[u])] = pos[u]
    <3>1. sequence[Slot(pos[u])] = pos[u]
      BY <2>2 DEF QueueInd, LoadInv
    <3>2. CASE Slot(pos[u]) = Slot(p)
      <4>1. pos[u] = p + 1
        BY <1>2, <3>1, <3>2 DEF Full
      <4>2. dsize = 1
        BY <3>2, <4>1
      <4>. QED  BY <1>1, <2>1, <3>2, <4>1, <4>2
    <3>3. CASE Slot(pos[u]) # Slot(p)
      BY <1>1, <2>1, <3>1, <3>3
    <3>. QED  BY <3>2, <3>3
  <2>3. ASSUME qpc[u] = "removeCas", pos[u] = rPtr PROVE sequence'[Slot(pos[u])] = pos[u] + 1
    <3>1. sequence[Slot(pos[u])] = pos[u] + 1
      BY <2>3 DEF QueueInd, LoadInv
    <3>2. Slot(pos[u]) # Slot(p)
      BY <1>2, <2>1, <2>3, <3>1 DEF Full
    <3>. QED  BY <1>1, <2>1, <3>1, <3>2
  <2>. QED  BY <2>2, <2>3 DEF QueueInd, LoadInv
<1>13. OrderInv'
  BY <1>1 DEF QueueInd, OrderInv
<1>14. OfferInv'
  <2>1. Offering' = Offering
    BY <1>1 DEF Offering, QueueInd, QueueTypeOK
  <2>2. IsFiniteSet(Released)
    BY SetsFinite DEF QueueInd
  <2>3. Cardinality(Released') = Cardinality(Released) + 1
    BY <1>5, <2>2, FS_AddElement
  <2>. QED  BY <1>1, <2>1, <2>3, PointerType DEF QueueInd, OfferInv
<1>. QED  BY <1>3, <1>9, <1>10, <1>11, <1>12, <1>13, <1>14 DEF QueueInd

-----------------------------------------------------------------------------
LEMMA QueueStepInd == ASSUME QueueInd, [QueueNext]_queueVars PROVE QueueInd'
<1>1. ASSUME NEW t \in QueueThread, Step(t), dsize' = dsize PROVE QueueInd'
  <2>1. CASE InsertCas(t)
    BY <1>1, <2>1, InsertCasInd, InsertCasAgainInd
  <2>2. CASE RemoveCas(t)
    BY <1>1, <2>2, RemoveCasInd, RemoveCasAgainInd
  <2>. QED  BY <1>1, <2>1, <2>2, TryInsertInd, TryRemoveInd, LoadInd, TestInd,
               InsertWriteInd, InsertStoreInd, RemoveReadInd, RemoveStoreInd DEF Step
<1>2. CASE UNCHANGED queueVars
  BY <1>2 DEF queueVars, QueueInd, QueueTypeOK, CellInv, ClaimInv, Claim, UniqueInv, LoadInv,
     OrderInv, OfferInv, Free, Full, Before, Inserting, Removing, Offering, Released, Slot, Cell
<1>. QED  BY <1>1, <1>2 DEF QueueNext

(* Two elements that are both claimed and not given back are in different cells. *)
LEMMA NeverOverfullInd == ASSUME QueueInd PROVE NeverOverfull
<1>. USE PointerType, SetsFinite, SizeType, SlotFacts DEF QueueInd
<1>. DEFINE U == (0 .. wPtr - 1) \ Released
            f == [k \in U |-> Slot(k)]
<1>1. ASSUME NEW i \in U, NEW j \in U, i < j, Slot(i) = Slot(j) PROVE FALSE
  <2>1. PICK k \in Nat : Slot(k) = Slot(i) /\ (Free(k) \/ Full(k))
    BY DEF CellInv
  <2>2. wPtr <= k + dsize /\ Before(k)
    BY <2>1 DEF Free, Full
  <2>3. i + dsize <= j
    BY <1>1
  <2>4. i \in 0 .. k - 1
    BY <2>2, <2>3
  <2>. QED  BY <2>1, <2>2, <2>4 DEF Before
<1>2. f \in [U -> Cell]
  OBVIOUS
<1>3. f \in Injection(U, Cell)
  <2>1. \A i, j \in U : Slot(i) = Slot(j) => i = j
    BY <1>1
  <2>. QED  BY <1>2, <2>1 DEF Injection, IsInjective
<1>4. IsFiniteSet(Cell) /\ Cardinality(Cell) = dsize
  BY SegmentCount DEF Cell
<1>5. Cardinality(U) <= dsize
  BY <1>3, <1>4, FS_Injection
<1>6. /\ IsFiniteSet(0 .. wPtr - 1) /\ Cardinality(0 .. wPtr - 1) = wPtr
      /\ (0 .. wPtr - 1) \cap Released = Released
  <2>1. IsFiniteSet(0 .. wPtr - 1) /\ Cardinality(0 .. wPtr - 1) = wPtr
    BY SegmentCount
  <2>2. (0 .. wPtr - 1) \cap Released = Released
    BY DEF Released
  <2>. QED  BY <2>1, <2>2
<1>7. Cardinality(U) = wPtr - Cardinality(Released)
  BY <1>6, FS_Difference
<1>. QED  BY <1>5, <1>7 DEF NeverOverfull

(* A cell that two threads claimed would be used twice at once. *)
LEMMA CellsAreExclusiveInd == ASSUME QueueInd PROVE CellsAreExclusive
<1>. SUFFICES ASSUME NEW s \in QueueThread, NEW t \in QueueThread, s # t, Holds(s), Holds(t),
                     Slot(pos[s]) = Slot(pos[t])
              PROVE  FALSE
  BY DEF CellsAreExclusive
<1>1. /\ Claim(s) /\ Claim(t) /\ pos[s] \in Nat /\ pos[t] \in Nat
      /\ Inserting(s) \/ Removing(s)
      /\ Inserting(t) \/ Removing(t)
  BY DEF QueueInd, ClaimInv, QueueTypeOK, Holds, Inserting, Removing
<1>. QED  BY <1>1, OneUse DEF Claim, QueueInd, UniqueInv, Holds, Inserting, Removing

(***************************************************************************)
(* try_insert and try_remove keep the queue whole without a lock, whatever *)
(* the number of cells, of threads and of elements: in order and unchanged, *)
(* one thread to a cell, and never an element on top of another.           *)
(***************************************************************************)
THEOREM QueueKeepsOrder == QueueSpec => []QueueKept
<1>1. QueueInit => QueueInd
  BY QueueInitInd
<1>2. QueueInd /\ [QueueNext]_queueVars => QueueInd'
  BY QueueStepInd
<1>3. QueueInd => QueueKept
  <2>. SUFFICES ASSUME QueueInd PROVE QueueKept
    OBVIOUS
  <2>1. FirstInFirstOut
    BY DEF QueueInd, OrderInv, FirstInFirstOut
  <2>. QED  BY <2>1, NeverOverfullInd, CellsAreExclusiveInd DEF QueueKept, QueueInd
<1>. QED  BY <1>1, <1>2, <1>3, PTL DEF QueueSpec

-----------------------------------------------------------------------------
(* The memory pools. *)

PoolSpec == PoolInit /\ [][PoolNext]_poolVars

(* The lists by name, as <<kind, a, b>>: of thread a and size b, or the b-th shared one of size a. *)
ListNames ==
    {<<k, t, s>> : k \in {"free", "over"}, t \in PoolThread, s \in PoolSizes}
    \cup {n \in {"shared"} \X PoolSizes \X Nat : n[3] \in DOMAIN shared[n[2]]}
ListAt(n) ==
    IF n[1] = "free" THEN freelist[<<n[2], n[3]>>]
    ELSE IF n[1] = "over" THEN overflow[<<n[2], n[3]>>] ELSE shared[n[2]][n[3]]

PoolType ==
    /\ freelist \in [Pools -> Seq(Nat)] /\ overflow \in [Pools -> Seq(Nat)]
    /\ maxFreelist \in [Pools -> Nat] /\ balance \in [PoolThread -> Int]
    /\ shared \in [PoolSizes -> Seq(Seq(Nat))]
    /\ header \in Seq(PoolSizes \cup {0})
    /\ arenas \in Nat

(* An item that is in a list is not in use, and in no other place of a list. *)
ListedOnce ==
    /\ \A n \in ListNames : \A i \in DOMAIN ListAt(n) : ListAt(n)[i] \in Items \ Live
    /\ \A x \in Items \ Live : \E n \in ListNames : \E i \in DOMAIN ListAt(n) : ListAt(n)[i] = x
    /\ \A n, m \in ListNames : \A i \in DOMAIN ListAt(n), j \in DOMAIN ListAt(m) :
          ListAt(n)[i] = ListAt(m)[j] => n = m /\ i = j

PoolCounts ==
    /\ ListLength = Cardinality(Items \ Live)
    /\ Cardinality(Live) = SumFunction(balance)

PoolLengths ==
    /\ \A p \in Pools : Len(overflow[p]) < PerArena /\ Len(freelist[p]) <= maxFreelist[p]
    /\ \A s \in PoolSizes : \A m \in DOMAIN shared[s] : Len(shared[s][m]) = PerArena

PoolInd == PoolType /\ ListedOnce /\ PoolCounts /\ PoolLengths

LEMMA ListTypes ==
    ASSUME PoolType
    PROVE  /\ \A n \in ListNames : ListAt(n) \in Seq(Nat)
           /\ \A t \in PoolThread, s \in PoolSizes :
                 /\ <<"free", t, s>> \in ListNames /\ ListAt(<<"free", t, s>>) = freelist[<<t, s>>]
                 /\ <<"over", t, s>> \in ListNames /\ ListAt(<<"over", t, s>>) = overflow[<<t, s>>]
           /\ \A s \in PoolSizes : \A m \in DOMAIN shared[s] :
                 /\ <<"shared", s, m>> \in ListNames /\ ListAt(<<"shared", s, m>>) = shared[s][m]
           /\ \A n \in ListNames :
                 \/ \E t \in PoolThread, s \in PoolSizes : n = <<"free", t, s>> \/ n = <<"over", t, s>>
                 \/ \E s \in PoolSizes : \E m \in DOMAIN shared[s] : n = <<"shared", s, m>>
<1>1. \A s \in PoolSizes : shared[s] \in Seq(Seq(Nat)) /\ DOMAIN shared[s] = 1 .. Len(shared[s])
  BY DEF PoolType
<1>2. \A s \in PoolSizes : \A m \in DOMAIN shared[s] : m \in Nat /\ shared[s][m] \in Seq(Nat)
  BY <1>1
<1>3. \A t \in PoolThread, s \in PoolSizes :
         <<t, s>> \in Pools /\ freelist[<<t, s>>] \in Seq(Nat) /\ overflow[<<t, s>>] \in Seq(Nat)
  BY DEF PoolType, Pools
<1>4. \A n \in ListNames :
         \/ \E t \in PoolThread, s \in PoolSizes : n = <<"free", t, s>> \/ n = <<"over", t, s>>
         \/ \E s \in PoolSizes : \E m \in DOMAIN shared[s] : n = <<"shared", s, m>>
  BY DEF ListNames
<1>5. \A t \in PoolThread, s \in PoolSizes :
                 /\ <<"free", t, s>> \in ListNames /\ ListAt(<<"free", t, s>>) = freelist[<<t, s>>]
                 /\ <<"over", t, s>> \in ListNames /\ ListAt(<<"over", t, s>>) = overflow[<<t, s>>]
  BY DEF ListNames, ListAt
<1>6. \A s \in PoolSizes : \A m \in DOMAIN shared[s] :
                 /\ <<"shared", s, m>> \in ListNames /\ ListAt(<<"shared", s, m>>) = shared[s][m]
  BY <1>2 DEF ListNames, ListAt
<1>7. ASSUME NEW n \in ListNames PROVE ListAt(n) \in Seq(Nat)
  <2>1. ASSUME NEW t \in PoolThread, NEW s \in PoolSizes, n = <<"free", t, s>> \/ n = <<"over", t, s>>
        PROVE  ListAt(n) \in Seq(Nat)
    BY <2>1, <1>3, <1>5
  <2>2. ASSUME NEW s \in PoolSizes, NEW m \in DOMAIN shared[s], n = <<"shared", s, m>>
        PROVE  ListAt(n) \in Seq(Nat)
    BY <2>2, <1>2, <1>6
  <2>. QED  BY <1>4, <2>1, <2>2
<1>. QED  BY <1>4, <1>5, <1>6, <1>7

(* ItemsOnce follows. *)
LEMMA PoolIndIsOnce == ASSUME PoolInd PROVE ItemsOnce
<1>1. Listed = Items \ Live
  <2>1. ASSUME NEW x \in Listed PROVE x \in Items \ Live
    <3>1. PICK s \in PoolSizes : \E l \in ListsOf(s) : x \in Range(l)
      BY <2>1 DEF Listed
    <3>2. PICK l \in ListsOf(s) : x \in Range(l)
      BY <3>1
    <3>3. \E n \in ListNames : ListAt(n) = l
      BY <3>2, ListTypes DEF ListsOf, Range, PoolInd
    <3>. QED  BY <3>2, <3>3 DEF PoolInd, ListedOnce, Range
  <2>2. ASSUME NEW x \in Items \ Live PROVE x \in Listed
    <3>1. PICK n \in ListNames : \E i \in DOMAIN ListAt(n) : ListAt(n)[i] = x
      BY <2>2 DEF PoolInd, ListedOnce
    <3>2. \E s \in PoolSizes : ListAt(n) \in ListsOf(s)
      <4>. USE DEF PoolInd
      <4>1. ASSUME NEW t \in PoolThread, NEW s \in PoolSizes, n = <<"free", t, s>> \/ n = <<"over", t, s>>
            PROVE  ListAt(n) \in ListsOf(s)
        <5>1. freelist[<<t, s>>] \in ListsOf(s) /\ overflow[<<t, s>>] \in ListsOf(s)
          BY DEF ListsOf
        <5>. QED  BY <4>1, <5>1, ListTypes
      <4>2. ASSUME NEW s \in PoolSizes, NEW m \in DOMAIN shared[s], n = <<"shared", s, m>>
            PROVE  ListAt(n) \in ListsOf(s)
        <5>1. shared[s][m] \in ListsOf(s)
          BY DEF ListsOf, Range
        <5>. QED  BY <4>2, <5>1, ListTypes
      <4>. QED  BY <4>1, <4>2, ListTypes
    <3>3. x \in Range(ListAt(n))
      BY <3>1 DEF Range
    <3>. QED  BY <3>2, <3>3 DEF Listed
  <2>. QED  BY <2>1, <2>2
<1>2. \A s \in PoolSizes : \A l \in Range(shared[s]) : Len(l) = PerArena
  BY DEF PoolInd, PoolLengths, Range
<1>. QED  BY <1>1, <1>2 DEF PoolInd, PoolCounts, PoolLengths, ItemsOnce

LEMMA LengthSumZero ==
    ASSUME NEW S, IsFiniteSet(S), NEW l \in [S -> Seq(Nat)], \A x \in S : l[x] = <<>>
    PROVE  LengthSum(l) = 0
<1>. DEFINE f == [x \in DOMAIN l |-> Len(l[x])]
<1>1. f \in [S -> Int] /\ \A x \in S : f[x] = 0
  OBVIOUS
<1>2. SumFunction(f) = 0
  <2>. HIDE DEF f
  <2>. QED  BY <1>1, SumZero
<1>. QED  BY <1>2 DEF LengthSum

HaveLengths(l, S) == DOMAIN l = S /\ \A x \in S : Len(l[x]) \in Int

LEMMA LengthSumUpdate ==
    ASSUME NEW S, IsFiniteSet(S), NEW l, HaveLengths(l, S), NEW m, HaveLengths(m, S),
           NEW z \in S, DifferAt(m, l, z, S)
    PROVE  LengthSum(l) \in Int /\ LengthSum(m) = LengthSum(l) - Len(l[z]) + Len(m[z])
<1>. DEFINE f == [x \in DOMAIN l |-> Len(l[x])]
            g == [x \in DOMAIN m |-> Len(m[x])]
<1>1. f \in [S -> Int] /\ f[z] = Len(l[z])
  BY DEF HaveLengths
<1>2. g \in [S -> Int] /\ g[z] = Len(m[z]) /\ DifferAt(g, f, z, S)
  BY DEF DifferAt, HaveLengths
<1>3. LengthSum(l) = SumFunction(f) /\ LengthSum(m) = SumFunction(g)
  BY DEF LengthSum
<1>. HIDE DEF f, g
<1>4. SumFunction(f) \in Int
  BY <1>1, SumType
<1>5. SumFunction(g) = SumFunction(f) - f[z] + g[z]
  BY <1>1, <1>2, SumUpdate
<1>. QED  BY <1>1, <1>2, <1>3, <1>4, <1>5

LEMMA FiniteLists == IsFiniteSet(Pools) /\ IsFiniteSet(PoolSizes)
  BY PoolAssumption, FS_Product DEF Pools

LEMMA PoolInitInd == ASSUME PoolInit PROVE PoolInd
<1>. USE PoolAssumption
<1>1. PoolType
  BY DEF PoolInit, PoolType
<1>2. Items = {} /\ Live = {}
  BY DEF PoolInit, Items, Live
<1>3. \A n \in ListNames : ListAt(n) = <<>>
  BY DEF PoolInit, ListNames, ListAt, Pools
<1>4. ListedOnce
  BY <1>2, <1>3 DEF ListedOnce
<1>5. PoolCounts
  <2>1. \A l \in {freelist, overflow, shared} : LengthSum(l) = 0
    <3>1. freelist \in [Pools -> Seq(Nat)] /\ overflow \in [Pools -> Seq(Nat)]
          /\ shared \in [PoolSizes -> Seq(Nat)]
      BY DEF PoolInit
    <3>2. IsFiniteSet(Pools)
      BY FS_Product DEF Pools
    <3>3. (\A p \in Pools : freelist[p] = <<>> /\ overflow[p] = <<>>) /\ \A s \in PoolSizes : shared[s] = <<>>
      BY DEF PoolInit
    <3>. QED  BY <3>1, <3>2, <3>3, LengthSumZero
  <2>4. SumFunction(balance) = 0
    <3>1. balance \in [PoolThread -> Int] /\ \A t \in PoolThread : balance[t] = 0
      BY DEF PoolInit
    <3>. QED  BY <3>1, SumZero
  <2>5. Cardinality(Items \ Live) = 0 /\ Cardinality(Live) = 0
    BY <1>2, FS_EmptySet
  <2>6. ListLength = 0
    BY <2>1 DEF ListLength
  <2>. QED  BY <2>4, <2>5, <2>6 DEF PoolCounts
<1>6. PoolLengths
  BY DEF PoolInit, PoolLengths
<1>. QED  BY <1>1, <1>4, <1>5, <1>6 DEF PoolInd

(* An item comes into use. *)
LEMMA TakeInd ==
    ASSUME PoolInd, NEW p \in Pools, NEW x \in Items \ Live, Take(p, x)
    PROVE  /\ header' \in Seq(PoolSizes \cup {0}) /\ balance' \in [PoolThread -> Int]
           /\ Items' = Items /\ Live' = Live \cup {x}
           /\ Cardinality(Items \ Live) \in Int
           /\ Cardinality(Items' \ Live') = Cardinality(Items \ Live) - 1
           /\ Cardinality(Live') = SumFunction(balance')
<1>. USE PoolAssumption
<1>1. header \in Seq(PoolSizes \cup {0}) /\ balance \in [PoolThread -> Int] /\ Items = 1 .. Len(header)
  BY DEF PoolInd, PoolType, Items
<1>2. p[1] \in PoolThread /\ p[2] \in PoolSizes /\ p[2] # 0
  BY DEF Pools
<1>3. header' = [header EXCEPT ![x] = p[2]] /\ balance' = [balance EXCEPT ![p[1]] = @ + 1]
  BY DEF Take
<1>4. header' \in Seq(PoolSizes \cup {0}) /\ Len(header') = Len(header)
  BY <1>1, <1>2, <1>3
<1>5. Items' = Items /\ Live' = Live \cup {x}
  BY <1>1, <1>2, <1>3, <1>4 DEF Items, Live
<1>6. IsFiniteSet(Items) /\ IsFiniteSet(Live) /\ IsFiniteSet(Items \ Live)
  <2>1. IsFiniteSet(Items)
    BY <1>1, FS_Interval
  <2>2. Live \in SUBSET Items /\ Items \ Live \in SUBSET Items
    BY DEF Live
  <2>. QED  BY <2>1, <2>2, FS_Subset
<1>7. Items' \ Live' = (Items \ Live) \ {x} /\ x \notin Live
  BY <1>5
<1>8. /\ Cardinality(Items \ Live) \in Int /\ Cardinality(Live) \in Int
      /\ Cardinality(Items' \ Live') = Cardinality(Items \ Live) - 1
      /\ Cardinality(Live') = Cardinality(Live) + 1
  <2>1. Cardinality(Items \ Live) \in Nat /\ Cardinality(Live) \in Nat
    BY <1>6, FS_CardinalityType
  <2>2. Cardinality((Items \ Live) \ {x}) = Cardinality(Items \ Live) - 1
    BY <1>6, FS_RemoveElement
  <2>3. Cardinality(Live \cup {x}) = Cardinality(Live) + 1
    BY <1>6, <1>7, FS_AddElement
  <2>4. Cardinality(Items' \ Live') = Cardinality((Items \ Live) \ {x}) /\ Cardinality(Live') = Cardinality(Live \cup {x})
    BY <1>5, <1>7
  <2>. QED  BY <2>1, <2>2, <2>3, <2>4
<1>9. SumFunction(balance') = SumFunction(balance) + 1 /\ SumFunction(balance) \in Int
  <2>1. balance[p[1]] \in Int /\ balance[p[1]] + 1 \in Int
    BY <1>1, <1>2
  <2>2. balance' \in [PoolThread -> Int] /\ balance'[p[1]] = balance[p[1]] + 1
        /\ DifferAt(balance', balance, p[1], PoolThread)
    BY <1>1, <1>2, <1>3, <2>1 DEF DifferAt
  <2>3. SumFunction(balance') = SumFunction(balance) - balance[p[1]] + balance'[p[1]]
    <3>1. IsFiniteSet(PoolThread)
      OBVIOUS
    <3>2. PICK b : b = balance'
      OBVIOUS
    <3>3. SumFunction(b) = SumFunction(balance) - balance[p[1]] + b[p[1]]
      <4>1. PICK t \in PoolThread : t = p[1]
        BY <1>2
      <4>2. b \in [PoolThread -> Int] /\ DifferAt(b, balance, t, PoolThread)
        BY <4>1, <2>2, <3>2
      <4>3. SumFunction(b) = SumFunction(balance) - balance[t] + b[t]
        BY <1>1, <4>2, <3>1, SumUpdate
      <4>. QED  BY <4>1, <4>3
    <3>. QED  BY <3>2, <3>3
  <2>4. SumFunction(balance) \in Int
    BY <1>1, SumType
  <2>. QED  BY <2>1, <2>2, <2>3, <2>4
<1>10. balance' \in [PoolThread -> Int]
  BY <1>1, <1>2, <1>3
<1>. QED  BY <1>4, <1>5, <1>8, <1>9, <1>10 DEF PoolInd, PoolCounts

(* An item is given back. *)
LEMMA GiveBackInd ==
    ASSUME PoolInd, NEW t \in PoolThread, NEW x \in Live,
           header' = [header EXCEPT ![x] = 0], balance' = [balance EXCEPT ![t] = @ - 1]
    PROVE  /\ header[x] \in PoolSizes
           /\ header' \in Seq(PoolSizes \cup {0}) /\ balance' \in [PoolThread -> Int]
           /\ Items' = Items /\ Live' = Live \ {x}
           /\ Cardinality(Items \ Live) \in Int
           /\ Cardinality(Items' \ Live') = Cardinality(Items \ Live) + 1
           /\ Cardinality(Live') = SumFunction(balance')
<1>. USE PoolAssumption
<1>1. header \in Seq(PoolSizes \cup {0}) /\ balance \in [PoolThread -> Int] /\ Items = 1 .. Len(header)
  BY DEF PoolInd, PoolType, Items
<1>2. x \in Items /\ header[x] # 0 /\ header[x] \in PoolSizes
  BY <1>1 DEF Live
<1>4. header' \in Seq(PoolSizes \cup {0}) /\ Len(header') = Len(header)
  BY <1>1, <1>2
<1>5. Items' = Items /\ Live' = Live \ {x}
  BY <1>1, <1>2, <1>4 DEF Items, Live
<1>6. IsFiniteSet(Items) /\ IsFiniteSet(Live) /\ IsFiniteSet(Items \ Live)
  <2>1. IsFiniteSet(Items)
    BY <1>1, FS_Interval
  <2>2. Live \in SUBSET Items /\ Items \ Live \in SUBSET Items
    BY DEF Live
  <2>. QED  BY <2>1, <2>2, FS_Subset
<1>7. Items' \ Live' = (Items \ Live) \cup {x} /\ x \notin Items \ Live
  BY <1>2, <1>5
<1>8. /\ Cardinality(Items \ Live) \in Int /\ Cardinality(Live) \in Int
      /\ Cardinality(Items' \ Live') = Cardinality(Items \ Live) + 1
      /\ Cardinality(Live') = Cardinality(Live) - 1
  <2>1. Cardinality(Items \ Live) \in Nat /\ Cardinality(Live) \in Nat
    BY <1>6, FS_CardinalityType
  <2>2. Cardinality((Items \ Live) \cup {x}) = Cardinality(Items \ Live) + 1
    BY <1>6, <1>7, FS_AddElement
  <2>3. Cardinality(Live \ {x}) = Cardinality(Live) - 1
    BY <1>6, FS_RemoveElement
  <2>4. Cardinality(Items' \ Live') = Cardinality((Items \ Live) \cup {x}) /\ Cardinality(Live') = Cardinality(Live \ {x})
    BY <1>5, <1>7
  <2>. QED  BY <2>1, <2>2, <2>3, <2>4
<1>9. SumFunction(balance') = SumFunction(balance) - 1 /\ SumFunction(balance) \in Int
  <2>1. balance[t] \in Int /\ balance[t] - 1 \in Int
    BY <1>1
  <2>2. balance' \in [PoolThread -> Int] /\ balance'[t] = balance[t] - 1
        /\ DifferAt(balance', balance, t, PoolThread)
    BY <1>1, <2>1 DEF DifferAt
  <2>3. SumFunction(balance') = SumFunction(balance) - balance[t] + balance'[t]
    <3>1. IsFiniteSet(PoolThread)
      OBVIOUS
    <3>2. PICK b : b = balance'
      OBVIOUS
    <3>3. SumFunction(b) = SumFunction(balance) - balance[t] + b[t]
      <4>1. b \in [PoolThread -> Int] /\ DifferAt(b, balance, t, PoolThread) /\ t \in PoolThread
        BY <1>2, <2>2, <3>2
      <4>. QED  BY <1>1, <4>1, <3>1, SumUpdate
    <3>. QED  BY <3>2, <3>3
  <2>4. SumFunction(balance) \in Int
    BY <1>1, SumType
  <2>. QED  BY <2>1, <2>2, <2>3, <2>4
<1>10. balance' \in [PoolThread -> Int]
  BY <1>1
<1>. QED  BY <1>2, <1>4, <1>5, <1>8, <1>9, <1>10 DEF PoolInd, PoolCounts

LEMMA FrontOfList ==
    ASSUME NEW V, NEW l \in Seq(V), l # <<>>
    PROVE  /\ Front(l) \in Seq(V) /\ Len(Front(l)) = Len(l) - 1 /\ Len(l) \in DOMAIN l
           /\ DOMAIN Front(l) = 1 .. Len(l) - 1 /\ DOMAIN l = 1 .. Len(l)
           /\ \A i \in 1 .. Len(l) - 1 : Front(l)[i] = l[i] /\ i \in DOMAIN l
           /\ Last(l) = l[Len(l)] /\ Last(l) \in V /\ Len(l) \in Nat \ {0}
<1>. DEFINE k == Len(l) - 1
<1>1. k \in Nat /\ Len(l) \in Nat /\ DOMAIN l = 1 .. Len(l) /\ \A i \in 1 .. Len(l) : l[i] \in V
  OBVIOUS
<1>2. /\ SubSeq(l, 1, k) \in Seq(V)
      /\ Len(SubSeq(l, 1, k)) = IF 1 <= k THEN k - 1 + 1 ELSE 0
      /\ \A i \in 1 .. k - 1 + 1 : SubSeq(l, 1, k)[i] = l[1 + i - 1]
  <2>1. 1 \in Int /\ k \in Int /\ \A i \in 1 .. k : l[i] \in V
    BY <1>1
  <2>. HIDE DEF k
  <2>. QED  BY <2>1, SubSeqProperties
<1>. HIDE DEF k
<1>3. Front(l) \in Seq(V) /\ Len(Front(l)) = k /\ \A i \in 1 .. k : Front(l)[i] = l[i]
  <2>1. Front(l) = SubSeq(l, 1, k)
    BY DEF Front, k
  <2>. QED  BY <1>1, <1>2, <2>1
<1>4. DOMAIN Front(l) = 1 .. k
  BY <1>3
<1>. QED  BY <1>1, <1>3, <1>4 DEF k, Last

(***************************************************************************)
(* The lists after a step as they were before, where the list that is now  *)
(* called n was called was[n].                                             *)
(***************************************************************************)
Stays(n, i, m) ==
    /\ m \in ListNames /\ i \in DOMAIN ListAt(m) /\ i \in DOMAIN ListAt(n)'
    /\ ListAt(n)'[i] = ListAt(m)[i]

(* An item leaves the lists, from place k of list n0. *)
LEMMA ItemLeaves ==
    ASSUME ListedOnce, NEW n0 \in ListNames, NEW k \in DOMAIN ListAt(n0), NEW x, x = ListAt(n0)[k],
           Items' = Items, Live' = Live \cup {x}, NEW was,
           \A n \in ListNames' : \A i \in DOMAIN ListAt(n)' :
               Stays(n, i, was[n]) /\ ~(was[n] = n0 /\ i = k),
           \A m \in ListNames : \A i \in DOMAIN ListAt(m) : ~(m = n0 /\ i = k) =>
               \E n \in ListNames' : Stays(n, i, m),
           \A n, m \in ListNames' : ListAt(n)' # <<>> /\ ListAt(m)' # <<>> /\ was[n] = was[m] => n = m
    PROVE  ListedOnce'
<1>1. ASSUME NEW n \in ListNames', NEW i \in DOMAIN ListAt(n)'
      PROVE  ListAt(n)'[i] \in Items \ (Live \cup {x})
  BY DEF ListedOnce, Stays
<1>2. ASSUME NEW y \in Items \ (Live \cup {x})
      PROVE  \E n \in ListNames' : \E i \in DOMAIN ListAt(n)' : ListAt(n)'[i] = y
  <2>1. PICK m \in ListNames : \E i \in DOMAIN ListAt(m) : ListAt(m)[i] = y
    BY DEF ListedOnce
  <2>2. PICK i \in DOMAIN ListAt(m) : ListAt(m)[i] = y
    BY <2>1
  <2>3. ~(m = n0 /\ i = k)
    BY <2>2
  <2>. QED  BY <2>2, <2>3 DEF Stays
<1>3. ASSUME NEW n \in ListNames', NEW m \in ListNames',
             NEW i \in DOMAIN ListAt(n)', NEW j \in DOMAIN ListAt(m)',
             ListAt(n)'[i] = ListAt(m)'[j]
      PROVE  n = m /\ i = j
  <2>1. ListAt(n)' # <<>> /\ ListAt(m)' # <<>>
    OBVIOUS
  <2>2. was[n] = was[m] /\ i = j
    BY <1>3 DEF ListedOnce, Stays
  <2>. QED  BY <2>1, <2>2
<1>. QED  BY <1>1, <1>2, <1>3 DEF ListedOnce

(* An item comes into the lists, at place k of list n0. *)
LEMMA ItemComes ==
    ASSUME ListedOnce, NEW n0 \in ListNames', NEW k \in DOMAIN ListAt(n0)', NEW x \in Live,
           ListAt(n0)'[k] = x,
           Items' = Items, Live' = Live \ {x}, NEW was,
           \A n \in ListNames' : \A i \in DOMAIN ListAt(n)' : ~(n = n0 /\ i = k) =>
               Stays(n, i, was[n]),
           \A m \in ListNames : \A i \in DOMAIN ListAt(m) : \E n \in ListNames' : Stays(n, i, m),
           \A n, m \in ListNames' : ListAt(n)' # <<>> /\ ListAt(m)' # <<>> /\ was[n] = was[m] => n = m
    PROVE  ListedOnce'
<1>0. x \in Items
  BY DEF Live
<1>1. ASSUME NEW n \in ListNames', NEW i \in DOMAIN ListAt(n)'
      PROVE  ListAt(n)'[i] \in Items \ (Live \ {x})
  BY <1>0 DEF ListedOnce, Stays
<1>2. ASSUME NEW y \in Items \ (Live \ {x})
      PROVE  \E n \in ListNames' : \E i \in DOMAIN ListAt(n)' : ListAt(n)'[i] = y
  <2>1. CASE y = x
    BY <2>1
  <2>2. CASE y # x
    <3>1. PICK m \in ListNames : \E i \in DOMAIN ListAt(m) : ListAt(m)[i] = y
      BY <2>2 DEF ListedOnce
    <3>2. PICK i \in DOMAIN ListAt(m) : ListAt(m)[i] = y
      BY <3>1
    <3>. QED  BY <3>2 DEF Stays
  <2>. QED  BY <2>1, <2>2
<1>3. ASSUME NEW n \in ListNames', NEW m \in ListNames',
             NEW i \in DOMAIN ListAt(n)', NEW j \in DOMAIN ListAt(m)',
             ListAt(n)'[i] = ListAt(m)'[j]
      PROVE  n = m /\ i = j
  <2>1. ListAt(n)' # <<>> /\ ListAt(m)' # <<>>
    OBVIOUS
  <2>2. CASE (n = n0 /\ i = k) \/ (m = n0 /\ j = k)
    BY <1>3, <2>2 DEF ListedOnce, Stays
  <2>3. CASE ~(n = n0 /\ i = k) /\ ~(m = n0 /\ j = k)
    <3>1. was[n] = was[m] /\ i = j
      BY <1>3, <2>3 DEF ListedOnce, Stays
    <3>. QED  BY <2>1, <3>1
  <2>. QED  BY <2>2, <2>3
<1>. QED  BY <1>1, <1>2, <1>3 DEF ListedOnce

LEMMA SumsAreInt ==
    ASSUME PoolType
    PROVE  /\ LengthSum(freelist) \in Int /\ LengthSum(overflow) \in Int
           /\ LengthSum(shared) \in Int /\ PerArena * LengthSum(shared) \in Int
<1>1. IsFiniteSet(Pools) /\ IsFiniteSet(PoolSizes) /\ PerArena \in Int
  BY PoolAssumption, FS_Product DEF Pools
<1>2. ASSUME NEW S, IsFiniteSet(S), NEW V, NEW l \in [S -> Seq(V)] PROVE LengthSum(l) \in Int
  <2>. DEFINE f == [x \in DOMAIN l |-> Len(l[x])]
  <2>1. f \in [S -> Int]
    OBVIOUS
  <2>. HIDE DEF f
  <2>2. SumFunction(f) \in Int
    BY <2>1, <1>2, SumType
  <2>. QED  BY <2>2 DEF LengthSum, f
<1>3. LengthSum(freelist) \in Int /\ LengthSum(overflow) \in Int
  BY <1>1, <1>2 DEF PoolType
<1>4. LengthSum(shared) \in Int
  BY <1>1, <1>2 DEF PoolType
<1>. QED  BY <1>1, <1>3, <1>4

LEMMA NewFromFreelistInd ==
    ASSUME PoolInd, NEW p \in Pools, NewFromFreelist(p)
    PROVE  PoolInd'
<1>. USE PoolAssumption
<1>1. PICK t \in PoolThread, s \in PoolSizes : p = <<t, s>>
  BY DEF Pools
<1>. DEFINE n0 == <<"free", t, s>>
            l == freelist[p]
            x == Last(l)
<1>2. PoolType /\ ListedOnce
  BY DEF PoolInd
<1>3. l \in Seq(Nat) /\ l # <<>> /\ n0 \in ListNames /\ ListAt(n0) = l
  BY <1>1, <1>2, ListTypes DEF PoolType, NewFromFreelist
<1>4. /\ Front(l) \in Seq(Nat) /\ Len(Front(l)) = Len(l) - 1 /\ Len(l) \in DOMAIN l
      /\ DOMAIN Front(l) = 1 .. Len(l) - 1 /\ DOMAIN l = 1 .. Len(l)
      /\ \A i \in 1 .. Len(l) - 1 : Front(l)[i] = l[i] /\ i \in DOMAIN l
      /\ x = l[Len(l)] /\ Len(l) \in Nat \ {0}
  BY <1>3, FrontOfList
<1>5. x \in Items \ Live
  BY <1>2, <1>3, <1>4 DEF ListedOnce
<1>6. Take(p, x) /\ freelist' = [freelist EXCEPT ![p] = Front(l)]
      /\ UNCHANGED <<overflow, maxFreelist, shared, arenas>>
  BY DEF NewFromFreelist
<1>7. /\ header' \in Seq(PoolSizes \cup {0}) /\ balance' \in [PoolThread -> Int]
      /\ Items' = Items /\ Live' = Live \cup {x}
      /\ Cardinality(Items \ Live) \in Int
      /\ Cardinality(Items' \ Live') = Cardinality(Items \ Live) - 1
      /\ Cardinality(Live') = SumFunction(balance')
  BY <1>5, <1>6, TakeInd
<1>8. PoolType'
  BY <1>2, <1>4, <1>6, <1>7 DEF PoolType
<1>9. ListNames' = ListNames /\ ListAt(n0)' = Front(l)
  BY <1>1, <1>2, <1>6 DEF ListNames, ListAt, PoolType
<1>10. ASSUME NEW n \in ListNames, n # n0 PROVE ListAt(n)' = ListAt(n)
  <2>1. CASE \E u \in PoolThread, r \in PoolSizes : n = <<"free", u, r>>
    BY <2>1, <1>1, <1>2, <1>6, <1>10 DEF ListAt, PoolType
  <2>2. CASE n[1] # "free"
    BY <2>2, <1>6 DEF ListAt
  <2>. QED  BY <2>1, <2>2, <1>2, ListTypes
<1>11. ListedOnce'
  <2>. DEFINE was == [n \in ListNames |-> n]
  <2>. HIDE DEF n0, l, x
  <2>1. ASSUME NEW n \in ListNames', NEW i \in DOMAIN ListAt(n)'
        PROVE  Stays(n, i, was[n]) /\ ~(was[n] = n0 /\ i = Len(l))
    <3>1. CASE n = n0
      BY <3>1, <1>3, <1>4, <1>9 DEF Stays
    <3>2. CASE n # n0
      BY <3>2, <1>9, <1>10 DEF Stays
    <3>. QED  BY <3>1, <3>2
  <2>2. ASSUME NEW n \in ListNames, NEW i \in DOMAIN ListAt(n), ~(n = n0 /\ i = Len(l))
        PROVE  n \in ListNames' /\ Stays(n, i, n)
    <3>1. CASE n = n0
      BY <3>1, <2>2, <1>3, <1>4, <1>9 DEF Stays
    <3>2. CASE n # n0
      BY <3>2, <1>9, <1>10 DEF Stays
    <3>. QED  BY <3>1, <3>2
  <2>3. \A n, m \in ListNames' : was[n] = was[m] => n = m
    BY <1>9
  <2>4. Len(l) \in DOMAIN ListAt(n0) /\ x = ListAt(n0)[Len(l)]
    BY <1>3, <1>4
  <2>. HIDE DEF was
  <2>. QED  BY <2>1, <2>2, <2>3, <2>4, <1>2, <1>3, <1>7, ItemLeaves
<1>12. PoolCounts'
  <2>1. LengthSum(freelist) \in Int /\ LengthSum(freelist') = LengthSum(freelist) - Len(l) + Len(Front(l))
    <3>1. PICK m : m = freelist'
      OBVIOUS
    <3>2. freelist \in [Pools -> Seq(Nat)] /\ m = [freelist EXCEPT ![p] = Front(l)] /\ Front(l) \in Seq(Nat)
      BY <3>1, <1>2, <1>4, <1>6 DEF PoolType
    <3>3. HaveLengths(freelist, Pools) /\ HaveLengths(m, Pools) /\ DifferAt(m, freelist, p, Pools)
          /\ m[p] = Front(l)
      BY <3>2 DEF HaveLengths, DifferAt
    <3>4. LengthSum(freelist) \in Int /\ LengthSum(m) = LengthSum(freelist) - Len(freelist[p]) + Len(m[p])
      BY <3>3, FiniteLists, LengthSumUpdate
    <3>. QED  BY <3>1, <3>3, <3>4
  <2>2. /\ LengthSum(overflow') = LengthSum(overflow) /\ LengthSum(shared') = LengthSum(shared)
        /\ LengthSum(overflow) \in Int /\ PerArena * LengthSum(shared) \in Int
    BY <1>2, <1>6, SumsAreInt DEF PoolType
  <2>3. ListLength' = ListLength - 1
    BY <2>1, <2>2, <1>4 DEF ListLength
  <2>. QED  BY <2>3, <1>7 DEF PoolInd, PoolCounts
<1>13. PoolLengths'
  BY <1>2, <1>4, <1>6 DEF PoolInd, PoolLengths, PoolType
<1>. QED  BY <1>8, <1>11, <1>12, <1>13 DEF PoolInd

LEMMA NewFromOverflowInd ==
    ASSUME PoolInd, NEW p \in Pools, NewFromOverflow(p)
    PROVE  PoolInd'
<1>. USE PoolAssumption
<1>1. PICK t \in PoolThread, s \in PoolSizes : p = <<t, s>>
  BY DEF Pools
<1>. DEFINE n0 == <<"over", t, s>>
            l == overflow[p]
            x == Last(l)
<1>2. PoolType /\ ListedOnce
  BY DEF PoolInd
<1>3. l \in Seq(Nat) /\ l # <<>> /\ n0 \in ListNames /\ ListAt(n0) = l
  BY <1>1, <1>2, ListTypes DEF PoolType, NewFromOverflow
<1>4. /\ Front(l) \in Seq(Nat) /\ Len(Front(l)) = Len(l) - 1 /\ Len(l) \in DOMAIN l
      /\ DOMAIN Front(l) = 1 .. Len(l) - 1 /\ DOMAIN l = 1 .. Len(l)
      /\ \A i \in 1 .. Len(l) - 1 : Front(l)[i] = l[i] /\ i \in DOMAIN l
      /\ x = l[Len(l)] /\ Len(l) \in Nat \ {0}
  BY <1>3, FrontOfList
<1>5. x \in Items \ Live
  BY <1>2, <1>3, <1>4 DEF ListedOnce
<1>6. Take(p, x) /\ overflow' = [overflow EXCEPT ![p] = Front(l)]
      /\ UNCHANGED <<freelist, maxFreelist, shared, arenas>>
  BY DEF NewFromOverflow
<1>7. /\ header' \in Seq(PoolSizes \cup {0}) /\ balance' \in [PoolThread -> Int]
      /\ Items' = Items /\ Live' = Live \cup {x}
      /\ Cardinality(Items \ Live) \in Int
      /\ Cardinality(Items' \ Live') = Cardinality(Items \ Live) - 1
      /\ Cardinality(Live') = SumFunction(balance')
  BY <1>5, <1>6, TakeInd
<1>8. PoolType'
  BY <1>2, <1>4, <1>6, <1>7 DEF PoolType
<1>9. ListNames' = ListNames /\ ListAt(n0)' = Front(l)
  BY <1>1, <1>2, <1>6 DEF ListNames, ListAt, PoolType
<1>10. ASSUME NEW n \in ListNames, n # n0 PROVE ListAt(n)' = ListAt(n)
  <2>1. CASE \E u \in PoolThread, r \in PoolSizes : n = <<"over", u, r>>
    BY <2>1, <1>1, <1>2, <1>6, <1>10 DEF ListAt, PoolType
  <2>2. CASE n[1] # "over"
    BY <2>2, <1>6 DEF ListAt
  <2>. QED  BY <2>1, <2>2, <1>2, ListTypes
<1>11. ListedOnce'
  <2>. DEFINE was == [n \in ListNames |-> n]
  <2>. HIDE DEF n0, l, x
  <2>1. ASSUME NEW n \in ListNames', NEW i \in DOMAIN ListAt(n)'
        PROVE  Stays(n, i, was[n]) /\ ~(was[n] = n0 /\ i = Len(l))
    <3>1. CASE n = n0
      BY <3>1, <1>3, <1>4, <1>9 DEF Stays
    <3>2. CASE n # n0
      BY <3>2, <1>9, <1>10 DEF Stays
    <3>. QED  BY <3>1, <3>2
  <2>2. ASSUME NEW n \in ListNames, NEW i \in DOMAIN ListAt(n), ~(n = n0 /\ i = Len(l))
        PROVE  n \in ListNames' /\ Stays(n, i, n)
    <3>1. CASE n = n0
      BY <3>1, <2>2, <1>3, <1>4, <1>9 DEF Stays
    <3>2. CASE n # n0
      BY <3>2, <1>9, <1>10 DEF Stays
    <3>. QED  BY <3>1, <3>2
  <2>3. \A n, m \in ListNames' : was[n] = was[m] => n = m
    BY <1>9
  <2>4. Len(l) \in DOMAIN ListAt(n0) /\ x = ListAt(n0)[Len(l)]
    BY <1>3, <1>4
  <2>. HIDE DEF was
  <2>. QED  BY <2>1, <2>2, <2>3, <2>4, <1>2, <1>3, <1>7, ItemLeaves
<1>12. PoolCounts'
  <2>1. LengthSum(overflow) \in Int /\ LengthSum(overflow') = LengthSum(overflow) - Len(l) + Len(Front(l))
    <3>1. PICK m : m = overflow'
      OBVIOUS
    <3>2. overflow \in [Pools -> Seq(Nat)] /\ m = [overflow EXCEPT ![p] = Front(l)] /\ Front(l) \in Seq(Nat)
      BY <3>1, <1>2, <1>4, <1>6 DEF PoolType
    <3>3. HaveLengths(overflow, Pools) /\ HaveLengths(m, Pools) /\ DifferAt(m, overflow, p, Pools)
          /\ m[p] = Front(l)
      BY <3>2 DEF HaveLengths, DifferAt
    <3>4. LengthSum(overflow) \in Int /\ LengthSum(m) = LengthSum(overflow) - Len(overflow[p]) + Len(m[p])
      BY <3>3, FiniteLists, LengthSumUpdate
    <3>. QED  BY <3>1, <3>3, <3>4
  <2>2. /\ LengthSum(freelist') = LengthSum(freelist) /\ LengthSum(shared') = LengthSum(shared)
        /\ LengthSum(freelist) \in Int /\ PerArena * LengthSum(shared) \in Int
    BY <1>2, <1>6, SumsAreInt DEF PoolType
  <2>3. ListLength' = ListLength - 1
    BY <2>1, <2>2, <1>4 DEF ListLength
  <2>. QED  BY <2>3, <1>7 DEF PoolInd, PoolCounts
<1>13. PoolLengths'
  BY <1>2, <1>4, <1>6 DEF PoolInd, PoolLengths, PoolType
<1>. QED  BY <1>8, <1>11, <1>12, <1>13 DEF PoolInd

LEMMA NewFromSharedInd ==
    ASSUME PoolInd, NEW p \in Pools, NewFromShared(p)
    PROVE  PoolInd'
<1>. USE PoolAssumption
<1>1. PICK t \in PoolThread, s \in PoolSizes : p = <<t, s>>
  BY DEF Pools
<1>. DEFINE lists == shared[s]
            L == Len(lists)
            n0 == <<"over", t, s>>
            n1 == <<"shared", s, L>>
            l == lists[L]
            x == Last(l)
<1>2. PoolType /\ ListedOnce /\ PoolLengths
  BY DEF PoolInd
<1>3. lists \in Seq(Seq(Nat)) /\ lists # <<>> /\ freelist[p] = <<>> /\ overflow[p] = <<>>
  BY <1>1, <1>2 DEF PoolType, NewFromShared
<1>4. /\ Front(lists) \in Seq(Seq(Nat)) /\ Len(Front(lists)) = L - 1 /\ L \in DOMAIN lists
      /\ DOMAIN Front(lists) = 1 .. L - 1 /\ DOMAIN lists = 1 .. L
      /\ \A i \in 1 .. L - 1 : Front(lists)[i] = lists[i] /\ i \in DOMAIN lists
      /\ Last(lists) = l /\ l \in Seq(Nat) /\ L \in Nat \ {0}
  <2>. HIDE DEF lists
  <2>1. /\ Front(lists) \in Seq(Seq(Nat)) /\ Len(Front(lists)) = Len(lists) - 1
        /\ Len(lists) \in DOMAIN lists
        /\ DOMAIN Front(lists) = 1 .. Len(lists) - 1 /\ DOMAIN lists = 1 .. Len(lists)
        /\ \A i \in 1 .. Len(lists) - 1 : Front(lists)[i] = lists[i] /\ i \in DOMAIN lists
        /\ Last(lists) = lists[Len(lists)] /\ Last(lists) \in Seq(Nat) /\ Len(lists) \in Nat \ {0}
    BY <1>3, FrontOfList
  <2>. QED  BY <2>1
<1>5. n1 \in ListNames /\ ListAt(n1) = l /\ Len(l) = PerArena /\ l # <<>>
  BY <1>1, <1>2, <1>4, ListTypes DEF PoolLengths
<1>6. /\ Front(l) \in Seq(Nat) /\ Len(Front(l)) = Len(l) - 1 /\ Len(l) \in DOMAIN l
      /\ DOMAIN Front(l) = 1 .. Len(l) - 1 /\ DOMAIN l = 1 .. Len(l)
      /\ \A i \in 1 .. Len(l) - 1 : Front(l)[i] = l[i] /\ i \in DOMAIN l
      /\ x = l[Len(l)] /\ Len(l) \in Nat \ {0}
  BY <1>4, <1>5, FrontOfList
<1>7. x \in Items \ Live
  BY <1>2, <1>5, <1>6 DEF ListedOnce
<1>8. Take(p, x) /\ overflow' = [overflow EXCEPT ![p] = Front(l)]
      /\ shared' = [shared EXCEPT ![s] = Front(lists)]
      /\ UNCHANGED <<freelist, maxFreelist, arenas>>
  <2>1. p[2] = s
    BY <1>1
  <2>. QED  BY <1>4, <2>1 DEF NewFromShared
<1>9. /\ header' \in Seq(PoolSizes \cup {0}) /\ balance' \in [PoolThread -> Int]
      /\ Items' = Items /\ Live' = Live \cup {x}
      /\ Cardinality(Items \ Live) \in Int
      /\ Cardinality(Items' \ Live') = Cardinality(Items \ Live) - 1
      /\ Cardinality(Live') = SumFunction(balance')
  BY <1>7, <1>8, TakeInd
<1>10. PoolType'
  BY <1>2, <1>4, <1>6, <1>8, <1>9 DEF PoolType
<1>11. /\ DOMAIN shared'[s] = 1 .. L - 1 /\ \A k \in 1 .. L - 1 : shared'[s][k] = shared[s][k]
       /\ \A r \in PoolSizes : r # s => shared'[r] = shared[r]
  BY <1>2, <1>4, <1>8 DEF PoolType
<1>12. n0 \in ListNames /\ n0 \in ListNames' /\ n0 # n1 /\ ListAt(n0) = <<>> /\ ListAt(n0)' = Front(l)
  BY <1>1, <1>2, <1>3, <1>8 DEF ListNames, ListAt, PoolType
<1>13. ListNames' = ListNames \ {n1}
  <2>1. \A r \in PoolSizes : DOMAIN shared[r] \subseteq Nat /\ DOMAIN shared'[r] \subseteq Nat
    <3>1. \A r \in PoolSizes : shared[r] \in Seq(Seq(Nat)) /\ shared'[r] \in Seq(Seq(Nat))
      BY <1>2, <1>10 DEF PoolType
    <3>2. \A q \in Seq(Seq(Nat)) : DOMAIN q = 1 .. Len(q) /\ Len(q) \in Nat
      OBVIOUS
    <3>3. \A q \in Seq(Seq(Nat)) : DOMAIN q \subseteq Nat
      BY <3>2
    <3>. QED  BY <3>1, <3>3
  <2>2. \A r \in PoolSizes : \A k : k \in DOMAIN shared'[r] <=> k \in DOMAIN shared[r] /\ ~(r = s /\ k = L)
    <3>1. \A k : k \in DOMAIN shared'[s] <=> k \in DOMAIN shared[s] /\ k # L
      BY <1>11, <1>4
    <3>. QED  BY <3>1, <1>11
  <2>. QED  BY <2>1, <2>2 DEF ListNames
<1>14. ASSUME NEW n \in ListNames, n # n0, n # n1 PROVE ListAt(n)' = ListAt(n)
  <2>1. CASE \E u \in PoolThread, r \in PoolSizes : n = <<"free", u, r>> \/ n = <<"over", u, r>>
    BY <2>1, <1>1, <1>2, <1>8, <1>14 DEF ListAt, PoolType
  <2>2. ASSUME NEW r \in PoolSizes, NEW k \in DOMAIN shared[r], n = <<"shared", r, k>>
        PROVE  ListAt(n)' = ListAt(n)
    <3>1. shared'[r][k] = shared[r][k]
      <4>1. CASE r = s
        <5>1. k \in 1 .. L /\ k # L
          BY <2>2, <4>1, <1>4, <1>14
        <5>2. k \in 1 .. L - 1
          BY <5>1, <1>4
        <5>. QED  BY <5>2, <4>1, <1>11
      <4>2. CASE r # s
        BY <4>2, <1>11
      <4>. QED  BY <4>1, <4>2
    <3>. QED  BY <2>2, <3>1 DEF ListAt
  <2>. QED  BY <2>1, <2>2, <1>2, ListTypes
<1>15. ListedOnce'
  <2>. DEFINE was == [n \in ListNames |-> IF n = n0 THEN n1 ELSE n]
  <2>. HIDE DEF n0, n1, l, x
  <2>1. ASSUME NEW n \in ListNames', NEW i \in DOMAIN ListAt(n)'
        PROVE  Stays(n, i, was[n]) /\ ~(was[n] = n1 /\ i = Len(l))
    <3>1. CASE n = n0
      BY <3>1, <1>5, <1>6, <1>12 DEF Stays
    <3>2. CASE n # n0
      BY <3>2, <1>13, <1>14 DEF Stays
    <3>. QED  BY <3>1, <3>2
  <2>2. ASSUME NEW n \in ListNames, NEW i \in DOMAIN ListAt(n), ~(n = n1 /\ i = Len(l))
        PROVE  \E m \in ListNames' : Stays(m, i, n)
    <3>1. CASE n = n1
      BY <3>1, <2>2, <1>5, <1>6, <1>12 DEF Stays
    <3>2. CASE n # n1
      BY <3>2, <2>2, <1>12, <1>13, <1>14 DEF Stays
    <3>. QED  BY <3>1, <3>2
  <2>3. \A n, m \in ListNames' : was[n] = was[m] => n = m
    BY <1>12, <1>13
  <2>4. Len(l) \in DOMAIN ListAt(n1) /\ x = ListAt(n1)[Len(l)]
    BY <1>5, <1>6
  <2>. HIDE DEF was
  <2>. QED  BY <2>1, <2>2, <2>3, <2>4, <1>2, <1>5, <1>9, ItemLeaves
<1>16. PoolCounts'
  <2>1. LengthSum(overflow) \in Int /\ LengthSum(overflow') = LengthSum(overflow) + PerArena - 1
    <3>1. PICK m : m = overflow'
      OBVIOUS
    <3>2. overflow \in [Pools -> Seq(Nat)] /\ m = [overflow EXCEPT ![p] = Front(l)] /\ Front(l) \in Seq(Nat)
      BY <3>1, <1>2, <1>6, <1>8 DEF PoolType
    <3>3. HaveLengths(overflow, Pools) /\ HaveLengths(m, Pools) /\ DifferAt(m, overflow, p, Pools)
          /\ m[p] = Front(l)
      BY <3>2 DEF HaveLengths, DifferAt
    <3>4. LengthSum(overflow) \in Int /\ LengthSum(m) = LengthSum(overflow) - Len(overflow[p]) + Len(m[p])
      BY <3>3, FiniteLists, LengthSumUpdate
    <3>5. Len(overflow[p]) = 0 /\ Len(m[p]) = PerArena - 1
      BY <3>3, <1>3, <1>5, <1>6
    <3>. QED  BY <3>1, <3>4, <3>5
  <2>2. LengthSum(shared) \in Int /\ LengthSum(shared') = LengthSum(shared) - 1
    <3>1. PICK m : m = shared'
      OBVIOUS
    <3>2. shared \in [PoolSizes -> Seq(Seq(Nat))] /\ m = [shared EXCEPT ![s] = Front(lists)]
      BY <3>1, <1>2, <1>8 DEF PoolType
    <3>3. HaveLengths(shared, PoolSizes) /\ HaveLengths(m, PoolSizes) /\ DifferAt(m, shared, s, PoolSizes)
          /\ m[s] = Front(lists)
      BY <3>2, <1>4 DEF HaveLengths, DifferAt
    <3>4. LengthSum(shared) \in Int /\ LengthSum(m) = LengthSum(shared) - Len(shared[s]) + Len(m[s])
      BY <3>3, FiniteLists, LengthSumUpdate
    <3>. QED  BY <3>1, <3>3, <3>4, <1>4
  <2>3. LengthSum(freelist') = LengthSum(freelist) /\ LengthSum(freelist) \in Int
    BY <1>2, <1>8, SumsAreInt
  <2>4. PerArena * (LengthSum(shared) - 1) = PerArena * LengthSum(shared) - PerArena
    BY <2>2
  <2>5. ListLength' = ListLength - 1
    BY <2>1, <2>2, <2>3, <2>4, <1>2, SumsAreInt DEF ListLength
  <2>. QED  BY <2>5, <1>9 DEF PoolInd, PoolCounts
<1>17. PoolLengths'
  <2>1. \A q \in Pools : Len(overflow'[q]) < PerArena /\ Len(freelist'[q]) <= maxFreelist'[q]
    BY <1>2, <1>5, <1>6, <1>8 DEF PoolLengths, PoolType
  <2>2. \A r \in PoolSizes : \A m \in DOMAIN shared'[r] : Len(shared'[r][m]) = PerArena
    <3>1. \A m \in 1 .. L - 1 : Len(shared'[s][m]) = PerArena
      BY <1>2, <1>4, <1>11 DEF PoolLengths
    <3>2. \A r \in PoolSizes : r # s => \A m \in DOMAIN shared'[r] : Len(shared'[r][m]) = PerArena
      BY <1>2, <1>11 DEF PoolLengths
    <3>. QED  BY <3>1, <3>2, <1>11
  <2>. QED  BY <2>1, <2>2 DEF PoolLengths
<1>. QED  BY <1>10, <1>15, <1>16, <1>17 DEF PoolInd

LEMMA NewFromArenaInd ==
    ASSUME PoolInd, NEW p \in Pools, NewFromArena(p)
    PROVE  PoolInd'
<1>. USE PoolAssumption
<1>1. PICK t \in PoolThread, s \in PoolSizes : p = <<t, s>>
  BY DEF Pools
<1>. DEFINE H == Len(header)
            items == [k \in 1 .. PerArena |-> H + k]
            words == [k \in 1 .. PerArena |-> IF k = PerArena THEN s ELSE 0]
            n0 == <<"free", t, s>>
            new == H + 1 .. H + PerArena - 1
<1>2. PoolType /\ ListedOnce /\ PoolLengths /\ PoolCounts
  BY DEF PoolInd
<1>3. /\ freelist[p] = <<>> /\ arenas' = arenas + 1
      /\ balance' = [balance EXCEPT ![t] = @ + 1] /\ header' = header \o words
      /\ freelist' = [freelist EXCEPT ![p] = Front(items)]
      /\ maxFreelist' = [maxFreelist EXCEPT ![p] = @ + PerArena]
      /\ UNCHANGED <<overflow, shared>>
  <2>1. p[1] = t /\ p[2] = s
    BY <1>1
  <2>. QED  BY <2>1 DEF NewFromArena
<1>4. header \in Seq(PoolSizes \cup {0}) /\ H \in Nat /\ Items = 1 .. H
  BY <1>2 DEF PoolType, Items
<1>5. words \in Seq(PoolSizes \cup {0}) /\ Len(words) = PerArena
  OBVIOUS
<1>6. /\ header' \in Seq(PoolSizes \cup {0}) /\ Len(header') = H + PerArena
      /\ \A i \in 1 .. H + PerArena :
            header'[i] = IF i <= H THEN header[i] ELSE IF i = H + PerArena THEN s ELSE 0
  <2>1. /\ header' \in Seq(PoolSizes \cup {0}) /\ Len(header') = H + PerArena
        /\ \A i \in 1 .. Len(header) + Len(words) : header'[i] =
              IF i <= Len(header) THEN header[i] ELSE words[i - Len(header)]
    <3>1. PICK V : V = PoolSizes \cup {0}
      OBVIOUS
    <3>2. PICK w : w = words
      OBVIOUS
    <3>3. header \in Seq(V) /\ w \in Seq(V) /\ header' = header \o w /\ Len(w) = PerArena
      BY <3>1, <3>2, <1>3, <1>4, <1>5
    <3>4. /\ header \o w \in Seq(V) /\ Len(header \o w) = Len(header) + Len(w)
          /\ \A i \in 1 .. Len(header) + Len(w) : (header \o w)[i] =
                IF i <= Len(header) THEN header[i] ELSE w[i - Len(header)]
      BY <3>3, ConcatProperties
    <3>5. header' \in Seq(V) /\ Len(header') = Len(header) + PerArena
          /\ \A i \in 1 .. Len(header) + Len(w) : header'[i] =
                IF i <= Len(header) THEN header[i] ELSE w[i - Len(header)]
      BY <3>3, <3>4, Zenon
    <3>. HIDE DEF words
    <3>. QED  BY <3>1, <3>2, <3>5, Zenon
  <2>2. \A k \in 1 .. PerArena : words[k] = IF k = PerArena THEN s ELSE 0
    OBVIOUS
  <2>. HIDE DEF words
  <2>3. ASSUME NEW i \in 1 .. H + PerArena
        PROVE  header'[i] = IF i <= H THEN header[i] ELSE IF i = H + PerArena THEN s ELSE 0
    <3>1. header'[i] = IF i <= H THEN header[i] ELSE words[i - H]
      BY <2>1, <1>5
    <3>2. CASE i > H
      <4>1. i - H \in 1 .. PerArena /\ (i - H = PerArena <=> i = H + PerArena) /\ ~(i <= H)
        BY <3>2, <1>4
      <4>. HIDE DEF H
      <4>. QED  BY <3>1, <4>1, <2>2
    <3>. QED  BY <3>1, <3>2, <1>4
  <2>. QED  BY <2>1, <2>3
<1>7. Items' = 1 .. H + PerArena /\ Live' = Live \cup {H + PerArena}
  <2>1. Items' = 1 .. H + PerArena
    BY <1>6 DEF Items
  <2>2. \A i \in 1 .. H + PerArena : header'[i] # 0 <=> i \in Live \/ i = H + PerArena
    BY <1>6, <1>4 DEF Live
  <2>3. Live \subseteq 1 .. H + PerArena
    BY <1>4 DEF Live
  <2>. QED  BY <2>1, <2>2, <2>3, <1>4 DEF Live
<1>8. Items' \ Live' = (Items \ Live) \cup new /\ (Items \ Live) \cap new = {}
      /\ H + PerArena \notin Live
  <2>1. Live \subseteq 1 .. H
    BY <1>4 DEF Live
  <2>. QED  BY <1>4, <1>7, <2>1
<1>9. IsFiniteSet(Items \ Live) /\ IsFiniteSet(Live) /\ IsFiniteSet(new) /\ Cardinality(new) = PerArena - 1
  <2>1. IsFiniteSet(Items)
    BY <1>4, FS_Interval
  <2>2. Live \in SUBSET Items /\ Items \ Live \in SUBSET Items
    BY DEF Live
  <2>3. IsFiniteSet(new) /\ Cardinality(new) = PerArena - 1
    <3>1. H + 1 \in Int /\ H + PerArena - 1 \in Int
      BY <1>4
    <3>2. IsFiniteSet(new) /\ Cardinality(new) =
            IF H + 1 > H + PerArena - 1 THEN 0 ELSE (H + PerArena - 1) - (H + 1) + 1
      BY <3>1, FS_Interval
    <3>. QED  BY <3>2, <1>4
  <2>. QED  BY <2>1, <2>2, <2>3, FS_Subset
<1>10. /\ Cardinality(Items \ Live) \in Int /\ Cardinality(Live) \in Int
       /\ Cardinality(Items' \ Live') = Cardinality(Items \ Live) + PerArena - 1
       /\ Cardinality(Live') = Cardinality(Live) + 1
  <2>1. Cardinality((Items \ Live) \cup new) = Cardinality(Items \ Live) + Cardinality(new)
    <3>1. Cardinality((Items \ Live) \cup new)
             = Cardinality(Items \ Live) + Cardinality(new) - Cardinality((Items \ Live) \cap new)
      BY <1>9, FS_Union
    <3>2. Cardinality((Items \ Live) \cap new) = 0
      BY <1>8, FS_EmptySet
    <3>3. Cardinality(Items \ Live) \in Nat /\ Cardinality(new) \in Nat
      BY <1>9, FS_CardinalityType
    <3>. QED  BY <3>1, <3>2, <3>3
  <2>2. Cardinality(Live \cup {H + PerArena}) = Cardinality(Live) + 1
    BY <1>8, <1>9, FS_AddElement
  <2>3. Cardinality(Items' \ Live') = Cardinality((Items \ Live) \cup new)
        /\ Cardinality(Live') = Cardinality(Live \cup {H + PerArena})
    BY <1>7, <1>8
  <2>4. Cardinality(Items \ Live) \in Nat /\ Cardinality(Live) \in Nat
    BY <1>9, FS_CardinalityType
  <2>. QED  BY <2>1, <2>2, <2>3, <2>4, <1>9
<1>11. SumFunction(balance') = SumFunction(balance) + 1
  <2>1. balance \in [PoolThread -> Int]
    BY <1>2 DEF PoolType
  <2>2. PICK b : b = balance'
    OBVIOUS
  <2>3. b \in [PoolThread -> Int] /\ DifferAt(b, balance, t, PoolThread) /\ b[t] = balance[t] + 1
        /\ IsFiniteSet(PoolThread) /\ balance[t] \in Int
    BY <1>3, <2>1, <2>2 DEF DifferAt
  <2>4. SumFunction(b) = SumFunction(balance) - balance[t] + b[t]
    BY <2>1, <2>3, SumUpdate
  <2>5. SumFunction(balance) \in Int
    BY <2>1, <2>3, SumType
  <2>. QED  BY <2>2, <2>3, <2>4, <2>5
<1>12. /\ Front(items) \in Seq(Nat) /\ Len(Front(items)) = PerArena - 1
       /\ DOMAIN Front(items) = 1 .. PerArena - 1
       /\ \A i \in 1 .. PerArena - 1 : Front(items)[i] = H + i
  <2>1. items \in Seq(Nat) /\ Len(items) = PerArena /\ items # <<>>
    BY <1>4
  <2>2. /\ Front(items) \in Seq(Nat) /\ Len(Front(items)) = Len(items) - 1
        /\ DOMAIN Front(items) = 1 .. Len(items) - 1
        /\ \A i \in 1 .. Len(items) - 1 : Front(items)[i] = items[i] /\ i \in DOMAIN items
    <3>. HIDE DEF items
    <3>. QED  BY <2>1, FrontOfList
  <2>. QED  BY <2>1, <2>2
<1>13. PoolType'
  <2>1. freelist' \in [Pools -> Seq(Nat)]
    <3>. HIDE DEF items
    <3>. QED  BY <1>2, <1>3, <1>12 DEF PoolType
  <2>2. maxFreelist' \in [Pools -> Nat] /\ balance' \in [PoolThread -> Int] /\ arenas' \in Nat
    BY <1>2, <1>3 DEF PoolType
  <2>. QED  BY <2>1, <2>2, <1>2, <1>3, <1>6 DEF PoolType
<1>14. ListNames' = ListNames /\ ListAt(n0)' = Front(items) /\ n0 \in ListNames /\ ListAt(n0) = <<>>
  BY <1>1, <1>2, <1>3 DEF ListNames, ListAt, PoolType
<1>15. ASSUME NEW n \in ListNames, n # n0 PROVE ListAt(n)' = ListAt(n)
  <2>1. CASE \E u \in PoolThread, r \in PoolSizes : n = <<"free", u, r>>
    BY <2>1, <1>1, <1>2, <1>3, <1>15 DEF ListAt, PoolType
  <2>2. CASE n[1] # "free"
    BY <2>2, <1>3 DEF ListAt
  <2>. QED  BY <2>1, <2>2, <1>2, ListTypes
<1>16. ListedOnce'
  <2>. HIDE DEF n0, items
  <2>1. ASSUME NEW n \in ListNames', NEW i \in DOMAIN ListAt(n)'
        PROVE  \/ n # n0 /\ i \in DOMAIN ListAt(n) /\ ListAt(n)'[i] = ListAt(n)[i]
                         /\ ListAt(n)[i] \in Items \ Live
               \/ n = n0 /\ i \in 1 .. PerArena - 1 /\ ListAt(n)'[i] = H + i
    BY <1>2, <1>12, <1>14, <1>15 DEF ListedOnce
  <2>2. ASSUME NEW n \in ListNames', NEW i \in DOMAIN ListAt(n)'
        PROVE  ListAt(n)'[i] \in Items' \ Live'
    BY <2>1, <1>8, <1>4
  <2>3. ASSUME NEW y \in Items' \ Live'
        PROVE  \E n \in ListNames' : \E i \in DOMAIN ListAt(n)' : ListAt(n)'[i] = y
    <3>1. CASE y \in new
      <4>1. y - H \in 1 .. PerArena - 1 /\ H + (y - H) = y
        BY <3>1, <1>4
      <4>. QED  BY <4>1, <1>12, <1>14
    <3>2. CASE y \in Items \ Live
      <4>1. PICK n \in ListNames : \E i \in DOMAIN ListAt(n) : ListAt(n)[i] = y
        BY <3>2, <1>2 DEF ListedOnce
      <4>2. n # n0
        BY <4>1, <1>14
      <4>. QED  BY <4>1, <4>2, <1>14, <1>15
    <3>. QED  BY <2>3, <3>1, <3>2, <1>8
  <2>4. ASSUME NEW n \in ListNames', NEW m \in ListNames',
               NEW i \in DOMAIN ListAt(n)', NEW j \in DOMAIN ListAt(m)',
               ListAt(n)'[i] = ListAt(m)'[j]
        PROVE  n = m /\ i = j
    <3>1. CASE n = n0 /\ m = n0
      BY <2>1, <2>4, <3>1, <1>4
    <3>2. CASE n # n0 /\ m # n0
      BY <2>1, <2>4, <3>2, <1>2, <1>14 DEF ListedOnce
    <3>3. CASE n = n0 /\ m # n0
      <4>1. ListAt(n)'[i] > H /\ ListAt(m)'[j] \in 1 .. H
        BY <2>1, <3>3, <1>4
      <4>. QED  BY <4>1, <2>4, <1>4
    <3>4. CASE n # n0 /\ m = n0
      <4>1. ListAt(m)'[j] > H /\ ListAt(n)'[i] \in 1 .. H
        BY <2>1, <3>4, <1>4
      <4>. QED  BY <4>1, <2>4, <1>4
    <3>. QED  BY <3>1, <3>2, <3>3, <3>4
  <2>. QED  BY <2>2, <2>3, <2>4 DEF ListedOnce
<1>17. PoolCounts'
  <2>1. LengthSum(freelist) \in Int /\ LengthSum(freelist') = LengthSum(freelist) + PerArena - 1
    <3>1. PICK m : m = freelist'
      OBVIOUS
    <3>2. freelist \in [Pools -> Seq(Nat)] /\ m = [freelist EXCEPT ![p] = Front(items)]
      BY <3>1, <1>2, <1>3 DEF PoolType
    <3>3. HaveLengths(freelist, Pools) /\ HaveLengths(m, Pools) /\ DifferAt(m, freelist, p, Pools)
          /\ m[p] = Front(items)
      <4>. HIDE DEF items
      <4>. QED  BY <3>2, <1>12 DEF HaveLengths, DifferAt
    <3>4. LengthSum(freelist) \in Int /\ LengthSum(m) = LengthSum(freelist) - Len(freelist[p]) + Len(m[p])
      BY <3>3, FiniteLists, LengthSumUpdate
    <3>5. Len(freelist[p]) = 0 /\ Len(m[p]) = PerArena - 1
      BY <3>3, <1>3, <1>12
    <3>. QED  BY <3>1, <3>4, <3>5
  <2>2. /\ LengthSum(overflow') = LengthSum(overflow) /\ LengthSum(shared') = LengthSum(shared)
        /\ LengthSum(overflow) \in Int /\ PerArena * LengthSum(shared) \in Int
    BY <1>2, <1>3, SumsAreInt
  <2>3. ListLength' = ListLength + PerArena - 1
    BY <2>1, <2>2 DEF ListLength
  <2>. QED  BY <2>3, <1>2, <1>10, <1>11 DEF PoolCounts
<1>18. PoolLengths'
  <2>1. \A q \in Pools : Len(overflow'[q]) < PerArena /\ Len(freelist'[q]) <= maxFreelist'[q]
    <3>. HIDE DEF items
    <3>. QED  BY <1>2, <1>3, <1>12 DEF PoolLengths, PoolType
  <2>. QED  BY <2>1, <1>2, <1>3 DEF PoolLengths
<1>. QED  BY <1>13, <1>16, <1>17, <1>18 DEF PoolInd

(* What Append makes of a list, in the terms of the lemmas above. *)
LEMMA AppendToList ==
    ASSUME NEW V, NEW l \in Seq(V), NEW x \in V
    PROVE  /\ Append(l, x) \in Seq(V) /\ Len(Append(l, x)) = Len(l) + 1
           /\ DOMAIN Append(l, x) = 1 .. Len(l) + 1 /\ DOMAIN l = 1 .. Len(l) /\ Len(l) \in Nat
           /\ \A i \in 1 .. Len(l) : Append(l, x)[i] = l[i] /\ i \in DOMAIN l /\ i \in DOMAIN Append(l, x)
           /\ Append(l, x)[Len(l) + 1] = x /\ Len(l) + 1 \in DOMAIN Append(l, x)
<1>1. /\ Append(l, x) \in Seq(V) /\ Len(Append(l, x)) = Len(l) + 1
      /\ \A i \in 1 .. Len(l) : Append(l, x)[i] = l[i]
      /\ Append(l, x)[Len(l) + 1] = x
  BY AppendProperties
<1>2. DOMAIN Append(l, x) = 1 .. Len(Append(l, x)) /\ DOMAIN l = 1 .. Len(l) /\ Len(l) \in Nat
  BY <1>1
<1>. QED  BY <1>1, <1>2

(* The lists when the list n0 gets x as its last item and no other changes. *)
LEMMA ItemAppended ==
    ASSUME PoolInd, NEW n0 \in ListNames, NEW x \in Live, ListNames' = ListNames,
           ListAt(n0)' = Append(ListAt(n0), x), Items' = Items, Live' = Live \ {x},
           \A n \in ListNames : n # n0 => ListAt(n)' = ListAt(n)
    PROVE  ListedOnce'
<1>0. PICK k : k = Len(ListAt(n0)) + 1
  OBVIOUS
<1>a. PICK was : was = [n \in ListNames |-> n]
  OBVIOUS
<1>1. ListAt(n0) \in Seq(Nat) /\ x \in Nat /\ ListedOnce
  BY ListTypes DEF PoolInd, PoolType, Live, Items
<1>2. PICK l \in Seq(Nat) : l = ListAt(n0)
  BY <1>1
<1>3. /\ DOMAIN Append(l, x) = 1 .. Len(l) + 1 /\ DOMAIN l = 1 .. Len(l) /\ Len(l) \in Nat
      /\ \A i \in 1 .. Len(l) : Append(l, x)[i] = l[i] /\ i \in DOMAIN l /\ i \in DOMAIN Append(l, x)
      /\ Append(l, x)[Len(l) + 1] = x /\ Len(l) + 1 \in DOMAIN Append(l, x)
  BY <1>1, AppendToList
<1>4. ASSUME NEW n \in ListNames', NEW i \in DOMAIN ListAt(n)', ~(n = n0 /\ i = k)
      PROVE  Stays(n, i, was[n])
  <2>1. CASE n = n0
    <3>1. i \in 1 .. Len(l)
      BY <2>1, <1>0, <1>2, <1>3, <1>4
    <3>. QED  BY <2>1, <3>1, <1>a, <1>2, <1>3 DEF Stays
  <2>2. CASE n # n0
    BY <2>2, <1>a DEF Stays
  <2>. QED  BY <2>1, <2>2
<1>5. ASSUME NEW n \in ListNames, NEW i \in DOMAIN ListAt(n)
      PROVE  n \in ListNames' /\ Stays(n, i, n)
  <2>1. CASE n = n0
    BY <2>1, <1>2, <1>3 DEF Stays
  <2>2. CASE n # n0
    BY <2>2 DEF Stays
  <2>. QED  BY <2>1, <2>2
<1>6. \A n, m \in ListNames' : was[n] = was[m] => n = m
  BY <1>a
<1>7. k \in DOMAIN ListAt(n0)' /\ ListAt(n0)'[k] = x
  BY <1>0, <1>2, <1>3
<1>8. \A n \in ListNames' : \A i \in DOMAIN ListAt(n)' : ~(n = n0 /\ i = k) => Stays(n, i, was[n])
  BY <1>4
<1>9. \A m \in ListNames : \A i \in DOMAIN ListAt(m) : \E n \in ListNames' : Stays(n, i, m)
  BY <1>5
<1>10. \A n, m \in ListNames' : ListAt(n)' # <<>> /\ ListAt(m)' # <<>> /\ was[n] = was[m] => n = m
  BY <1>6
<1>11. n0 \in ListNames' /\ x \in Live /\ Items' = Items /\ Live' = Live \ {x}
  OBVIOUS
<1>. QED  BY <1>1, <1>7, <1>8, <1>9, <1>10, <1>11, ItemComes, ZenonT(60)

LEMMA DeleteInd ==
    ASSUME PoolInd, NEW t \in PoolThread, NEW x \in Live, Delete(t, x)
    PROVE  PoolInd'
<1>. USE PoolAssumption
<1>0. PICK s : s = header[x]
  OBVIOUS
<1>. DEFINE p == <<t, s>>
            fits == Len(freelist[p]) < maxFreelist[p]
            full == Append(overflow[p], x)
<1>1. /\ s \in PoolSizes
      /\ header' \in Seq(PoolSizes \cup {0}) /\ balance' \in [PoolThread -> Int]
      /\ Items' = Items /\ Live' = Live \ {x}
      /\ Cardinality(Items \ Live) \in Int
      /\ Cardinality(Items' \ Live') = Cardinality(Items \ Live) + 1
      /\ Cardinality(Live') = SumFunction(balance')
  <2>1. header' = [header EXCEPT ![x] = 0] /\ balance' = [balance EXCEPT ![t] = @ - 1]
    BY DEF Delete
  <2>. QED  BY <1>0, <2>1, GiveBackInd
<1>2. PoolType /\ ListedOnce /\ PoolLengths /\ PoolCounts /\ x \in Nat
  BY DEF PoolInd, PoolType, Live, Items
<1>3. p \in Pools /\ p[2] = s /\ UNCHANGED <<maxFreelist, arenas>>
  BY <1>1 DEF Pools, Delete
<1>4. /\ freelist[p] \in Seq(Nat) /\ overflow[p] \in Seq(Nat) /\ shared[s] \in Seq(Seq(Nat))
      /\ Len(overflow[p]) < PerArena /\ Len(freelist[p]) <= maxFreelist[p] /\ maxFreelist[p] \in Nat
  BY <1>1, <1>2, <1>3 DEF PoolType, PoolLengths
<1>5. full \in Seq(Nat) /\ Len(full) = Len(overflow[p]) + 1
  BY <1>2, <1>4, AppendToList
<1>6. CASE fits
  <2>. DEFINE n0 == <<"free", t, s>>
  <2>1. freelist' = [freelist EXCEPT ![p] = Append(@, x)] /\ UNCHANGED <<overflow, shared>>
    BY <1>0, <1>6 DEF Delete
  <2>2. Append(freelist[p], x) \in Seq(Nat) /\ Len(Append(freelist[p], x)) = Len(freelist[p]) + 1
    BY <1>2, <1>4, AppendToList
  <2>3. PoolType'
    BY <1>1, <1>2, <1>3, <2>1, <2>2 DEF PoolType
  <2>4. ListNames' = ListNames /\ n0 \in ListNames
        /\ ListAt(n0)' = Append(ListAt(n0), x)
    BY <1>1, <1>2, <1>3, <2>1 DEF ListNames, ListAt, PoolType
  <2>5. ASSUME NEW n \in ListNames, n # n0 PROVE ListAt(n)' = ListAt(n)
    <3>1. CASE \E u \in PoolThread, r \in PoolSizes : n = <<"free", u, r>>
      BY <3>1, <1>2, <2>1, <2>5 DEF ListAt, PoolType
    <3>2. CASE n[1] # "free"
      BY <3>2, <2>1 DEF ListAt
    <3>. QED  BY <3>1, <3>2, <1>2, ListTypes
  <2>6. ListedOnce'
    <3>. HIDE DEF n0
    <3>. QED  BY <1>1, <2>4, <2>5, ItemAppended
  <2>7. PoolCounts'
    <3>1. LengthSum(freelist) \in Int /\ LengthSum(freelist') = LengthSum(freelist) + 1
      <4>1. PICK m : m = freelist'
        OBVIOUS
      <4>2. freelist \in [Pools -> Seq(Nat)] /\ m = [freelist EXCEPT ![p] = Append(freelist[p], x)]
        BY <4>1, <1>2, <2>1 DEF PoolType
      <4>3. HaveLengths(freelist, Pools) /\ HaveLengths(m, Pools) /\ DifferAt(m, freelist, p, Pools)
            /\ m[p] = Append(freelist[p], x)
        BY <4>2, <1>3, <2>2 DEF HaveLengths, DifferAt
      <4>4. LengthSum(freelist) \in Int /\ LengthSum(m) = LengthSum(freelist) - Len(freelist[p]) + Len(m[p])
        <5>. HIDE DEF p
        <5>. QED  BY <1>3, <4>3, FiniteLists, LengthSumUpdate
      <4>5. Len(freelist[p]) \in Int /\ Len(m[p]) = Len(freelist[p]) + 1
        BY <1>4, <4>3, <2>2
      <4>. QED  BY <4>1, <4>4, <4>5
    <3>2. LengthSum(overflow) \in Int /\ PerArena * LengthSum(shared) \in Int
      BY <1>2, SumsAreInt
    <3>3. ListLength' = ListLength + 1
      BY <3>1, <3>2, <2>1 DEF ListLength
    <3>. QED  BY <3>3, <1>1, <1>2 DEF PoolCounts
  <2>8. PoolLengths'
    <3>1. Len(Append(freelist[p], x)) <= maxFreelist[p]
      BY <1>4, <1>6, <2>2
    <3>2. \A q \in Pools : Len(overflow'[q]) < PerArena /\ Len(freelist'[q]) <= maxFreelist'[q]
      BY <1>2, <1>3, <3>1, <2>1 DEF PoolLengths, PoolType
    <3>. QED  BY <1>2, <2>1, <3>2 DEF PoolLengths
  <2>. QED  BY <2>3, <2>6, <2>7, <2>8 DEF PoolInd
<1>7. CASE ~fits /\ Len(full) # PerArena
  <2>. DEFINE n0 == <<"over", t, s>>
  <2>1. overflow' = [overflow EXCEPT ![p] = full] /\ UNCHANGED <<freelist, shared>>
    BY <1>0, <1>7 DEF Delete
  <2>3. PoolType'
    BY <1>1, <1>2, <1>3, <1>5, <2>1 DEF PoolType
  <2>4. ListNames' = ListNames /\ n0 \in ListNames
        /\ ListAt(n0)' = Append(ListAt(n0), x)
    BY <1>1, <1>2, <1>3, <2>1 DEF ListNames, ListAt, PoolType
  <2>5. ASSUME NEW n \in ListNames, n # n0 PROVE ListAt(n)' = ListAt(n)
    <3>1. CASE \E u \in PoolThread, r \in PoolSizes : n = <<"over", u, r>>
      BY <3>1, <1>2, <2>1, <2>5 DEF ListAt, PoolType
    <3>2. CASE n[1] # "over"
      BY <3>2, <2>1 DEF ListAt
    <3>. QED  BY <3>1, <3>2, <1>2, ListTypes
  <2>6. ListedOnce'
    <3>. HIDE DEF n0
    <3>. QED  BY <1>1, <2>4, <2>5, ItemAppended
  <2>7. PoolCounts'
    <3>1. LengthSum(overflow) \in Int /\ LengthSum(overflow') = LengthSum(overflow) + 1
      <4>1. PICK m : m = overflow'
        OBVIOUS
      <4>2. overflow \in [Pools -> Seq(Nat)] /\ m = [overflow EXCEPT ![p] = full]
        BY <4>1, <1>2, <2>1 DEF PoolType
      <4>3. HaveLengths(overflow, Pools) /\ HaveLengths(m, Pools) /\ DifferAt(m, overflow, p, Pools)
            /\ m[p] = full
        BY <4>2, <1>3, <1>5 DEF HaveLengths, DifferAt
      <4>4. LengthSum(overflow) \in Int /\ LengthSum(m) = LengthSum(overflow) - Len(overflow[p]) + Len(m[p])
        <5>. HIDE DEF p
        <5>. QED  BY <1>3, <4>3, FiniteLists, LengthSumUpdate
      <4>5. Len(overflow[p]) \in Int /\ Len(m[p]) = Len(overflow[p]) + 1
        BY <1>4, <4>3, <1>5
      <4>. QED  BY <4>1, <4>4, <4>5
    <3>2. LengthSum(freelist) \in Int /\ PerArena * LengthSum(shared) \in Int
      BY <1>2, SumsAreInt
    <3>3. ListLength' = ListLength + 1
      BY <3>1, <3>2, <2>1 DEF ListLength
    <3>. QED  BY <3>3, <1>1, <1>2 DEF PoolCounts
  <2>8. PoolLengths'
    <3>1. Len(full) < PerArena
      BY <1>4, <1>5, <1>7
    <3>2. \A q \in Pools : Len(overflow'[q]) < PerArena /\ Len(freelist'[q]) <= maxFreelist'[q]
      <4>. HIDE DEF full
      <4>. QED  BY <1>2, <1>3, <3>1, <2>1 DEF PoolLengths, PoolType
    <3>. QED  BY <1>2, <2>1, <3>2 DEF PoolLengths
  <2>. QED  BY <2>3, <2>6, <2>7, <2>8 DEF PoolInd
<1>8. CASE ~fits /\ Len(full) = PerArena
  <2>0. PICK L : L = Len(shared[s]) + 1
    OBVIOUS
  <2>. DEFINE n0 == <<"over", t, s>>
              n1 == <<"shared", s, L>>
  <2>1. /\ overflow' = [overflow EXCEPT ![p] = <<>>] /\ UNCHANGED freelist
        /\ shared' = [shared EXCEPT ![s] = Append(@, full)]
    BY <1>0, <1>3, <1>8 DEF Delete
  <2>2. /\ Append(shared[s], full) \in Seq(Seq(Nat)) /\ Len(Append(shared[s], full)) = L
        /\ DOMAIN Append(shared[s], full) = 1 .. L /\ DOMAIN shared[s] = 1 .. L - 1
        /\ \A i \in 1 .. L - 1 : Append(shared[s], full)[i] = shared[s][i]
        /\ Append(shared[s], full)[L] = full /\ L \in Nat
    <3>. HIDE DEF full
    <3>1. /\ Append(shared[s], full) \in Seq(Seq(Nat)) /\ Len(Append(shared[s], full)) = Len(shared[s]) + 1
          /\ DOMAIN Append(shared[s], full) = 1 .. Len(shared[s]) + 1 /\ DOMAIN shared[s] = 1 .. Len(shared[s])
          /\ Len(shared[s]) \in Nat
          /\ \A i \in 1 .. Len(shared[s]) : Append(shared[s], full)[i] = shared[s][i]
          /\ Append(shared[s], full)[Len(shared[s]) + 1] = full
      BY <1>4, <1>5, AppendToList
    <3>. QED  BY <2>0, <3>1
  <2>3. PoolType'
    <3>. HIDE DEF full
    <3>. QED  BY <1>1, <1>2, <1>3, <2>1, <2>2 DEF PoolType
  <2>4. /\ DOMAIN shared'[s] = 1 .. L /\ (\A k \in 1 .. L - 1 : shared'[s][k] = shared[s][k])
        /\ shared'[s][L] = full
        /\ \A r \in PoolSizes : r # s => shared'[r] = shared[r]
    <3>. HIDE DEF full
    <3>. QED  BY <1>1, <1>2, <2>1, <2>2 DEF PoolType
  <2>5. n0 \in ListNames /\ n0 # n1 /\ ListAt(n0) = overflow[p] /\ ListAt(n0)' = <<>>
    BY <1>1, <1>2, <1>3, <2>1 DEF ListNames, ListAt, PoolType
  <2>6. ListNames' = ListNames \cup {n1} /\ n1 \notin ListNames
    <3>1. \A r \in PoolSizes : DOMAIN shared[r] \subseteq Nat /\ DOMAIN shared'[r] \subseteq Nat
      <4>1. \A r \in PoolSizes : shared[r] \in Seq(Seq(Nat)) /\ shared'[r] \in Seq(Seq(Nat))
        BY <1>2, <2>3 DEF PoolType
      <4>2. \A q \in Seq(Seq(Nat)) : DOMAIN q = 1 .. Len(q) /\ Len(q) \in Nat
        OBVIOUS
      <4>3. \A q \in Seq(Seq(Nat)) : DOMAIN q \subseteq Nat
        BY <4>2
      <4>. QED  BY <4>1, <4>3
    <3>2. \A r \in PoolSizes : \A k : k \in DOMAIN shared'[r] <=> k \in DOMAIN shared[r] \/ (r = s /\ k = L)
      <4>1. \A k : k \in DOMAIN shared'[s] <=> k \in DOMAIN shared[s] \/ k = L
        BY <2>4, <2>2
      <4>. QED  BY <4>1, <2>4
    <3>3. L \notin DOMAIN shared[s] /\ L \in Nat
      BY <2>2
    <3>. HIDE DEF full
    <3>. QED  BY <1>1, <3>1, <3>2, <3>3 DEF ListNames
  <2>7. ASSUME NEW n \in ListNames, n # n0 PROVE ListAt(n)' = ListAt(n)
    <3>1. CASE \E u \in PoolThread, r \in PoolSizes : n = <<"free", u, r>> \/ n = <<"over", u, r>>
      BY <3>1, <1>2, <2>1, <2>7 DEF ListAt, PoolType
    <3>2. ASSUME NEW r \in PoolSizes, NEW k \in DOMAIN shared[r], n = <<"shared", r, k>>
          PROVE  ListAt(n)' = ListAt(n)
      <4>1. shared'[r][k] = shared[r][k]
        <5>1. CASE r = s
          BY <5>1, <2>2, <2>4
        <5>2. CASE r # s
          BY <5>2, <2>4
        <5>. QED  BY <5>1, <5>2
      <4>. QED  BY <3>2, <4>1 DEF ListAt
    <3>. QED  BY <3>1, <3>2, <1>2, ListTypes
  <2>8. ListAt(n1)' = full
    BY <2>4 DEF ListAt
  <2>9. /\ DOMAIN full = 1 .. Len(overflow[p]) + 1 /\ DOMAIN overflow[p] = 1 .. Len(overflow[p])
        /\ \A i \in 1 .. Len(overflow[p]) : full[i] = overflow[p][i] /\ i \in DOMAIN overflow[p] /\ i \in DOMAIN full
        /\ full[Len(overflow[p]) + 1] = x /\ Len(overflow[p]) + 1 \in DOMAIN full /\ Len(overflow[p]) \in Nat
    <3>. HIDE DEF p
    <3>. QED  BY <1>2, <1>4, AppendToList
  <2>10. ListedOnce'
    <3>a. PICK k : k = Len(overflow[p]) + 1
      OBVIOUS
    <3>b. PICK was : was = [n \in ListNames' |-> IF n = n1 THEN n0 ELSE n]
      OBVIOUS
    <3>. HIDE DEF n0, n1, full, p
    <3>1. ASSUME NEW n \in ListNames', NEW i \in DOMAIN ListAt(n)', ~(n = n1 /\ i = k)
          PROVE  Stays(n, i, was[n])
      <4>1. CASE n = n1
        <5>1. i \in 1 .. Len(overflow[p])
          BY <3>a, <3>1, <4>1, <2>8, <2>9
        <5>. QED  BY <3>b, <4>1, <5>1, <2>5, <2>8, <2>9 DEF Stays
      <4>2. CASE n # n1
        <5>1. n \in ListNames /\ n # n0
          BY <3>1, <4>2, <2>5, <2>6
        <5>. QED  BY <3>b, <4>2, <5>1, <2>7 DEF Stays
      <4>. QED  BY <4>1, <4>2
    <3>2. ASSUME NEW n \in ListNames, NEW i \in DOMAIN ListAt(n)
          PROVE  \E m \in ListNames' : Stays(m, i, n)
      <4>1. CASE n = n0
        <5>1. n1 \in ListNames' /\ i \in DOMAIN full /\ full[i] = ListAt(n)[i]
          BY <4>1, <2>5, <2>6, <2>9
        <5>. QED  BY <5>1, <2>8 DEF Stays
      <4>2. CASE n # n0
        <5>1. n \in ListNames'
          BY <2>6
        <5>. QED  BY <4>2, <5>1, <2>7 DEF Stays
      <4>. QED  BY <4>1, <4>2
    <3>3. \A n, m \in ListNames' : ListAt(n)' # <<>> /\ ListAt(m)' # <<>> /\ was[n] = was[m] => n = m
      BY <3>b, <2>5, <2>6
    <3>4. n1 \in ListNames' /\ k \in DOMAIN ListAt(n1)' /\ ListAt(n1)'[k] = x
      BY <3>a, <2>6, <2>8, <2>9
    <3>. QED  BY <1>1, <1>2, <3>1, <3>2, <3>3, <3>4, ItemComes
  <2>11. PoolCounts'
    <3>1. LengthSum(overflow) \in Int /\ LengthSum(overflow') = LengthSum(overflow) - PerArena + 1
      <4>1. PICK m : m = overflow'
        OBVIOUS
      <4>2. overflow \in [Pools -> Seq(Nat)] /\ m = [overflow EXCEPT ![p] = <<>>]
        BY <4>1, <1>2, <2>1 DEF PoolType
      <4>3. HaveLengths(overflow, Pools) /\ HaveLengths(m, Pools) /\ DifferAt(m, overflow, p, Pools)
            /\ m[p] = <<>>
        BY <4>2, <1>3 DEF HaveLengths, DifferAt
      <4>4. LengthSum(overflow) \in Int /\ LengthSum(m) = LengthSum(overflow) - Len(overflow[p]) + Len(m[p])
        <5>. HIDE DEF p
        <5>. QED  BY <1>3, <4>3, FiniteLists, LengthSumUpdate
      <4>5. Len(overflow[p]) = PerArena - 1 /\ Len(m[p]) = 0
        BY <1>4, <1>5, <1>8, <4>3
      <4>. QED  BY <4>1, <4>4, <4>5
    <3>2. LengthSum(shared) \in Int /\ LengthSum(shared') = LengthSum(shared) + 1
      <4>1. PICK m : m = shared'
        OBVIOUS
      <4>2. shared \in [PoolSizes -> Seq(Seq(Nat))] /\ m = [shared EXCEPT ![s] = Append(shared[s], full)]
        BY <4>1, <1>2, <2>1 DEF PoolType
      <4>3. HaveLengths(shared, PoolSizes) /\ HaveLengths(m, PoolSizes) /\ DifferAt(m, shared, s, PoolSizes)
            /\ m[s] = Append(shared[s], full)
        <5>. HIDE DEF full
        <5>. QED  BY <4>2, <1>1, <2>2 DEF HaveLengths, DifferAt
      <4>4. LengthSum(shared) \in Int /\ LengthSum(m) = LengthSum(shared) - Len(shared[s]) + Len(m[s])
        <5>. QED  BY <1>1, <4>3, FiniteLists, LengthSumUpdate
      <4>5. Len(m[s]) = Len(shared[s]) + 1 /\ Len(shared[s]) \in Int
        <5>. HIDE DEF full
        <5>. QED  BY <4>3, <2>2, <1>4
      <4>. QED  BY <4>1, <4>4, <4>5
    <3>3. LengthSum(freelist') = LengthSum(freelist) /\ LengthSum(freelist) \in Int
      BY <1>2, <2>1, SumsAreInt
    <3>4. PerArena * (LengthSum(shared) + 1) = PerArena * LengthSum(shared) + PerArena
      BY <3>2
    <3>5. ListLength' = ListLength + 1
      BY <3>1, <3>2, <3>3, <3>4, <1>2, SumsAreInt DEF ListLength
    <3>. QED  BY <3>5, <1>1, <1>2 DEF PoolCounts
  <2>12. PoolLengths'
    <3>1. \A q \in Pools : Len(overflow'[q]) < PerArena /\ Len(freelist'[q]) <= maxFreelist'[q]
      BY <1>2, <1>3, <2>1 DEF PoolLengths, PoolType
    <3>2. \A r \in PoolSizes : \A m \in DOMAIN shared'[r] : Len(shared'[r][m]) = PerArena
      <4>1. \A m \in 1 .. L : Len(shared'[s][m]) = PerArena
        <5>1. \A m \in 1 .. L - 1 : Len(shared'[s][m]) = PerArena
          BY <1>1, <1>2, <2>2, <2>4 DEF PoolLengths
        <5>2. Len(shared'[s][L]) = PerArena
          BY <1>8, <2>4
        <5>3. \A m \in 1 .. L : m = L \/ m \in 1 .. L - 1
          BY <2>2
        <5>. QED  BY <5>1, <5>2, <5>3
      <4>2. \A r \in PoolSizes : r # s => \A m \in DOMAIN shared'[r] : Len(shared'[r][m]) = PerArena
        BY <1>2, <2>4 DEF PoolLengths
      <4>. QED  BY <4>1, <4>2, <2>4
    <3>. QED  BY <3>1, <3>2 DEF PoolLengths
  <2>. QED  BY <2>3, <2>10, <2>11, <2>12 DEF PoolInd
<1>. QED  BY <1>6, <1>7, <1>8

LEMMA PoolStepInd == ASSUME PoolInd, [PoolNext]_poolVars PROVE PoolInd'
<1>1. CASE UNCHANGED poolVars
  <2>. USE <1>1 DEF poolVars
  <2>1. PoolType' /\ PoolLengths'
    BY DEF PoolInd, PoolType, PoolLengths
  <2>2. Items' = Items /\ Live' = Live
    BY DEF Items, Live
  <2>3. PoolCounts'
    BY <2>2 DEF PoolInd, PoolCounts, ListLength
  <2>4. ListNames' = ListNames /\ \A n : ListAt(n)' = ListAt(n)
    BY DEF ListNames, ListAt
  <2>5. ListedOnce'
    BY <2>2, <2>4 DEF PoolInd, ListedOnce
  <2>. QED  BY <2>1, <2>3, <2>5 DEF PoolInd
<1>2. ASSUME NEW p \in Pools, New(p) PROVE PoolInd'
  BY <1>2, NewFromFreelistInd, NewFromOverflowInd, NewFromSharedInd, NewFromArenaInd DEF New
<1>3. ASSUME NEW t \in PoolThread, NEW x \in Live, Delete(t, x) PROVE PoolInd'
  BY <1>3, DeleteInd
<1>. QED  BY <1>1, <1>2, <1>3 DEF PoolNext

(***************************************************************************)
(* ItemsOnce, for any number of threads, sizes and items of an arena: no   *)
(* sequence of new and delete, on whichever threads, loses an item or      *)
(* hands it out twice, and the counters of getMemPoolUsage add up to the   *)
(* items in use.                                                           *)
(***************************************************************************)
THEOREM ItemsAreKept == PoolSpec => []ItemsOnce
<1>1. PoolInit => PoolInd
  BY PoolInitInd
<1>2. PoolInd /\ [PoolNext]_poolVars => PoolInd'
  BY PoolStepInd
<1>3. PoolInd => ItemsOnce
  BY PoolIndIsOnce
<1>. QED  BY <1>1, <1>2, <1>3, PTL DEF PoolSpec

-----------------------------------------------------------------------------
(* Indices that wrap. *)

Multiple(x, n) == \E k \in Int : x = n * k

LEMMA Multiples ==
    ASSUME NEW n \in Nat \ {0}, NEW x \in Int, NEW y \in Int, Multiple(x, n), Multiple(y, n)
    PROVE  Multiple(x - y, n) /\ Multiple(x + n, n)
<1>1. PICK a \in Int : x = n * a
  BY DEF Multiple
<1>2. PICK b \in Int : y = n * b
  BY DEF Multiple
<1>3. x - y = n * (a - b) /\ x + n = n * (a + 1)
  BY <1>1, <1>2
<1>4. a - b \in Int /\ a + 1 \in Int
  OBVIOUS
<1> QED
  BY <1>3, <1>4 DEF Multiple

LEMMA SmallMultiple ==
    ASSUME NEW n \in Nat \ {0}, NEW x \in Int, Multiple(x, n), -n < x, x < n
    PROVE  x = 0
<1>1. PICK m \in Int : x = n * m
  BY DEF Multiple
<1>2. CASE m >= 1
  BY <1>1, <1>2
<1>3. CASE m <= -1
  BY <1>1, <1>3
<1> QED
  BY <1>1, <1>2, <1>3

LEMMA Remainder ==
    ASSUME NEW n \in Nat \ {0}, NEW x \in Int
    PROVE  x % n \in 0 .. n - 1 /\ Multiple(x - (x % n), n)
<1>1. x % n \in 0 .. n - 1
  OBVIOUS
<1>2. x \div n \in Int
  OBVIOUS
<1>3. x = n * (x \div n) + (x % n)
  OBVIOUS
<1>4. PICK q \in Int, r \in 0 .. n - 1 : r = x % n /\ x = n * q + r
  BY <1>1, <1>2, <1>3
<1>5. n * q \in Int /\ x - r = n * q
  BY <1>4
<1> QED
  BY <1>4, <1>5 DEF Multiple

(* The remainder is the only number in 0 .. n - 1 that differs by a multiple. *)
LEMMA OneRemainder ==
    ASSUME NEW n \in Nat \ {0}, NEW x \in Int, NEW r \in 0 .. n - 1, Multiple(x - r, n)
    PROVE  x % n = r
<1>1. PICK s \in 0 .. n - 1 : s = x % n /\ Multiple(x - s, n)
  BY Remainder
<1>2. PICK u \in Int, v \in Int : u = x - r /\ v = x - s
  OBVIOUS
<1>3. Multiple(u - v, n)
  BY <1>1, <1>2, Multiples
<1>4. u - v = s - r /\ u - v \in Int /\ -n < u - v /\ u - v < n
  BY <1>2
<1>5. u - v = 0
  BY <1>3, <1>4, SmallMultiple
<1> QED
  BY <1>1, <1>4, <1>5

(* The slot k behind the slot of x. *)
LEMMA Behind ==
    ASSUME NEW n \in Nat \ {0}, NEW x \in Nat, NEW k \in Nat
    PROVE  ((x % n) + k) % n = (x + k) % n
<1>1. PICK z \in Int, t \in Int : z = x + k /\ t = x
  OBVIOUS
<1>2. PICK r \in 0 .. n - 1 : r = t % n /\ Multiple(t - r, n)
  BY Remainder
<1>3. PICK s \in 0 .. n - 1 : s = z % n /\ Multiple(z - s, n)
  BY Remainder
<1>4. PICK u \in Int, v \in Int : u = z - s /\ v = t - r
  OBVIOUS
<1>5. Multiple(u - v, n) /\ u - v = (r + k) - s /\ r + k \in Int
  <2>1. Multiple(u - v, n)
    BY <1>2, <1>3, <1>4, Multiples
  <2>2. u - v = (r + k) - s /\ r + k \in Int
    BY <1>1, <1>4
  <2> QED
    BY <2>1, <2>2
<1>6. (r + k) % n = s
  BY <1>5, OneRemainder
<1> QED
  BY <1>1, <1>2, <1>3, <1>6

LEMMA Around ==
    ASSUME NEW n \in Nat \ {0}, NEW x \in Nat
    PROVE  (x + n) % n = x % n
<1>1. PICK z \in Int : z = x
  OBVIOUS
<1>2. PICK r \in 0 .. n - 1 : r = z % n /\ Multiple(z - r, n)
  BY Remainder
<1>3. PICK u \in Int : u = z - r
  OBVIOUS
<1>4. Multiple(u + n, n)
  BY <1>2, <1>3, Multiples
<1>5. PICK y \in Int : y = z + n
  OBVIOUS
<1>6. u + n = y - r
  BY <1>3, <1>5
<1>7. y % n = r
  BY <1>4, <1>6, OneRemainder
<1> QED
  BY <1>1, <1>2, <1>5, <1>7

(* How far the slot of y is behind that of x. *)
LEMMA Distance ==
    ASSUME NEW n \in Nat \ {0}, NEW x \in Nat, NEW y \in Nat, x <= y, y < x + n
    PROVE  ((y % n) - (x % n) + n) % n = y - x
<1>0. x \in Int /\ y \in Int
  OBVIOUS
<1>1. PICK r \in 0 .. n - 1 : r = x % n /\ Multiple(x - r, n)
  BY <1>0, Remainder
<1>2. PICK s \in 0 .. n - 1 : s = y % n /\ Multiple(y - s, n)
  BY <1>0, Remainder
<1>3. PICK u \in Int, v \in Int : u = x - r /\ v = y - s
  OBVIOUS
<1>4. PICK w \in Int : w = u - v /\ Multiple(w, n)
  BY <1>1, <1>2, <1>3, Multiples
<1>5. Multiple(w + n, n) /\ w + n = (s - r + n) - (y - x)
  BY <1>3, <1>4, Multiples
<1>6. y - x \in 0 .. n - 1 /\ s - r + n \in Int
  OBVIOUS
<1>7. (s - r + n) % n = y - x
  BY <1>5, <1>6, OneRemainder
<1> QED
  BY <1>1, <1>2, <1>7

LEMMA OtherSlot ==
    ASSUME NEW n \in Nat \ {0}, NEW x \in Nat, NEW y \in Nat, x < y, y < x + n
    PROVE  x % n # y % n
<1>0. x \in Int /\ y \in Int
  OBVIOUS
<1>1. PICK r \in 0 .. n - 1 : r = x % n /\ Multiple(x - r, n)
  BY <1>0, Remainder
<1>2. PICK s \in 0 .. n - 1 : s = y % n /\ Multiple(y - s, n)
  BY <1>0, Remainder
<1>3. PICK u \in Int, v \in Int : u = y - s /\ v = x - r
  OBVIOUS
<1>4. Multiple(u - v, n)
  BY <1>1, <1>2, <1>3, Multiples
<1>5. r = s => u - v = y - x
  BY <1>3
<1> QED
  BY <1>1, <1>2, <1>4, <1>5, SmallMultiple

-----------------------------------------------------------------------------
(* The tunnel: the messages. *)

InLock == {"write+", "wrote", "read+", "readNB+", "gotten", "clear+"}

TunnelStep ==
    {"new", "attach", "store", "unlink", "idle", "failed", "write", "read", "readNB", "clear"}
        \cup InLock

TunnelType ==
    /\ step \in [Process -> TunnelStep] /\ local \in [Process -> Int]
    /\ lockVal \in SUBSET Process
    /\ slots \in [0 .. BuffSize - 1 -> Int]
    /\ sent \in Seq(Int) /\ taken \in Seq(Int)

(* Who is between lock and unlock has the lock, alone. *)
LockInv == \A p \in Process : step[p] \in InLock => lockVal = {p}

(* The indices count what was written and what was taken, in turns, and the *)
(* slots between them hold what is to be taken.                             *)
RingInv ==
    /\ Len(taken) <= Len(sent) /\ Len(sent) < Len(taken) + BuffSize
    /\ readIndex = Len(taken) % BuffSize /\ writeIndex = Len(sent) % BuffSize
    /\ \A i \in 1 .. Len(taken) : taken[i] = sent[i]
    /\ \A i \in 1 .. Len(sent) : i > Len(taken) => slots[(i - 1) % BuffSize] = sent[i]

(* Where a writer or a reader is in the buffer. *)
AtSlotInv ==
    \A p \in Process :
        /\ step[p] = "wrote" =>
            slots[writeIndex] = local[p] /\ Len(sent) + 1 < Len(taken) + BuffSize
        /\ step[p] = "gotten" =>
            Len(taken) < Len(sent) /\ local[p] = sent[Len(taken) + 1]

MessageInd == TunnelType /\ LockInv /\ RingInv /\ AtSlotInv

LEMMA BufferRest ==
    ASSUME MessageInd
    PROVE  taken \o InBuffer = sent /\ InBuffer \in Seq(Int)
<1> DEFINE t == Len(taken)
           s == Len(sent)
<1>1. /\ t \in Nat /\ s \in Nat /\ t <= s /\ s < t + BuffSize
      /\ sent \in Seq(Int) /\ taken \in Seq(Int) /\ BuffSize \in Nat \ {0}
      /\ readIndex = t % BuffSize /\ writeIndex = s % BuffSize
      /\ \A i \in 1 .. t : taken[i] = sent[i]
      /\ \A i \in 1 .. s : i > t => slots[(i - 1) % BuffSize] = sent[i]
  BY TunnelAssumption DEF MessageInd, TunnelType, RingInv
<1>2. Length = s - t
  BY <1>1, Distance DEF Length
<1> HIDE DEF t, s
<1>3. ASSUME NEW k \in 1 .. s - t
      PROVE  slots[(readIndex + k - 1) % BuffSize] = sent[t + k] /\ sent[t + k] \in Int
  <2>1. PICK j \in Nat : j = k - 1
    BY <1>1
  <2>2. ((t % BuffSize) + j) % BuffSize = (t + j) % BuffSize
    BY <1>1, Behind
  <2>3. readIndex + k - 1 = (t % BuffSize) + j /\ t + j = (t + k) - 1
    BY <1>1, <2>1, Remainder
  <2>4. t + k \in 1 .. s /\ t + k > t
    BY <1>1
  <2>5. sent[t + k] \in Int
    BY <1>1, <2>4 DEF s
  <2> QED
    BY <1>1, <2>2, <2>3, <2>4, <2>5
<1>4. InBuffer = [k \in 1 .. s - t |-> sent[t + k]]
  BY <1>2, <1>3 DEF InBuffer
<1>5. InBuffer \in Seq(Int) /\ Len(InBuffer) = s - t
  <2>1. PICK n \in Nat : n = s - t
    BY <1>1
  <2>2. InBuffer \in [1 .. n -> Int]
    BY <1>3, <1>4, <2>1
  <2>3. InBuffer \in Seq(Int)
    BY <2>2
  <2>4. DOMAIN InBuffer = 1 .. n
    BY <2>2
  <2> QED
    BY <2>1, <2>3, <2>4, LenProperties
<1>6. /\ taken \o InBuffer \in Seq(Int) /\ Len(taken \o InBuffer) = s
      /\ \A i \in 1 .. s :
            (taken \o InBuffer)[i] = IF i <= t THEN taken[i] ELSE InBuffer[i - t]
  <2>1. /\ taken \o InBuffer \in Seq(Int)
        /\ Len(taken \o InBuffer) = Len(taken) + Len(InBuffer)
        /\ \A i \in 1 .. Len(taken) + Len(InBuffer) : (taken \o InBuffer)[i] =
                IF i <= Len(taken) THEN taken[i] ELSE InBuffer[i - Len(taken)]
    BY <1>1, <1>5, ConcatProperties
  <2>2. Len(taken) + Len(InBuffer) = s /\ Len(taken) = t
    BY <1>1, <1>5 DEF t
  <2> QED
    BY <2>1, <2>2
<1>7. ASSUME NEW i \in 1 .. s PROVE (taken \o InBuffer)[i] = sent[i]
  <2>1. CASE i <= t
    BY <1>1, <1>6, <2>1
  <2>2. CASE ~(i <= t)
    <3>1. i - t \in 1 .. s - t /\ t + (i - t) = i
      BY <1>1, <2>2
    <3>2. InBuffer[i - t] = sent[i]
      BY <1>4, <3>1
    <3> QED
      BY <1>6, <2>2, <3>2
  <2> QED
    BY <2>1, <2>2
<1> QED
  BY <1>1, <1>5, <1>6, <1>7, SeqEqual DEF s

(* How one process may change the lock, and that it then is still exclusive. *)
LockChange(p, l) ==
    \/ lockVal' = lockVal /\ (l \in InLock => step[p] \in InLock)
    \/ lockVal = {} /\ lockVal' = {p}
    \/ lockVal = {p} /\ lockVal' = {} /\ l \notin InLock

LEMMA LockStep ==
    ASSUME TunnelType, LockInv, NEW p \in Process, NEW l \in TunnelStep,
           Enter(p, l), LockChange(p, l)
    PROVE  /\ LockInv' /\ lockVal' \in SUBSET Process
           /\ step' \in [Process -> TunnelStep] /\ step'[p] = l
           /\ \A q \in Process : q # p => step'[q] = step[q]
<1>1. step' = [step EXCEPT ![p] = l] /\ step \in [Process -> TunnelStep]
  BY DEF Enter, TunnelType
<1>2. /\ step' \in [Process -> TunnelStep] /\ step'[p] = l
      /\ \A q \in Process : q # p => step'[q] = step[q]
  BY <1>1
<1>3. lockVal' \in SUBSET Process
  BY DEF LockChange, TunnelType
<1>4. LockInv'
  BY <1>2 DEF LockInv, LockChange
<1> QED
  BY <1>2, <1>3, <1>4

LEMMA Alone ==
    ASSUME LockInv, NEW p \in Process, step[p] \in InLock, NEW q \in Process, q # p
    PROVE  step[q] \notin InLock
BY DEF LockInv

(* Steps outside the buffer. *)
LEMMA OutsideStep ==
    ASSUME MessageInd, NEW p \in Process, NEW l \in TunnelStep \ {"wrote", "gotten"},
           Enter(p, l), LockChange(p, l), NEW v \in Int, local' = [local EXCEPT ![p] = v],
           UNCHANGED <<ring, history>>
    PROVE  MessageInd'
<1>1. TunnelType /\ LockInv /\ RingInv /\ AtSlotInv
  BY DEF MessageInd
<1>2. /\ LockInv' /\ lockVal' \in SUBSET Process
      /\ step' \in [Process -> TunnelStep] /\ step'[p] = l
      /\ \A q \in Process : q # p => step'[q] = step[q]
  BY <1>1, LockStep
<1>3. /\ local' \in [Process -> Int]
      /\ \A q \in Process : q # p => local'[q] = local[q]
  BY <1>1 DEF TunnelType
<1>4. UNCHANGED <<readIndex, writeIndex, slots, sent, taken>>
  BY DEF ring, history
<1>5. TunnelType'
  BY <1>1, <1>2, <1>3, <1>4 DEF TunnelType
<1>6. RingInv'
  BY <1>1, <1>4 DEF RingInv
<1>7. AtSlotInv'
  BY <1>1, <1>2, <1>3, <1>4 DEF AtSlotInv
<1> QED
  BY <1>2, <1>5, <1>6, <1>7 DEF MessageInd

(* The numbers behind the indices. *)
LEMMA RingFacts ==
    ASSUME MessageInd
    PROVE  /\ BuffSize \in Nat \ {0} /\ Len(taken) \in Nat /\ Len(sent) \in Nat
           /\ sent \in Seq(Int) /\ taken \in Seq(Int) /\ slots \in [0 .. BuffSize - 1 -> Int]
           /\ readIndex \in 0 .. BuffSize - 1 /\ writeIndex \in 0 .. BuffSize - 1
           /\ Inc(readIndex) = (Len(taken) + 1) % BuffSize
           /\ Inc(writeIndex) = (Len(sent) + 1) % BuffSize
<1>1. /\ BuffSize \in Nat \ {0} /\ Len(taken) \in Nat /\ Len(sent) \in Nat
      /\ sent \in Seq(Int) /\ taken \in Seq(Int) /\ slots \in [0 .. BuffSize - 1 -> Int]
      /\ readIndex = Len(taken) % BuffSize /\ writeIndex = Len(sent) % BuffSize
  BY TunnelAssumption DEF MessageInd, TunnelType, RingInv
<1>2. readIndex \in 0 .. BuffSize - 1 /\ writeIndex \in 0 .. BuffSize - 1
  BY <1>1
<1>3. /\ Inc(readIndex) = (Len(taken) + 1) % BuffSize
      /\ Inc(writeIndex) = (Len(sent) + 1) % BuffSize
  BY <1>1, Behind DEF Inc
<1> QED
  BY <1>1, <1>2, <1>3

LEMMA WriteSlotStep ==
    ASSUME MessageInd, NEW p \in Process, WriteSlot(p)
    PROVE  MessageInd'
<1>1. TunnelType /\ LockInv /\ RingInv /\ AtSlotInv /\ lockVal = {p}
  BY DEF MessageInd, LockInv, WriteSlot, InLock
<1>2. CASE Inc(writeIndex) # readIndex
  <2>1. /\ slots' = [slots EXCEPT ![writeIndex] = local[p]] /\ Enter(p, "wrote")
        /\ UNCHANGED <<lockVal, local, readIndex, writeIndex, sent, taken>>
    BY <1>2 DEF WriteSlot, history
  <2>2. PICK s \in Nat, t \in Nat, n \in Nat \ {0} :
            s = Len(sent) /\ t = Len(taken) /\ n = BuffSize
    BY RingFacts
  <2>3. /\ t <= s /\ s < t + n /\ readIndex = t % n /\ writeIndex = s % n
        /\ Inc(writeIndex) = (s + 1) % n /\ writeIndex \in 0 .. n - 1
        /\ slots \in [0 .. n - 1 -> Int] /\ local[p] \in Int
        /\ \A i \in 1 .. s : i > t => slots[(i - 1) % n] = sent[i]
    BY <1>1, <2>2, RingFacts DEF RingInv, TunnelType
  <2>4. s + 1 < t + n
    <3>1. s + 1 = t + n => (s + 1) % n = t % n
      BY Around
    <3> QED
      BY <1>2, <2>3, <3>1
  <2>5. slots' \in [0 .. n - 1 -> Int] /\ slots'[writeIndex] = local[p]
    BY <2>1, <2>3
  <2>6. ASSUME NEW i \in 1 .. s, i > t
        PROVE  slots'[(i - 1) % n] = sent[i]
    <3>1. PICK j \in Nat : j = i - 1
      OBVIOUS
    <3>2. j % n # s % n /\ j % n \in 0 .. n - 1
      <4>1. j < s /\ s < j + n /\ j \in Int
        BY <2>3, <2>6, <3>1
      <4>2. j % n # s % n
        BY <4>1, OtherSlot
      <4>3. j % n \in 0 .. n - 1
        BY <4>1, Remainder
      <4> QED
        BY <4>2, <4>3
    <3>3. slots'[j % n] = slots[j % n]
      BY <2>1, <2>3, <3>2
    <3> QED
      BY <2>3, <2>6, <3>1, <3>3
  <2>7. /\ LockInv' /\ lockVal' \in SUBSET Process
        /\ step' \in [Process -> TunnelStep] /\ step'[p] = "wrote"
        /\ \A q \in Process : q # p => step'[q] = step[q]
    BY <1>1, <2>1, LockStep DEF LockChange, WriteSlot, InLock, TunnelStep
  <2>8. TunnelType'
    BY <1>1, <2>1, <2>2, <2>5, <2>7 DEF TunnelType
  <2>9. RingInv'
    BY <1>1, <2>1, <2>2, <2>6 DEF RingInv
  <2>10. \A q \in Process : q # p => step'[q] \notin {"wrote", "gotten"}
    BY <1>1, <2>7, Alone DEF WriteSlot, InLock
  <2>11. AtSlotInv'
    BY <2>1, <2>2, <2>4, <2>5, <2>7, <2>10 DEF AtSlotInv
  <2> QED
    BY <2>7, <2>8, <2>9, <2>11 DEF MessageInd
<1>3. CASE ~(Inc(writeIndex) # readIndex)
  <2>1. /\ lockVal' = {} /\ Enter(p, "write") /\ UNCHANGED <<local, ring, history>>
    BY <1>3 DEF WriteSlot, ring
  <2>2. local' = [local EXCEPT ![p] = local[p]] /\ local[p] \in Int
    BY <1>1, <2>1 DEF TunnelType
  <2> QED
    BY <1>1, <2>1, <2>2, OutsideStep DEF LockChange, InLock, TunnelStep
<1> QED
  BY <1>2, <1>3

LEMMA WriteDoneStep ==
    ASSUME MessageInd, NEW p \in Process, WriteDone(p)
    PROVE  MessageInd'
<1>1. TunnelType /\ LockInv /\ RingInv /\ AtSlotInv /\ lockVal = {p} /\ step[p] = "wrote"
  BY DEF MessageInd, LockInv, WriteDone, InLock
<1>2. /\ writeIndex' = Inc(writeIndex) /\ sent' = Append(sent, local[p])
      /\ lockVal' = {} /\ local' = [local EXCEPT ![p] = 0] /\ Enter(p, "idle")
      /\ UNCHANGED <<readIndex, slots, taken>>
  BY DEF WriteDone
<1>3. PICK s \in Nat, t \in Nat, n \in Nat \ {0} :
          s = Len(sent) /\ t = Len(taken) /\ n = BuffSize
  BY RingFacts
<1>4. /\ t <= s /\ s + 1 < t + n /\ readIndex = t % n /\ writeIndex = s % n
      /\ Inc(writeIndex) = (s + 1) % n
      /\ slots[s % n] = local[p] /\ local[p] \in Int
      /\ \A i \in 1 .. t : taken[i] = sent[i]
      /\ \A i \in 1 .. s : i > t => slots[(i - 1) % n] = sent[i]
  BY <1>1, <1>3, RingFacts DEF RingInv, TunnelType, AtSlotInv
<1>5. /\ sent' \in Seq(Int) /\ Len(sent') = s + 1 /\ sent'[s + 1] = local[p]
      /\ \A i \in 1 .. s : sent'[i] = sent[i]
  BY <1>1, <1>2, <1>3, <1>4, AppendProperties DEF TunnelType
<1>6. RingInv'
  <2>1. \A i \in 1 .. t : taken'[i] = sent'[i]
    BY <1>2, <1>4, <1>5
  <2>2. ASSUME NEW i \in 1 .. s + 1, i > t
        PROVE  slots[(i - 1) % n] = sent'[i]
    <3>1. CASE i = s + 1
      BY <1>4, <1>5, <3>1
    <3>2. CASE i # s + 1
      BY <1>4, <1>5, <2>2, <3>2
    <3> QED
      BY <3>1, <3>2
  <2>3. /\ t <= s + 1 /\ s + 1 < t + n
        /\ readIndex' = t % n /\ writeIndex' = (s + 1) % n
        /\ Len(taken') = t /\ Len(sent') = s + 1 /\ BuffSize = n
    BY <1>2, <1>3, <1>4, <1>5
  <2>4. \A i \in 1 .. s + 1 : i > t => slots'[(i - 1) % n] = sent'[i]
    BY <1>2, <2>2
  <2> QED
    BY <2>1, <2>3, <2>4 DEF RingInv
<1>7. /\ LockInv' /\ lockVal' \in SUBSET Process
      /\ step' \in [Process -> TunnelStep] /\ step'[p] = "idle"
      /\ \A q \in Process : q # p => step'[q] = step[q]
  BY <1>1, <1>2, LockStep DEF LockChange, InLock, TunnelStep
<1>8. TunnelType'
  <2>1. local' \in [Process -> Int]
    BY <1>1, <1>2 DEF TunnelType
  <2> QED
    BY <1>1, <1>2, <1>5, <1>7, <2>1 DEF TunnelType
<1>9. AtSlotInv'
  BY <1>1, <1>7, Alone DEF AtSlotInv, InLock
<1> QED
  BY <1>6, <1>7, <1>8, <1>9 DEF MessageInd

LEMMA ReadSlotStep ==
    ASSUME MessageInd, NEW p \in Process, ReadSlot(p)
    PROVE  MessageInd'
<1>1. /\ TunnelType /\ LockInv /\ RingInv /\ AtSlotInv /\ lockVal = {p}
      /\ step[p] \in {"read+", "readNB+"}
  BY DEF MessageInd, LockInv, ReadSlot, InLock
<1>2. CASE readIndex # writeIndex
  <2>1. /\ local' = [local EXCEPT ![p] = slots[readIndex]] /\ Enter(p, "gotten")
        /\ UNCHANGED <<lockVal, readIndex, writeIndex, slots, sent, taken>>
    BY <1>2 DEF ReadSlot, ring, history
  <2>2. PICK s \in Nat, t \in Nat, n \in Nat \ {0} :
            s = Len(sent) /\ t = Len(taken) /\ n = BuffSize
    BY RingFacts
  <2>3. /\ t <= s /\ readIndex = t % n /\ writeIndex = s % n /\ readIndex \in 0 .. n - 1
        /\ \A i \in 1 .. s : i > t => slots[(i - 1) % n] = sent[i]
        /\ slots \in [0 .. n - 1 -> Int]
    BY <1>1, <2>2, RingFacts DEF RingInv
  <2>4. t < s /\ t + 1 \in 1 .. s /\ (t + 1) - 1 = t
    BY <1>2, <2>3
  <2>5. slots[readIndex] = sent[t + 1]
    BY <2>3, <2>4
  <2>6. local' \in [Process -> Int] /\ local'[p] = sent[t + 1]
    BY <1>1, <2>1, <2>3, <2>5 DEF TunnelType
  <2>7. /\ LockInv' /\ lockVal' \in SUBSET Process
        /\ step' \in [Process -> TunnelStep] /\ step'[p] = "gotten"
        /\ \A q \in Process : q # p => step'[q] = step[q]
    BY <1>1, <2>1, LockStep DEF LockChange, InLock, TunnelStep
  <2>8. TunnelType'
    BY <1>1, <2>1, <2>6, <2>7 DEF TunnelType
  <2>9. RingInv'
    BY <1>1, <2>1 DEF RingInv
  <2>10. \A q \in Process : q # p => step'[q] \notin {"wrote", "gotten"}
    BY <1>1, <2>7, Alone DEF InLock
  <2>11. AtSlotInv'
    BY <2>1, <2>2, <2>4, <2>6, <2>7, <2>10 DEF AtSlotInv
  <2> QED
    BY <2>7, <2>8, <2>9, <2>11 DEF MessageInd
<1>3. CASE ~(readIndex # writeIndex)
  <2>1. /\ lockVal' = {} /\ UNCHANGED <<local, ring, history>>
        /\ \E l \in {"read", "idle"} : Enter(p, l)
    BY <1>3 DEF ReadSlot
  <2>2. local' = [local EXCEPT ![p] = local[p]] /\ local[p] \in Int
    BY <1>1, <2>1 DEF TunnelType
  <2> QED
    BY <1>1, <2>1, <2>2, OutsideStep DEF LockChange, InLock, TunnelStep
<1> QED
  BY <1>2, <1>3

LEMMA ReadDoneStep ==
    ASSUME MessageInd, NEW p \in Process, ReadDone(p)
    PROVE  MessageInd'
<1>1. TunnelType /\ LockInv /\ RingInv /\ AtSlotInv /\ lockVal = {p} /\ step[p] = "gotten"
  BY DEF MessageInd, LockInv, ReadDone, InLock
<1>2. /\ readIndex' = Inc(readIndex) /\ taken' = Append(taken, local[p])
      /\ lockVal' = {} /\ local' = [local EXCEPT ![p] = 0] /\ Enter(p, "idle")
      /\ UNCHANGED <<writeIndex, slots, sent>>
  BY DEF ReadDone
<1>3. PICK s \in Nat, t \in Nat, n \in Nat \ {0} :
          s = Len(sent) /\ t = Len(taken) /\ n = BuffSize
  BY RingFacts
<1>4. /\ t < s /\ s < t + n /\ writeIndex = s % n
      /\ Inc(readIndex) = (t + 1) % n
      /\ local[p] = sent[t + 1] /\ local[p] \in Int
      /\ \A i \in 1 .. t : taken[i] = sent[i]
      /\ \A i \in 1 .. s : i > t => slots[(i - 1) % n] = sent[i]
  BY <1>1, <1>3, RingFacts DEF RingInv, TunnelType, AtSlotInv
<1>5. /\ taken' \in Seq(Int) /\ Len(taken') = t + 1 /\ taken'[t + 1] = local[p]
      /\ \A i \in 1 .. t : taken'[i] = taken[i]
  BY <1>1, <1>2, <1>3, <1>4, AppendProperties DEF TunnelType
<1>6. RingInv'
  <2>1. \A i \in 1 .. t + 1 : taken'[i] = sent[i]
    BY <1>4, <1>5
  <2>2. \A i \in 1 .. s : i > t + 1 => slots[(i - 1) % n] = sent[i]
    BY <1>4
  <2> QED
    BY <1>2, <1>3, <1>4, <1>5, <2>1, <2>2 DEF RingInv
<1>7. /\ LockInv' /\ lockVal' \in SUBSET Process
      /\ step' \in [Process -> TunnelStep] /\ step'[p] = "idle"
      /\ \A q \in Process : q # p => step'[q] = step[q]
  BY <1>1, <1>2, LockStep DEF LockChange, InLock, TunnelStep
<1>8. TunnelType'
  <2>1. local' \in [Process -> Int]
    BY <1>1, <1>2 DEF TunnelType
  <2> QED
    BY <1>1, <1>2, <1>5, <1>7, <2>1 DEF TunnelType
<1>9. AtSlotInv'
  BY <1>1, <1>7, Alone DEF AtSlotInv, InLock
<1> QED
  BY <1>6, <1>7, <1>8, <1>9 DEF MessageInd

LEMMA ClearStep ==
    ASSUME MessageInd, NEW p \in Process, Clear(p)
    PROVE  MessageInd'
<1>1. TunnelType /\ LockInv /\ RingInv /\ AtSlotInv /\ lockVal = {p} /\ step[p] = "clear+"
  BY DEF MessageInd, LockInv, Clear, InLock
<1>2. /\ readIndex' = writeIndex /\ taken' = sent
      /\ lockVal' = {} /\ Enter(p, "idle")
      /\ UNCHANGED <<local, writeIndex, slots, sent>>
  BY BufferRest DEF Clear
<1>3. RingInv'
  <2>1. Len(sent) \in Nat /\ BuffSize \in Nat \ {0}
    BY RingFacts
  <2>2. writeIndex = Len(sent) % BuffSize
    BY <1>1 DEF RingInv
  <2> QED
    BY <1>2, <2>1, <2>2 DEF RingInv
<1>4. /\ LockInv' /\ lockVal' \in SUBSET Process
      /\ step' \in [Process -> TunnelStep] /\ step'[p] = "idle"
      /\ \A q \in Process : q # p => step'[q] = step[q]
  BY <1>1, <1>2, LockStep DEF LockChange, InLock, TunnelStep
<1>5. TunnelType'
  BY <1>1, <1>2, <1>4 DEF TunnelType
<1>6. AtSlotInv'
  BY <1>1, <1>4, Alone DEF AtSlotInv, InLock
<1> QED
  BY <1>3, <1>4, <1>5, <1>6 DEF MessageInd
(* The other actions only move a process and its local variable. *)
LEMMA QuietStep ==
    ASSUME MessageInd, NEW p \in Process,
           \/ Open(p) \/ LoadChildren(p) \/ StoreChildren(p) \/ Unlink(p)
           \/ Call(p) \/ Lock(p) \/ TryLock(p),
           expectedChildren \in Int
    PROVE  MessageInd'
<1>1. /\ step \in [Process -> TunnelStep] /\ local \in [Process -> Int] /\ local[p] \in Int
      /\ MaxMessages \in Nat
  BY TunnelAssumption DEF MessageInd, TunnelType
<1>2. local = [local EXCEPT ![p] = local[p]]
  BY <1>1
<1> QED
  <2>1. CASE Open(p)
    <3>1. PICK l \in {"attach", "failed"} : Enter(p, l)
      BY <2>1 DEF Open
    <3>2. UNCHANGED <<local, lockVal, ring, history>>
      BY <2>1 DEF Open
    <3> QED
      BY <1>1, <1>2, <3>1, <3>2, OutsideStep DEF LockChange, InLock, TunnelStep
  <2>2. CASE LoadChildren(p)
    <3>1. /\ Enter(p, "store") /\ local' = [local EXCEPT ![p] = expectedChildren - 1]
          /\ UNCHANGED <<lockVal, ring, history>>
      BY <2>2 DEF LoadChildren
    <3>2. expectedChildren - 1 \in Int
      OBVIOUS
    <3> QED
      BY <3>1, <3>2, OutsideStep DEF LockChange, InLock, TunnelStep
  <2>3. CASE StoreChildren(p)
    <3>1. Enter(p, "unlink") /\ UNCHANGED <<local, lockVal, ring, history>>
      BY <2>3 DEF StoreChildren
    <3> QED
      BY <1>1, <1>2, <3>1, OutsideStep DEF LockChange, InLock, TunnelStep
  <2>4. CASE Unlink(p)
    <3>1. /\ Enter(p, "idle") /\ local' = [local EXCEPT ![p] = 0]
          /\ UNCHANGED <<lockVal, ring, history>>
      BY <2>4 DEF Unlink
    <3>2. 0 \in Int
      OBVIOUS
    <3> QED
      BY <3>1, <3>2, OutsideStep DEF LockChange, InLock, TunnelStep
  <2>5. CASE Call(p)
    <3>1. PICK l \in {"read", "readNB", "clear", "write"}, m \in Int :
              Enter(p, l) /\ local' = [local EXCEPT ![p] = m]
      BY <1>1, <1>2, <2>5 DEF Call, Fresh
    <3>2. UNCHANGED <<lockVal, ring, history>>
      BY <2>5 DEF Call
    <3> QED
      BY <3>1, <3>2, OutsideStep DEF LockChange, InLock, TunnelStep
  <2>6. CASE Lock(p)
    <3>1. PICK l \in {"write+", "read+", "clear+"} : Enter(p, l)
      BY <2>6 DEF Lock
    <3>2. lockVal = {} /\ lockVal' = {p} /\ UNCHANGED <<local, ring, history>>
      BY <2>6 DEF Lock
    <3> QED
      BY <1>1, <1>2, <3>1, <3>2, OutsideStep DEF LockChange, InLock, TunnelStep
  <2>7. CASE TryLock(p)
    <3>1. UNCHANGED <<local, ring, history>>
      BY <2>7 DEF TryLock
    <3>2. CASE lockVal = {}
      <4>1. Enter(p, "readNB+") /\ lockVal' = {p}
        BY <2>7, <3>2 DEF TryLock
      <4> QED
        BY <1>1, <1>2, <3>1, <3>2, <4>1, OutsideStep DEF LockChange, InLock, TunnelStep
    <3>3. CASE lockVal # {}
      <4>1. Enter(p, "idle") /\ lockVal' = lockVal
        BY <2>7, <3>3 DEF TryLock
      <4> QED
        BY <1>1, <1>2, <3>1, <4>1, OutsideStep DEF LockChange, InLock, TunnelStep
    <3> QED
      BY <3>2, <3>3
  <2> QED
    BY <2>1, <2>2, <2>3, <2>4, <2>5, <2>6, <2>7

-----------------------------------------------------------------------------
(* The tunnel: the children. *)

Attaching == {"new", "attach", "store", "unlink", "failed"}

(* The children that have not yet read how many are expected. *)
Unattached == {c \in Child : step[c] \in {"new", "attach"}}

(* However the countdown is interleaved, it never runs below the children that *)
(* are still to come, in the region and in a child's variable alike, so that   *)
(* the name is not removed while there is one.                                 *)
AttachInv ==
    /\ linked \in BOOLEAN /\ expectedChildren \in Int
    /\ \A p \in Process : step[p] # "failed"
    /\ \A p \in Parent : step[p] \notin Attaching
    /\ expectedChildren >= Cardinality(Unattached)
    /\ \A p \in Process : step[p] \in {"store", "unlink"} => local[p] >= Cardinality(Unattached)
    /\ ~linked => Unattached = {}

TunnelInd == MessageInd /\ AttachInv

(* A child that is alone counts down to 0 and removes the name. *)
OnlyChildInv(c) ==
    /\ step[c] \in {"new", "attach"} => expectedChildren = 1
    /\ step[c] \in {"store", "unlink"} => local[c] = 0
    /\ linked => step[c] \in {"new", "attach", "store", "unlink"}

(* What a process that is attached does leaves the children alone. *)
Using(p) ==
    \/ Call(p) \/ Lock(p) \/ TryLock(p) \/ WriteSlot(p) \/ WriteDone(p)
    \/ ReadSlot(p) \/ ReadDone(p) \/ Clear(p)

LEMMA UsingFrame ==
    ASSUME TunnelType, NEW p \in Process, Using(p)
    PROVE  /\ UNCHANGED <<linked, expectedChildren>>
           /\ step[p] \notin Attaching /\ step'[p] \notin Attaching
           /\ \A q \in Process : q # p => step'[q] = step[q] /\ local'[q] = local[q]
<1>1. step \in [Process -> TunnelStep] /\ local \in [Process -> Int]
  BY DEF TunnelType
<1>2. step[p] \notin Attaching /\ UNCHANGED <<linked, expectedChildren>>
  BY DEF Using, Call, Lock, TryLock, WriteSlot, WriteDone, ReadSlot, ReadDone, Clear,
         Attaching, region
<1>3. \E l \in TunnelStep \ Attaching : Enter(p, l)
  <2>1. CASE Call(p)
    BY <2>1 DEF Call, TunnelStep, Attaching
  <2>2. CASE Lock(p)
    BY <2>2 DEF Lock, TunnelStep, InLock, Attaching
  <2>3. CASE TryLock(p)
    BY <2>3 DEF TryLock, TunnelStep, InLock, Attaching
  <2>4. CASE WriteSlot(p)
    BY <2>4 DEF WriteSlot, TunnelStep, InLock, Attaching
  <2>5. CASE ReadSlot(p)
    BY <2>5 DEF ReadSlot, TunnelStep, InLock, Attaching
  <2>6. CASE WriteDone(p) \/ ReadDone(p) \/ Clear(p)
    BY <2>6 DEF WriteDone, ReadDone, Clear, TunnelStep, Attaching
  <2> QED
    BY <2>1, <2>2, <2>3, <2>4, <2>5, <2>6 DEF Using
<1>4. local' = local \/ \E v : local' = [local EXCEPT ![p] = v]
  BY DEF Using, Call, Lock, TryLock, WriteSlot, WriteDone, ReadSlot, ReadDone, Clear
<1>5. \A q \in Process : q # p => local'[q] = local[q]
  BY <1>1, <1>4
<1>6. step'[p] \notin Attaching /\ \A q \in Process : q # p => step'[q] = step[q]
  BY <1>1, <1>3 DEF Enter
<1> QED
  BY <1>2, <1>5, <1>6

LEMMA WaitingCount ==
    /\ IsFiniteSet(Unattached) /\ Cardinality(Unattached) \in Nat
    /\ Unattached # {} => Cardinality(Unattached) >= 1
    /\ \A c \in Unattached : Cardinality(Unattached \ {c}) = Cardinality(Unattached) - 1
<1>1. IsFiniteSet(Unattached)
  BY TunnelAssumption, FS_Subset DEF Unattached
<1>2. Cardinality(Unattached) \in Nat /\ (Unattached # {} => Cardinality(Unattached) # 0)
  BY <1>1, FS_CardinalityType, FS_EmptySet
<1>3. \A c \in Unattached : Cardinality(Unattached \ {c}) = Cardinality(Unattached) - 1
  BY <1>1, FS_RemoveElement
<1> QED
  BY <1>1, <1>2, <1>3

LEMMA TunnelStart ==
    ASSUME TunnelInit
    PROVE  TunnelInd /\ \A c \in Child : Child = {c} => OnlyChildInv(c)
<1>1. /\ step \in [Process -> {"idle", "new"}]
      /\ \A p \in Parent : step[p] = "idle"
      /\ \A p \in Child : step[p] = "new"
  BY TunnelAssumption DEF TunnelInit, Process
<1>2. /\ BuffSize \in Nat \ {0} /\ sent = << >> /\ taken = << >> /\ Len(sent) = 0 /\ Len(taken) = 0
      /\ 0 % BuffSize = 0
  BY TunnelAssumption DEF TunnelInit
<1>3. MessageInd
  <2>1. local \in [Process -> Int] /\ slots \in [0 .. BuffSize - 1 -> Int]
    BY DEF TunnelInit
  <2>2. TunnelType
    BY <1>1, <1>2, <2>1 DEF TunnelInit, TunnelType, TunnelStep
  <2>3. LockInv /\ AtSlotInv
    BY <1>1 DEF LockInv, AtSlotInv, InLock
  <2>4. RingInv
    BY <1>2 DEF RingInv, TunnelInit
  <2> QED
    BY <2>2, <2>3, <2>4 DEF MessageInd
<1>4. Unattached = Child /\ expectedChildren = Cardinality(Child) /\ linked = TRUE
  BY <1>1 DEF Unattached, TunnelInit
<1>5. Cardinality(Child) \in Nat
  BY TunnelAssumption, FS_CardinalityType
<1>6. AttachInv
  BY <1>1, <1>4, <1>5 DEF AttachInv, Attaching, Process
<1>7. ASSUME NEW c \in Child, Child = {c} PROVE OnlyChildInv(c)
  <2>1. Cardinality(Child) = 1
    BY <1>7, FS_Singleton
  <2> QED
    BY <1>1, <1>4, <2>1 DEF OnlyChildInv
<1> QED
  BY <1>3, <1>6, <1>7 DEF TunnelInd

LEMMA AttachStep ==
    ASSUME TunnelType, AttachInv, NEW p \in Process,
           Open(p) \/ LoadChildren(p) \/ StoreChildren(p) \/ Unlink(p) \/ Using(p)
    PROVE  AttachInv'
<1>1. /\ linked \in BOOLEAN /\ expectedChildren \in Int
      /\ \A q \in Process : step[q] # "failed"
      /\ \A q \in Parent : step[q] \notin Attaching
      /\ expectedChildren >= Cardinality(Unattached)
      /\ \A q \in Process : step[q] \in {"store", "unlink"} => local[q] >= Cardinality(Unattached)
      /\ ~linked => Unattached = {}
      /\ step \in [Process -> TunnelStep] /\ local \in [Process -> Int]
  BY DEF AttachInv, TunnelType
<1>2. PICK u \in Nat : u = Cardinality(Unattached)
  BY WaitingCount
<1>3. CASE Open(p)
  <2>1. step[p] = "new" /\ p \in Child /\ p \in Unattached /\ linked
    BY <1>1, <1>3 DEF Open, Attaching, Process, Unattached
  <2>2. /\ step' = [step EXCEPT ![p] = "attach"]
        /\ UNCHANGED <<linked, expectedChildren, local>>
    BY <1>3, <2>1 DEF Open, Enter, region
  <2>3. step'[p] = "attach" /\ \A q \in Process : q # p => step'[q] = step[q]
    BY <1>1, <2>2
  <2>4. Unattached' = Unattached
    BY <2>1, <2>3 DEF Unattached, Process
  <2>5. p \notin Parent
    BY <2>1, TunnelAssumption
  <2> QED
    BY <1>1, <2>2, <2>3, <2>4, <2>5 DEF AttachInv, Process
<1>4. CASE LoadChildren(p)
  <2>1. step[p] = "attach" /\ p \in Child /\ p \in Unattached /\ linked
    BY <1>1, <1>4 DEF LoadChildren, Attaching, Process, Unattached
  <2>2. /\ step' = [step EXCEPT ![p] = "store"]
        /\ local' = [local EXCEPT ![p] = expectedChildren - 1]
        /\ UNCHANGED <<linked, expectedChildren>>
    BY <1>4 DEF LoadChildren, Enter, region
  <2>3. /\ step'[p] = "store" /\ local'[p] = expectedChildren - 1
        /\ \A q \in Process : q # p => step'[q] = step[q] /\ local'[q] = local[q]
    BY <1>1, <2>2
  <2>4. Unattached' = Unattached \ {p}
    BY <2>1, <2>3 DEF Unattached, Process
  <2>5. Cardinality(Unattached') = u - 1 /\ u >= 1
    BY <1>2, <2>1, <2>4, WaitingCount
  <2>6. p \notin Parent
    BY <2>1, TunnelAssumption
  <2>7. \A q \in Process : step'[q] \in {"store", "unlink"} => local'[q] >= u - 1
    BY <1>1, <1>2, <2>3
  <2>8. \A q \in Parent : step'[q] \notin Attaching
    BY <1>1, <2>3, <2>6 DEF Process
  <2> QED
    BY <1>1, <1>2, <2>1, <2>2, <2>3, <2>5, <2>7, <2>8 DEF AttachInv
<1>5. CASE StoreChildren(p)
  <2>1. step[p] = "store" /\ local[p] \in Int /\ local[p] >= u
    BY <1>1, <1>2, <1>5 DEF StoreChildren
  <2>2. /\ step' = [step EXCEPT ![p] = "unlink"] /\ expectedChildren' = local[p]
        /\ UNCHANGED <<linked, local>>
    BY <1>5 DEF StoreChildren, Enter
  <2>3. step'[p] = "unlink" /\ \A q \in Process : q # p => step'[q] = step[q]
    BY <1>1, <2>2
  <2>4. Unattached' = Unattached
    BY <2>1, <2>3 DEF Unattached, Process
  <2>5. p \notin Parent
    BY <1>1, <2>1 DEF Attaching
  <2> QED
    BY <1>1, <1>2, <2>1, <2>2, <2>3, <2>4, <2>5 DEF AttachInv, Process
<1>6. CASE Unlink(p)
  <2>1. step[p] = "unlink" /\ local[p] \in Int /\ local[p] >= u
    BY <1>1, <1>2, <1>6 DEF Unlink
  <2>2. /\ step' = [step EXCEPT ![p] = "idle"] /\ local' = [local EXCEPT ![p] = 0]
        /\ linked' = (linked /\ local[p] # 0) /\ UNCHANGED expectedChildren
    BY <1>6 DEF Unlink, Enter
  <2>3. /\ step'[p] = "idle" /\ \A q \in Process : q # p => step'[q] = step[q]
        /\ \A q \in Process : q # p => local'[q] = local[q]
    BY <1>1, <2>2
  <2>4. Unattached' = Unattached
    BY <2>1, <2>3 DEF Unattached, Process
  <2>5. local[p] = 0 => Unattached = {}
    BY <1>2, <2>1, WaitingCount
  <2>6. linked' \in BOOLEAN /\ (~linked' => Unattached' = {})
    BY <1>1, <2>2, <2>4, <2>5
  <2>7. p \notin Parent
    BY <1>1, <2>1 DEF Attaching
  <2> QED
    BY <1>1, <2>2, <2>3, <2>4, <2>6, <2>7 DEF AttachInv, Process
<1>7. CASE Using(p)
  <2>1. /\ UNCHANGED <<linked, expectedChildren>>
        /\ step[p] \notin Attaching /\ step'[p] \notin Attaching
        /\ \A q \in Process : q # p => step'[q] = step[q] /\ local'[q] = local[q]
    BY <1>7, UsingFrame
  <2>2. Unattached' = Unattached
    BY <2>1 DEF Unattached, Attaching, Process
  <2> QED
    BY <1>1, <2>1, <2>2 DEF AttachInv, Attaching, Process
<1> QED
  BY <1>3, <1>4, <1>5, <1>6, <1>7

LEMMA OnlyChildStep ==
    ASSUME TunnelType, AttachInv, NEW c \in Child, Child = {c}, OnlyChildInv(c),
           NEW p \in Process,
           Open(p) \/ LoadChildren(p) \/ StoreChildren(p) \/ Unlink(p) \/ Using(p)
    PROVE  OnlyChildInv(c)'
<1>1. /\ step \in [Process -> TunnelStep] /\ local \in [Process -> Int] /\ c \in Process
      /\ \A q \in Parent : step[q] \notin Attaching
      /\ step[c] \in {"new", "attach"} => expectedChildren = 1
      /\ step[c] \in {"store", "unlink"} => local[c] = 0
      /\ linked => step[c] \in {"new", "attach", "store", "unlink"}
      /\ step[c] # "failed" /\ (~linked => step[c] \notin {"new", "attach"})
  BY DEF TunnelType, AttachInv, OnlyChildInv, Process, Unattached
<1>2. CASE Using(p)
  <2>1. /\ UNCHANGED <<linked, expectedChildren>>
        /\ step[p] \notin Attaching /\ step'[p] \notin Attaching
        /\ \A q \in Process : q # p => step'[q] = step[q] /\ local'[q] = local[q]
    BY <1>2, UsingFrame
  <2> QED
    BY <1>1, <2>1 DEF OnlyChildInv, Attaching
<1>3. CASE Open(p) \/ LoadChildren(p) \/ StoreChildren(p) \/ Unlink(p)
  <2>1. step[p] \in Attaching
    BY <1>3 DEF Open, LoadChildren, StoreChildren, Unlink, Attaching
  <2>2. p = c
    BY <1>1, <2>1 DEF Process
  <2>3. CASE Open(p)
    BY <1>1, <2>2, <2>3 DEF Open, Enter, region, OnlyChildInv
  <2>4. CASE LoadChildren(p)
    BY <1>1, <2>2, <2>4 DEF LoadChildren, Enter, region, OnlyChildInv
  <2>5. CASE StoreChildren(p)
    BY <1>1, <2>2, <2>5 DEF StoreChildren, Enter, OnlyChildInv
  <2>6. CASE Unlink(p)
    BY <1>1, <2>2, <2>6 DEF Unlink, Enter, OnlyChildInv
  <2> QED
    BY <1>3, <2>3, <2>4, <2>5, <2>6
<1> QED
  BY <1>2, <1>3

LEMMA TunnelIndStep ==
    ASSUME TunnelInd, [TunnelNext]_tunnelVars
    PROVE  TunnelInd' /\ \A c \in Child : Child = {c} /\ OnlyChildInv(c) => OnlyChildInv(c)'
<1>1. MessageInd /\ TunnelType /\ AttachInv /\ expectedChildren \in Int
  BY DEF TunnelInd, MessageInd, AttachInv
<1>2. CASE UNCHANGED tunnelVars
  <2>1. TunnelType' /\ LockInv' /\ RingInv' /\ AtSlotInv'
    BY <1>1, <1>2
       DEF tunnelVars, MessageInd, TunnelType, LockInv, RingInv, AtSlotInv
  <2>2. AttachInv' /\ \A c \in Child : OnlyChildInv(c) => OnlyChildInv(c)'
    BY <1>1, <1>2 DEF tunnelVars, AttachInv, OnlyChildInv, Unattached
  <2> QED
    BY <2>1, <2>2 DEF TunnelInd, MessageInd
<1>3. CASE TunnelNext
  <2>1. PICK p \in Process :
            \/ Open(p) \/ LoadChildren(p) \/ StoreChildren(p) \/ Unlink(p)
            \/ Call(p) \/ Lock(p) \/ TryLock(p)
            \/ WriteSlot(p) \/ WriteDone(p) \/ ReadSlot(p) \/ ReadDone(p) \/ Clear(p)
    BY <1>3 DEF TunnelNext
  <2>2. MessageInd'
    BY <1>1, <2>1, QuietStep, WriteSlotStep, WriteDoneStep, ReadSlotStep, ReadDoneStep,
       ClearStep
  <2>3. Open(p) \/ LoadChildren(p) \/ StoreChildren(p) \/ Unlink(p) \/ Using(p)
    BY <2>1 DEF Using
  <2>4. AttachInv'
    BY <1>1, <2>3, AttachStep
  <2>5. \A c \in Child : Child = {c} /\ OnlyChildInv(c) => OnlyChildInv(c)'
    BY <1>1, <2>3, OnlyChildStep
  <2> QED
    BY <2>2, <2>4, <2>5 DEF TunnelInd
<1> QED
  BY <1>2, <1>3

(* However many processes write, read, poll and clear a buffer, its messages   *)
(* come out once each and in order, and no child finds the region gone however *)
(* the children's countdowns are interleaved (tunneldef.h, circularBuffer.h).  *)
THEOREM MessagesAreKept == TunnelSpec => [](MessagesInOrder /\ NoneShutOut)
<1>1. TunnelInit => TunnelInd
  BY TunnelStart
<1>2. TunnelInd /\ [TunnelNext]_tunnelVars => TunnelInd'
  BY TunnelIndStep
<1>3. TunnelInd => MessagesInOrder /\ NoneShutOut
  BY BufferRest DEF TunnelInd, AttachInv, MessagesInOrder, NoneShutOut, Process
<1> QED
  BY <1>1, <1>2, <1>3, PTL DEF TunnelSpec

(* With one child, for which the tunnel is made, the name of the region is also *)
(* removed as soon as that child is attached (SHMChild).                        *)
THEOREM TunnelIsKept ==
    ASSUME NEW CONSTANT c \in Child, Child = {c}
    PROVE  TunnelSpec => []TunnelKept
<1>1. TunnelInit => TunnelInd /\ OnlyChildInv(c)
  BY TunnelStart
<1>2. TunnelInd /\ OnlyChildInv(c) /\ [TunnelNext]_tunnelVars => TunnelInd' /\ OnlyChildInv(c)'
  BY TunnelIndStep
<1>3. TunnelInd /\ OnlyChildInv(c) => TunnelKept
  <2>1. ASSUME TunnelInd, OnlyChildInv(c) PROVE TunnelKept
    <3>1. MessagesInOrder /\ NoneShutOut
      BY <2>1, BufferRest DEF TunnelInd, AttachInv, MessagesInOrder, NoneShutOut, Process
    <3>2. NameRemoved
      BY <2>1 DEF OnlyChildInv, NameRemoved
    <3> QED
      BY <3>1, <3>2 DEF TunnelKept
  <2> QED
    BY <2>1
<1> QED
  BY <1>1, <1>2, <1>3, PTL DEF TunnelSpec

-----------------------------------------------------------------------------
(* The end of the simulation: the latest of some times. *)

LEMMA MaxIs ==
    ASSUME NEW S, NEW m \in S, m \in Int, \A x \in S : x \in Int /\ x <= m
    PROVE  Max(S) = m
<1>1. \A y \in S : m >= y
  OBVIOUS
<1>2. Max(S) \in S /\ \A y \in S : Max(S) >= y
  BY <1>1 DEF Max
<1>3. PICK z \in S : z = Max(S)
  BY <1>2
<1>4. z \in Int /\ z <= m /\ z >= m
  BY <1>2, <1>3
<1> QED
  BY <1>3, <1>4

LEMMA LatestOf ==
    ASSUME NEW S, S # {}, NEW b \in Nat, \A x \in S : x \in Nat /\ x <= b
    PROVE  \E m \in S : \A x \in S : x <= m
<1> DEFINE T == {b - x : x \in S}
<1>1. T \subseteq Nat /\ T # {}
  OBVIOUS
<1>2. PICK t \in T : \A y \in T : ~(<<y, t>> \in OpToRel(<, Nat))
  BY <1>1, NatLessThanWellFounded, WFMin
<1>3. \A y \in T : ~(y < t)
  BY <1>1, <1>2 DEF OpToRel
<1>4. PICK m \in S : t = b - m
  OBVIOUS
<1>5. ASSUME NEW x \in S PROVE x <= m
  <2>1. b - x \in T
    OBVIOUS
  <2> QED
    BY <1>3, <1>4, <2>1
<1> QED
  BY <1>5

-----------------------------------------------------------------------------
(* The end of the simulation: its inductive invariant. *)

ExitType ==
    /\ layout \in Layouts /\ stopAt \in Nat
    /\ now \in [Part -> Nat] /\ last \in [Part -> Nat] /\ endCycle \in [Part -> Nat]
    /\ endTime \in [Ranks -> Nat]
    /\ state \in [Part -> {"run", "stop", "ended", "over"}]

IndependentThreads == layout.links = "none" /\ layout.threads > 1

(* While the simulation runs its time goes on, up to stopAt, *)
ExitTimeInv ==
    /\ \A p \in Part :
        /\ last[p] <= now[p] /\ now[p] <= stopAt
        /\ state[p] = "stop" => last[p] = now[p] /\ Independent
        /\ state[p] # "over"
    /\ exitAt # {} => Serial

(* threads that are independent keep a time of their own, *)
OwnEndInv == \A p \in Part : state[p] = "ended" => endCycle[p] = last[p]

(* otherwise a rank knows when the last of its threads had something to do, *)
RankEndInv ==
    \A r \in Ranks :
        /\ \E p \in Part : p[1] = r /\ last[p] = endTime[r]
        /\ \A p \in Part : p[1] = r => last[p] <= endTime[r]

(* and who has ended has that time: nobody can add to it any more. *)
EndedInv ==
    \A p \in Part : state[p] = "ended" =>
        /\ endCycle[p] = endTime[p[1]]
        /\ \/ endTime[p[1]] = stopAt
           \/ /\ \A q \in Part : q[1] = p[1] => state[q] = "ended"
              /\ layout.links = "ranks" => SingleRank

(* A rank sync has ended all ranks at the latest time of them all. *)
SyncEndInv ==
    /\ \A p \in Part : state[p] = "ended" /\ last[p] <= endTime[0]
    /\ \E p \in Part : last[p] = endTime[0]
    /\ \A p \in Part : endCycle[p] = endTime[0]
    /\ layout.links = "ranks"

LinkedEndInv == SyncEndInv \/ (RankEndInv /\ EndedInv)

RunningInv ==
    /\ ExitTimeInv
    /\ IndependentThreads => OwnEndInv
    /\ ~IndependentThreads => LinkedEndInv

(* At the end rank 0 has the time to report. *)
OverInv ==
    /\ Over
    /\ \A p \in Part : p[1] = 0 => \E q \in Part : endCycle[p] = last[q]
    /\ \E p \in Part : p[1] = 0 /\ \A q \in Part : last[q] <= endCycle[p]

ExitInd == ExitType /\ (OverInv \/ RunningInv)

LEMMA PartFacts ==
    ASSUME layout \in Layouts
    PROVE  /\ \A p \in Part : p[1] \in Ranks
           /\ \A r \in Ranks : <<r, 0>> \in Part /\ <<r, 0>>[1] = r /\ <<r, 0>>[2] = 0
           /\ 0 \in Ranks
           /\ SingleRank => \A p \in Part : p[1] = 0
           /\ layout.threads > 1 \/ \A p, q \in Part : p[1] = q[1] => p = q
           /\ Serial => layout.threads = 1 /\ \A p, q \in Part : p = q
<1>1. PICK m \in Nat \ {0}, n \in Nat \ {0} : m = layout.ranks /\ n = layout.threads
  BY ExitAssumption DEF Layout
<1>2. Part = (0 .. m - 1) \X (0 .. n - 1) /\ Ranks = 0 .. m - 1
  BY <1>1 DEF Part, Ranks
<1>3. /\ \A p \in Part : p[1] \in Ranks
      /\ \A r \in Ranks : <<r, 0>> \in Part /\ <<r, 0>>[1] = r /\ <<r, 0>>[2] = 0
      /\ 0 \in Ranks
  BY <1>2
<1>4. SingleRank => \A p \in Part : p[1] = 0
  BY <1>1, <1>2 DEF SingleRank
<1>5. layout.threads > 1 \/ \A p, q \in Part : p[1] = q[1] => p = q
  <2>1. CASE n > 1
    BY <1>1, <2>1
  <2>2. CASE n = 1
    <3>1. \A p \in Part : p = <<p[1], 0>>
      BY <1>2, <2>2
    <3> QED
      BY <3>1
  <2> QED
    BY <2>1, <2>2
<1>6. Serial => layout.threads = 1 /\ \A p, q \in Part : p = q
  BY <1>1, <1>4, <1>5 DEF Serial
<1> QED
  BY <1>3, <1>4, <1>5, <1>6

LEMMA SameLayout ==
    ASSUME layout' = layout
    PROVE  /\ Part' = Part /\ Ranks' = Ranks /\ (Serial' <=> Serial)
           /\ (SingleRank' <=> SingleRank) /\ (Independent' <=> Independent)
           /\ (IndependentThreads' <=> IndependentThreads)
BY DEF Part, Ranks, Serial, SingleRank, Independent, IndependentThreads

LEMMA ExitStart ==
    ASSUME ExitInit
    PROVE  ExitInd
<1>1. layout \in Layouts /\ stopAt \in Nat
  BY ExitAssumption DEF ExitInit
<1>2. /\ now = [p \in Part |-> 0] /\ last = [p \in Part |-> 0] /\ endCycle = [p \in Part |-> 0]
      /\ endTime = [r \in Ranks |-> 0] /\ exitAt = {}
      /\ state = [p \in Part |-> IF Independent /\ refs[p] = 0 THEN "stop" ELSE "run"]
  BY DEF ExitInit
<1>3. ExitType
  BY <1>1, <1>2 DEF ExitType
<1>4. \A p \in Part : state[p] \in {"stop", "run"} /\ (state[p] = "stop" => Independent)
  BY <1>2
<1>5. ExitTimeInv
  BY <1>1, <1>2, <1>4 DEF ExitTimeInv
<1>6. OwnEndInv /\ EndedInv
  BY <1>4 DEF OwnEndInv, EndedInv
<1>7. RankEndInv
  <2>1. \A p \in Part : last[p] = 0 /\ p[1] \in Ranks
    BY <1>1, <1>2, PartFacts
  <2>2. \A r \in Ranks : endTime[r] = 0 /\ <<r, 0>> \in Part /\ <<r, 0>>[1] = r
    BY <1>1, <1>2, PartFacts
  <2>3. ASSUME NEW r \in Ranks
        PROVE  /\ \E p \in Part : p[1] = r /\ last[p] = endTime[r]
               /\ \A p \in Part : p[1] = r => last[p] <= endTime[r]
    <3>1. PICK p \in Part : p[1] = r /\ endTime[r] = 0
      BY <2>2
    <3>2. last[p] = endTime[r]
      BY <2>1, <3>1
    <3>3. \A q \in Part : last[q] <= endTime[r]
      BY <2>1, <3>1
    <3> QED
      BY <3>1, <3>2, <3>3
  <2> QED
    BY <2>3 DEF RankEndInv
<1> QED
  BY <1>3, <1>5, <1>6, <1>7 DEF ExitInd, RunningInv, LinkedEndInv

(* A thread that is not over shows that the simulation still runs. *)
LEMMA Running ==
    ASSUME ExitInd, NEW p \in Part, state[p] # "over"
    PROVE  RunningInv
BY DEF ExitInd, OverInv, Over

LEMMA AdvanceStep ==
    ASSUME ExitInd, NEW p \in Part, Advance(p) \/ RefInc(p)
    PROVE  ExitInd'
<1>1. ExitType /\ RunningInv
  BY Running DEF Advance, RefInc, ExitInd
<1>2. /\ UNCHANGED <<layout, stopAt, endTime, endCycle, exitAt, state, last>>
      /\ \/ now' = [now EXCEPT ![p] = @ + 1] /\ now[p] < stopAt
         \/ now' = now
      /\ state[p] = "run"
  BY DEF Advance, RefInc
<1>3. /\ now' \in [Part -> Nat] /\ \A q \in Part : now[q] <= now'[q]
      /\ \A q \in Part : q # p => now'[q] = now[q]
      /\ now[p] <= stopAt => now'[p] <= stopAt
  BY <1>1, <1>2 DEF ExitType
<1>4. /\ Part' = Part /\ Ranks' = Ranks /\ (Serial' <=> Serial)
      /\ (SingleRank' <=> SingleRank) /\ (Independent' <=> Independent)
      /\ (IndependentThreads' <=> IndependentThreads)
  BY <1>2, SameLayout
<1>5. ExitType'
  BY <1>1, <1>2, <1>3, <1>4 DEF ExitType
<1>6. ExitTimeInv'
  BY <1>1, <1>2, <1>3, <1>4 DEF RunningInv, ExitTimeInv, ExitType
<1>7. OwnEndInv => OwnEndInv'
  BY <1>2, <1>4 DEF OwnEndInv
<1>8. LinkedEndInv => LinkedEndInv'
  BY <1>2, <1>4 DEF LinkedEndInv, SyncEndInv, RankEndInv, EndedInv
<1> QED
  BY <1>1, <1>4, <1>5, <1>6, <1>7, <1>8 DEF ExitInd, RunningInv

LEMMA RefDecStep ==
    ASSUME ExitInd, NEW p \in Part, RefDec(p)
    PROVE  ExitInd'
<1>1. ExitType /\ RunningInv /\ ExitTimeInv /\ state[p] = "run"
  BY Running DEF RefDec, ExitInd, RunningInv
<1>2. /\ layout \in Layouts /\ stopAt \in Nat
      /\ now \in [Part -> Nat] /\ last \in [Part -> Nat] /\ endCycle \in [Part -> Nat]
      /\ endTime \in [Ranks -> Nat] /\ state \in [Part -> {"run", "stop", "ended", "over"}]
  BY <1>1 DEF ExitType
<1>3. PICK r \in Ranks : r = p[1]
  BY <1>2, PartFacts
<1>4. /\ last' = [last EXCEPT ![p] = now[p]]
      /\ endTime' = [endTime EXCEPT ![r] = IF Serial THEN now[p] ELSE Later(@, now[p])]
      /\ exitAt' = IF Serial THEN exitAt \cup {now[p] + 1} ELSE exitAt
      /\ state' = [state EXCEPT ![p] = IF Independent THEN "stop" ELSE @]
      /\ UNCHANGED <<layout, stopAt, now, endCycle>>
  BY <1>3 DEF RefDec
<1>5. PICK n \in Nat, e \in Nat : n = now[p] /\ e = endTime[r]
  BY <1>2
<1>6. PICK f \in Nat :
          /\ f = endTime'[r] /\ f \in {n, e} /\ n <= f
          /\ Serial => f = n
          /\ ~Serial => e <= f
  <2>1. CASE Serial
    <3>1. endTime'[r] = n
      BY <1>2, <1>4, <1>5, <2>1
    <3>2. n <= n
      OBVIOUS
    <3> QED
      BY <2>1, <3>1, <3>2
  <2>2. CASE ~Serial
    <3>1. endTime'[r] = Max({e, n})
      BY <1>2, <1>4, <1>5, <2>2 DEF Later
    <3>2. CASE e <= n
      <4>1. Max({e, n}) = n
        BY <3>2, MaxIs
      <4>2. endTime'[r] = n /\ n <= n
        BY <3>1, <4>1
      <4> QED
        BY <2>2, <3>2, <4>2
    <3>3. CASE n <= e
      <4>1. Max({e, n}) = e
        BY <3>3, MaxIs
      <4>2. endTime'[r] = e
        BY <3>1, <4>1
      <4> QED
        BY <2>2, <3>3, <4>2
    <3> QED
      BY <3>2, <3>3
  <2> QED
    BY <2>1, <2>2
<1>7. /\ endTime' \in [Ranks -> Nat] /\ \A q \in Ranks : q # r => endTime'[q] = endTime[q]
      /\ last' \in [Part -> Nat] /\ last'[p] = n
      /\ \A q \in Part : q # p => last'[q] = last[q] /\ state'[q] = state[q]
      /\ state' \in [Part -> {"run", "stop", "ended", "over"}]
      /\ state'[p] = (IF Independent THEN "stop" ELSE "run")
  <2>1. endTime' \in [Ranks -> Nat]
    <3>1. endTime' = [endTime EXCEPT ![r] = f]
      BY <1>2, <1>4, <1>6
    <3> QED
      BY <1>2, <3>1
  <2> QED
    BY <1>1, <1>2, <1>4, <1>5, <2>1
<1>8. /\ Part' = Part /\ Ranks' = Ranks /\ (Serial' <=> Serial)
      /\ (SingleRank' <=> SingleRank) /\ (Independent' <=> Independent)
      /\ (IndependentThreads' <=> IndependentThreads)
  BY <1>4, SameLayout
<1>9. ExitType'
  BY <1>2, <1>4, <1>7, <1>8 DEF ExitType
<1>10. \A q \in Part : last[q] <= now[q] /\ now[q] <= stopAt /\ last[q] \in Nat /\ now[q] \in Nat
  BY <1>1, <1>2 DEF ExitTimeInv
<1>11. ExitTimeInv'
  <2>1. exitAt' # {} => Serial
    BY <1>1, <1>4 DEF ExitTimeInv
  <2>2. ASSUME NEW q \in Part
        PROVE  /\ last'[q] <= now[q] /\ now[q] <= stopAt
               /\ state'[q] = "stop" => last'[q] = now[q] /\ Independent
               /\ state'[q] # "over"
    BY <1>1, <1>5, <1>7, <1>10 DEF ExitTimeInv
  <2> QED
    BY <1>4, <1>8, <2>1, <2>2 DEF ExitTimeInv
<1>12. IndependentThreads => OwnEndInv'
  BY <1>1, <1>4, <1>7, <1>8 DEF RunningInv, OwnEndInv
<1>13. ASSUME ~IndependentThreads PROVE RankEndInv' /\ EndedInv'
  <2>1. RankEndInv /\ EndedInv
    BY <1>1, <1>13 DEF RunningInv, LinkedEndInv, SyncEndInv
  <2>2. ASSUME NEW q \in Part, q[1] = r PROVE last'[q] <= f
    <3>1. CASE q = p
      BY <1>6, <1>7, <3>1
    <3>2. CASE q # p
      <4>1. ~Serial
        BY <1>2, <3>2, PartFacts
      <4>2. last[q] <= e
        BY <1>5, <2>1, <2>2 DEF RankEndInv
      <4> QED
        BY <1>6, <1>7, <1>10, <3>2, <4>1, <4>2
    <3> QED
      BY <3>1, <3>2
  <2>3. \E q \in Part : q[1] = r /\ last'[q] = f
    <3>1. CASE f = n
      BY <1>3, <1>7, <3>1
    <3>2. CASE f # n
      <4>1. PICK q \in Part : q[1] = r /\ last[q] = e
        BY <1>5, <2>1 DEF RankEndInv
      <4>2. f = e /\ n < e
        BY <1>6, <3>2
      <4>3. q # p
        BY <1>5, <1>10, <4>1, <4>2
      <4> QED
        BY <1>7, <4>1, <4>2, <4>3
    <3> QED
      BY <3>1, <3>2
  <2>4. RankEndInv'
    <3>1. ASSUME NEW x \in Ranks, x # r
          PROVE  /\ \E q \in Part : q[1] = x /\ last'[q] = endTime'[x]
                 /\ \A q \in Part : q[1] = x => last'[q] <= endTime'[x]
      BY <1>3, <1>7, <2>1, <3>1 DEF RankEndInv
    <3> QED
      BY <1>6, <1>8, <2>2, <2>3, <3>1 DEF RankEndInv
  <2>5. EndedInv'
    <3>1. ASSUME NEW q \in Part, state'[q] = "ended"
          PROVE  /\ endCycle'[q] = endTime'[q[1]]
                 /\ \/ endTime'[q[1]] = stopAt
                    \/ /\ \A x \in Part : x[1] = q[1] => state'[x] = "ended"
                       /\ layout.links = "ranks" => SingleRank
      <4>1. q # p /\ state[q] = "ended" /\ q[1] \in Ranks
        BY <1>2, <1>7, <3>1, PartFacts
      <4>2. /\ endCycle[q] = endTime[q[1]]
            /\ \/ endTime[q[1]] = stopAt
               \/ /\ \A x \in Part : x[1] = q[1] => state[x] = "ended"
                  /\ layout.links = "ranks" => SingleRank
        BY <2>1, <4>1 DEF EndedInv
      <4>3. CASE q[1] # r
        <5>1. endTime'[q[1]] = endTime[q[1]]
          BY <1>7, <4>1, <4>3
        <5>2. \A x \in Part : x[1] = q[1] => state'[x] = state[x]
          BY <1>3, <1>7, <4>3
        <5> QED
          BY <1>4, <4>2, <5>1, <5>2
      <4>4. CASE q[1] = r
        <5>1. e = stopAt /\ ~Serial
          BY <1>1, <1>2, <1>3, <1>5, <4>1, <4>2, <4>4, PartFacts
        <5>2. n <= stopAt
          BY <1>5, <1>10
        <5>3. f = e
          BY <1>2, <1>6, <5>1, <5>2
        <5> QED
          BY <1>4, <1>5, <1>6, <4>2, <4>4, <5>1, <5>3
      <4> QED
        BY <4>3, <4>4
    <3> QED
      BY <1>4, <1>8, <3>1 DEF EndedInv
  <2> QED
    BY <2>4, <2>5
<1> QED
  BY <1>8, <1>9, <1>11, <1>12, <1>13 DEF ExitInd, RunningInv, LinkedEndInv

LEMMA ExitActionStep ==
    ASSUME ExitInd, NEW p \in Part, ExitAction(p)
    PROVE  ExitInd'
<1>1. ExitType /\ RunningInv /\ ExitTimeInv /\ state[p] = "run" /\ Serial
  BY Running DEF ExitAction, ExitInd, RunningInv, ExitTimeInv
<1>2. /\ layout \in Layouts /\ stopAt \in Nat
      /\ now \in [Part -> Nat] /\ last \in [Part -> Nat] /\ endCycle \in [Part -> Nat]
      /\ endTime \in [Ranks -> Nat] /\ state \in [Part -> {"run", "stop", "ended", "over"}]
  BY <1>1 DEF ExitType
<1>3. UNCHANGED <<layout, stopAt, now, endTime, last>>
  BY DEF ExitAction
<1>4. /\ Part' = Part /\ Ranks' = Ranks /\ (Serial' <=> Serial)
      /\ (SingleRank' <=> SingleRank) /\ (Independent' <=> Independent)
      /\ (IndependentThreads' <=> IndependentThreads)
  BY <1>3, SameLayout
<1>5. ~IndependentThreads /\ SingleRank /\ p[1] \in Ranks /\ \A q \in Part : q = p
  BY <1>1, <1>2, PartFacts DEF IndependentThreads, Serial
<1>6. RankEndInv /\ EndedInv
  BY <1>1, <1>5 DEF RunningInv, LinkedEndInv, SyncEndInv
<1>7. RankEndInv'
  BY <1>3, <1>4, <1>6 DEF RankEndInv
<1>8. CASE refs[p] = 0
  <2>1. /\ state' = [state EXCEPT ![p] = "ended"]
        /\ endCycle' = [endCycle EXCEPT ![p] = endTime[p[1]]]
    BY <1>8 DEF ExitAction
  <2>2. /\ state'[p] = "ended" /\ endCycle'[p] = endTime[p[1]] /\ endTime[p[1]] \in Nat
        /\ state' \in [Part -> {"run", "stop", "ended", "over"}]
        /\ endCycle' \in [Part -> Nat]
    BY <1>2, <1>5, <2>1
  <2>3. ExitType'
    BY <1>2, <1>3, <1>4, <2>2 DEF ExitType
  <2>4. ExitTimeInv'
    BY <1>1, <1>3, <1>4, <1>5, <2>2 DEF ExitTimeInv
  <2>5. EndedInv'
    BY <1>3, <1>4, <1>5, <2>2 DEF EndedInv
  <2> QED
    BY <1>4, <1>5, <1>7, <2>3, <2>4, <2>5 DEF ExitInd, RunningInv, LinkedEndInv
<1>9. CASE refs[p] # 0
  <2>1. UNCHANGED <<state, endCycle>>
    BY <1>9 DEF ExitAction
  <2>2. ExitType'
    BY <1>2, <1>3, <1>4, <2>1 DEF ExitType
  <2>3. ExitTimeInv'
    BY <1>1, <1>3, <1>4, <2>1 DEF ExitTimeInv
  <2>4. EndedInv'
    BY <1>3, <1>4, <1>6, <2>1 DEF EndedInv
  <2> QED
    BY <1>4, <1>5, <1>7, <2>2, <2>3, <2>4 DEF ExitInd, RunningInv, LinkedEndInv
<1> QED
  BY <1>8, <1>9

LEMMA StopStep ==
    ASSUME ExitInd, NEW p \in Part, Stop(p)
    PROVE  ExitInd'
<1>1. ExitType /\ RunningInv /\ ExitTimeInv /\ state[p] \in {"stop", "run"}
  BY Running DEF Stop, ExitInd, RunningInv
<1>2. /\ layout \in Layouts /\ stopAt \in Nat
      /\ now \in [Part -> Nat] /\ last \in [Part -> Nat] /\ endCycle \in [Part -> Nat]
      /\ endTime \in [Ranks -> Nat] /\ state \in [Part -> {"run", "stop", "ended", "over"}]
  BY <1>1 DEF ExitType
<1>3. PICK r \in Ranks, n \in Nat : r = p[1] /\ n = now[p]
  BY <1>2, PartFacts
<1>4. /\ state' = [state EXCEPT ![p] = "ended"]
      /\ endTime' = [endTime EXCEPT ![r] = n] /\ endCycle' = [endCycle EXCEPT ![p] = n]
      /\ last' = [last EXCEPT ![p] = IF state[p] = "run" THEN n ELSE @]
      /\ UNCHANGED <<layout, stopAt, now, exitAt>>
      /\ state[p] = "run" => n = stopAt
  BY <1>3 DEF Stop
<1>5. /\ Part' = Part /\ Ranks' = Ranks /\ (Serial' <=> Serial)
      /\ (SingleRank' <=> SingleRank) /\ (Independent' <=> Independent)
      /\ (IndependentThreads' <=> IndependentThreads)
  BY <1>4, SameLayout
<1>6. \A q \in Part : last[q] <= now[q] /\ now[q] <= stopAt /\ last[q] \in Nat /\ now[q] \in Nat
  BY <1>1, <1>2 DEF ExitTimeInv
<1>7. state[p] = "stop" => last[p] = n /\ Independent
  BY <1>1, <1>3 DEF ExitTimeInv
<1>8. /\ state' \in [Part -> {"run", "stop", "ended", "over"}] /\ state'[p] = "ended"
      /\ endTime' \in [Ranks -> Nat] /\ endTime'[r] = n
      /\ endCycle' \in [Part -> Nat] /\ endCycle'[p] = n
      /\ \A q \in Ranks : q # r => endTime'[q] = endTime[q]
      /\ \A q \in Part : q # p => state'[q] = state[q] /\ endCycle'[q] = endCycle[q]
  BY <1>2, <1>4
<1>9. /\ last' \in [Part -> Nat] /\ last'[p] = n
      /\ \A q \in Part : q # p => last'[q] = last[q]
  BY <1>1, <1>2, <1>4, <1>7
<1>10. ExitType'
  BY <1>2, <1>4, <1>5, <1>8, <1>9 DEF ExitType
<1>11. ExitTimeInv'
  <2>1. ASSUME NEW q \in Part
        PROVE  /\ last'[q] <= now[q] /\ now[q] <= stopAt
               /\ state'[q] = "stop" => last'[q] = now[q] /\ Independent
               /\ state'[q] # "over"
    <3>1. CASE q = p
      BY <1>3, <1>6, <1>8, <1>9, <3>1
    <3>2. CASE q # p
      BY <1>1, <1>8, <1>9, <3>2 DEF ExitTimeInv
    <3> QED
      BY <3>1, <3>2
  <2>2. exitAt' # {} => Serial
    BY <1>1, <1>4 DEF ExitTimeInv
  <2> QED
    BY <1>4, <1>5, <2>1, <2>2 DEF ExitTimeInv
<1>12. IndependentThreads => OwnEndInv'
  BY <1>1, <1>5, <1>8, <1>9 DEF RunningInv, OwnEndInv
<1>13. ASSUME ~IndependentThreads PROVE RankEndInv' /\ EndedInv'
  <2>1. RankEndInv /\ EndedInv
    BY <1>1, <1>13 DEF RunningInv, LinkedEndInv, SyncEndInv
  <2>2. ASSUME NEW q \in Part, q[1] = r, q # p
        PROVE  n = stopAt /\ state[p] = "run"
    <3>1. layout.threads > 1
      BY <1>2, <1>3, <2>2, PartFacts
    <3>2. ~Independent
      BY <1>13, <3>1 DEF IndependentThreads, Independent
    <3> QED
      BY <1>1, <1>4, <1>7, <3>2
  <2>3. ASSUME NEW q \in Part, q[1] = r PROVE last'[q] <= n
    <3>1. CASE q = p
      BY <1>9, <3>1
    <3>2. CASE q # p
      <4>1. n = stopAt
        BY <2>2, <2>3, <3>2
      <4> QED
        BY <1>2, <1>6, <1>9, <3>2, <4>1
    <3> QED
      BY <3>1, <3>2
  <2>4. RankEndInv'
    <3>1. ASSUME NEW x \in Ranks, x # r
          PROVE  /\ \E q \in Part : q[1] = x /\ last'[q] = endTime'[x]
                 /\ \A q \in Part : q[1] = x => last'[q] <= endTime'[x]
      BY <1>3, <1>8, <1>9, <2>1, <3>1 DEF RankEndInv
    <3>2. \E q \in Part : q[1] = r /\ last'[q] = endTime'[r]
      BY <1>3, <1>8, <1>9
    <3> QED
      BY <1>5, <1>8, <2>3, <3>1, <3>2 DEF RankEndInv
  <2>5. EndedInv'
    <3>1. ASSUME NEW q \in Part, state'[q] = "ended"
          PROVE  /\ endCycle'[q] = endTime'[q[1]]
                 /\ \/ endTime'[q[1]] = stopAt
                    \/ /\ \A x \in Part : x[1] = q[1] => state'[x] = "ended"
                       /\ layout.links = "ranks" => SingleRank
      <4>1. CASE q = p
        <5>1. endCycle'[p] = endTime'[p[1]] /\ endTime'[p[1]] = n
          BY <1>3, <1>8
        <5>2. CASE state[p] = "run"
          BY <1>4, <4>1, <5>1, <5>2
        <5>3. CASE state[p] = "stop"
          <6>1. \A x \in Part : x[1] = r => x = p
            BY <2>2, <5>3
          <6>2. layout.links # "ranks"
            BY <1>7, <5>3 DEF Independent
          <6> QED
            BY <1>3, <1>8, <4>1, <5>1, <6>1, <6>2
        <5> QED
          BY <1>1, <5>2, <5>3
      <4>2. CASE q # p
        <5>1. state[q] = "ended" /\ endCycle'[q] = endCycle[q] /\ q[1] \in Ranks
          BY <1>2, <1>8, <3>1, <4>2, PartFacts
        <5>2. /\ endCycle[q] = endTime[q[1]]
              /\ \/ endTime[q[1]] = stopAt
                 \/ /\ \A x \in Part : x[1] = q[1] => state[x] = "ended"
                    /\ layout.links = "ranks" => SingleRank
          BY <2>1, <5>1 DEF EndedInv
        <5>3. CASE q[1] # r
          <6>1. endTime'[q[1]] = endTime[q[1]]
            BY <1>8, <5>1, <5>3
          <6>2. \A x \in Part : x[1] = q[1] => state'[x] = state[x]
            BY <1>3, <1>8, <5>3
          <6> QED
            BY <5>1, <5>2, <6>1, <6>2
        <5>4. CASE q[1] = r
          <6>1. n = stopAt /\ state[p] = "run"
            BY <2>2, <4>2, <5>4
          <6>2. endTime[q[1]] = stopAt
            BY <1>3, <5>2, <5>4, <6>1
          <6> QED
            BY <1>8, <5>1, <5>2, <5>4, <6>1, <6>2
        <5> QED
          BY <5>3, <5>4
      <4> QED
        BY <4>1, <4>2
    <3> QED
      BY <1>4, <1>5, <3>1 DEF EndedInv
  <2> QED
    BY <2>4, <2>5
<1> QED
  BY <1>5, <1>10, <1>11, <1>12, <1>13 DEF ExitInd, RunningInv, LinkedEndInv

LEMMA ThreadSyncStep ==
    ASSUME ExitInd, NEW r \in Ranks, ThreadSyncEnds(r)
    PROVE  ExitInd'
<1>0. ExitType /\ \A p \in Part : p[1] = r => state[p] = "run"
  BY DEF ExitInd, ThreadSyncEnds, PartsOf
<1>1. ExitType /\ RunningInv /\ ExitTimeInv /\ layout.links = "threads"
  <2>1. \E p \in Part : state[p] # "over"
    BY <1>0, PartFacts DEF ExitType
  <2> QED
    BY <1>0, <2>1, Running DEF ThreadSyncEnds, RunningInv
<1>2. /\ layout \in Layouts /\ stopAt \in Nat
      /\ now \in [Part -> Nat] /\ last \in [Part -> Nat] /\ endCycle \in [Part -> Nat]
      /\ endTime \in [Ranks -> Nat] /\ state \in [Part -> {"run", "stop", "ended", "over"}]
  BY <1>1 DEF ExitType
<1>3. /\ state' = [p \in Part |-> IF p[1] = r THEN "ended" ELSE state[p]]
      /\ endCycle' = [p \in Part |-> IF p[1] = r THEN endTime[r] ELSE endCycle[p]]
      /\ UNCHANGED <<layout, stopAt, now, endTime, exitAt, last>>
  BY DEF ThreadSyncEnds
<1>4. /\ Part' = Part /\ Ranks' = Ranks /\ (Serial' <=> Serial)
      /\ (SingleRank' <=> SingleRank) /\ (Independent' <=> Independent)
      /\ (IndependentThreads' <=> IndependentThreads)
  BY <1>3, SameLayout
<1>5. ExitType'
  <2>1. state' \in [Part -> {"run", "stop", "ended", "over"}] /\ endCycle' \in [Part -> Nat]
    BY <1>2, <1>3
  <2> QED
    BY <1>2, <1>3, <1>4, <2>1 DEF ExitType
<1>6. ExitTimeInv'
  <2>1. \A q \in Part : state'[q] = "ended" \/ state'[q] = state[q]
    BY <1>3
  <2> QED
    BY <1>1, <1>3, <1>4, <2>1 DEF ExitTimeInv
<1>7. ~IndependentThreads /\ RankEndInv /\ EndedInv
  BY <1>1 DEF IndependentThreads, RunningInv, LinkedEndInv, SyncEndInv
<1>8. RankEndInv'
  BY <1>3, <1>4, <1>7 DEF RankEndInv
<1>9. EndedInv'
  <2>1. ASSUME NEW q \in Part, state'[q] = "ended"
        PROVE  /\ endCycle'[q] = endTime[q[1]]
               /\ \/ endTime[q[1]] = stopAt
                  \/ /\ \A x \in Part : x[1] = q[1] => state'[x] = "ended"
                     /\ layout.links = "ranks" => SingleRank
    <3>1. CASE q[1] = r
      BY <1>1, <1>3, <3>1
    <3>2. CASE q[1] # r
      BY <1>3, <1>7, <2>1, <3>2 DEF EndedInv
    <3> QED
      BY <3>1, <3>2
  <2> QED
    BY <1>3, <1>4, <2>1 DEF EndedInv
<1> QED
  BY <1>4, <1>5, <1>6, <1>7, <1>8, <1>9 DEF ExitInd, RunningInv, LinkedEndInv

(* The latest time of the ranks is the latest of all threads. *)
LEMMA LatestEnd ==
    ASSUME ExitType, ExitTimeInv, RankEndInv
    PROVE  /\ Latest \in Nat
           /\ \E p \in Part : last[p] = Latest
           /\ \A p \in Part : last[p] <= Latest
<1>1. /\ layout \in Layouts /\ stopAt \in Nat /\ last \in [Part -> Nat] /\ endTime \in [Ranks -> Nat]
      /\ now \in [Part -> Nat]
  BY DEF ExitType
<1> DEFINE S == {endTime[r] : r \in Ranks}
<1>2. S # {}
  <2>1. 0 \in Ranks
    BY <1>1, PartFacts
  <2>2. endTime[0] \in S
    BY <2>1
  <2> QED
    BY <2>2
<1>3. ASSUME NEW r \in Ranks PROVE endTime[r] \in Nat /\ endTime[r] <= stopAt
  <2>1. PICK p \in Part : last[p] = endTime[r]
    BY DEF RankEndInv
  <2>2. last[p] <= now[p] /\ now[p] <= stopAt /\ now[p] \in Nat /\ last[p] \in Nat
    BY <1>1 DEF ExitTimeInv
  <2> QED
    BY <1>1, <2>1, <2>2
<1>4. \A x \in S : x \in Nat /\ x <= stopAt
  BY <1>3
<1>5. PICK m \in S : \A x \in S : x <= m
  BY <1>1, <1>2, <1>4, LatestOf
<1>6. m \in Nat /\ m \in Int /\ \A x \in S : x \in Int
  BY <1>4
<1>7. Latest = m
  <2>1. Max(S) = m
    BY <1>5, <1>6, MaxIs
  <2> QED
    BY <2>1 DEF Latest
<1>8. PICK r \in Ranks : m = endTime[r]
  OBVIOUS
<1>9. \E p \in Part : last[p] = m
  BY <1>8 DEF RankEndInv
<1>10. ASSUME NEW p \in Part PROVE last[p] <= m
  <2>1. PICK x \in Ranks, e \in S : x = p[1] /\ e = endTime[x]
    BY <1>1, PartFacts
  <2>2. last[p] <= e /\ e <= m /\ e \in Nat /\ last[p] \in Nat
    BY <1>1, <1>4, <1>5, <2>1 DEF RankEndInv
  <2> QED
    BY <1>6, <2>2
<1> QED
  BY <1>6, <1>7, <1>9, <1>10

LEMMA RankSyncStep ==
    ASSUME ExitInd, RankSyncEnds
    PROVE  ExitInd'
<1>0. ExitType /\ layout.links = "ranks" /\ \A p \in Part : state[p] = "run"
  BY DEF ExitInd, RankSyncEnds
<1>1. ExitType /\ RunningInv /\ ExitTimeInv /\ RankEndInv /\ ~IndependentThreads
  <2>1. PICK p \in Part : state[p] = "run"
    BY <1>0, PartFacts DEF ExitType
  <2>2. RunningInv /\ ~IndependentThreads
    BY <1>0, <2>1, Running DEF IndependentThreads
  <2> QED
    BY <1>0, <2>1, <2>2 DEF RunningInv, LinkedEndInv, SyncEndInv
<1>2. /\ layout \in Layouts /\ stopAt \in Nat
      /\ now \in [Part -> Nat] /\ last \in [Part -> Nat] /\ endCycle \in [Part -> Nat]
      /\ endTime \in [Ranks -> Nat] /\ state \in [Part -> {"run", "stop", "ended", "over"}]
  BY <1>1 DEF ExitType
<1>3. PICK m \in Nat : /\ m = Latest /\ \E p \in Part : last[p] = m
                       /\ \A p \in Part : last[p] <= m
  BY <1>1, LatestEnd
<1>4. /\ state' = [p \in Part |-> "ended"] /\ endTime' = [r \in Ranks |-> m]
      /\ endCycle' = [p \in Part |-> m] /\ UNCHANGED <<layout, stopAt, now, exitAt, last>>
  BY <1>3 DEF RankSyncEnds
<1>5. /\ Part' = Part /\ Ranks' = Ranks /\ (Serial' <=> Serial)
      /\ (SingleRank' <=> SingleRank) /\ (Independent' <=> Independent)
      /\ (IndependentThreads' <=> IndependentThreads)
  BY <1>4, SameLayout
<1>6. ExitType'
  BY <1>2, <1>4, <1>5 DEF ExitType
<1>7. ExitTimeInv'
  BY <1>1, <1>4, <1>5 DEF ExitTimeInv
<1>8. SyncEndInv'
  <2>1. endTime'[0] = m
    BY <1>2, <1>4, PartFacts
  <2> QED
    BY <1>0, <1>3, <1>4, <1>5, <2>1 DEF SyncEndInv
<1> QED
  BY <1>1, <1>5, <1>6, <1>7, <1>8 DEF ExitInd, RunningInv, LinkedEndInv

(* Layouts whose simulated time is reported: the threads of several ranks are *)
(* not all independent.                                                       *)
TimeIsCollected ==
    \A l \in Layouts : ~(l.links = "none" /\ l.ranks > 1 /\ l.threads > 1)

LEMMA FinishStep ==
    ASSUME TimeIsCollected, ExitInd, Finish
    PROVE  ExitInd'
<1>0. ExitType /\ \A p \in Part : state[p] = "ended"
  BY DEF ExitInd, Finish
<1>1. ExitType /\ RunningInv /\ ExitTimeInv
  <2>1. PICK p \in Part : state[p] = "ended"
    BY <1>0, PartFacts DEF ExitType
  <2> QED
    BY <1>0, <2>1, Running DEF RunningInv
<1>2. /\ layout \in Layouts /\ stopAt \in Nat
      /\ now \in [Part -> Nat] /\ last \in [Part -> Nat] /\ endCycle \in [Part -> Nat]
      /\ endTime \in [Ranks -> Nat] /\ state \in [Part -> {"run", "stop", "ended", "over"}]
  BY <1>1 DEF ExitType
<1>3. /\ state' = [p \in Part |-> "over"] /\ endCycle' = [p \in Part |-> FinalTime(p)]
      /\ UNCHANGED <<layout, stopAt, now, endTime, exitAt, last>>
  BY DEF Finish
<1>4. /\ Part' = Part /\ Ranks' = Ranks /\ (Serial' <=> Serial)
      /\ (SingleRank' <=> SingleRank) /\ (Independent' <=> Independent)
      /\ (IndependentThreads' <=> IndependentThreads)
  BY <1>3, SameLayout
<1>5. <<0, 0>> \in Part /\ <<0, 0>>[1] = 0 /\ <<0, 0>>[2] = 0 /\ 0 \in Ranks
  BY <1>2, PartFacts
<1>6. PICK f \in [Part -> Nat] :
          /\ \A p \in Part : f[p] = FinalTime(p)
          /\ \A p \in Part : p[1] = 0 => \E q \in Part : f[p] = last[q]
          /\ \E p \in Part : p[1] = 0 /\ \A q \in Part : last[q] <= f[p]
  <2> DEFINE f == [p \in Part |-> FinalTime(p)]
  <2>0. /\ \A p \in Part : f[p] = FinalTime(p)
        /\ \A p \in Part : FinalTime(p) \in Nat => f[p] \in Nat
        /\ (\A p \in Part : FinalTime(p) \in Nat) => f \in [Part -> Nat]
    OBVIOUS
  <2>1. CASE IndependentThreads
    <3>1. SingleRank
      BY <1>2, <2>1, ExitAssumption DEF TimeIsCollected, IndependentThreads, SingleRank, Layout
    <3>2. \A p \in Part : FinalTime(p) = last[p] /\ p[1] = 0
      BY <1>0, <1>1, <1>2, <2>1, <3>1, PartFacts DEF FinalTime, RunningInv, OwnEndInv
    <3>3. PICK p \in Part : \A q \in Part : last[q] <= last[p]
      <4> DEFINE S == {last[q] : q \in Part}
      <4>1. S # {}
        BY <1>5
      <4>2. \A x \in S : x \in Nat /\ x <= stopAt
        BY <1>1, <1>2 DEF ExitTimeInv
      <4>3. PICK m \in S : \A x \in S : x <= m
        BY <1>2, <4>1, <4>2, LatestOf
      <4> QED
        BY <4>3
    <3>4. \A q \in Part : FinalTime(q) \in Nat
      BY <1>2, <3>2
    <3> QED
      BY <2>0, <3>2, <3>3, <3>4
  <2>2. CASE ~IndependentThreads /\ SyncEndInv
    <3>1. \A p \in Part : FinalTime(p) = endTime[0] /\ last[p] <= endTime[0]
      BY <2>2 DEF SyncEndInv, FinalTime, NoRankLinks
    <3>2. PICK q \in Part : last[q] = endTime[0]
      BY <2>2 DEF SyncEndInv
    <3>3. \A p \in Part : FinalTime(p) \in Nat
      BY <1>2, <1>5, <3>1
    <3>4. /\ f \in [Part -> Nat]
          /\ \A p \in Part : f[p] = last[q] /\ last[p] <= f[<<0, 0>>]
      BY <1>5, <2>0, <3>1, <3>2, <3>3
    <3> QED
      BY <1>5, <2>0, <3>4
  <2>3. CASE ~IndependentThreads /\ RankEndInv /\ EndedInv
    <3>1. \A p \in Part : endCycle[p] = endTime[p[1]]
      BY <1>0, <2>3 DEF EndedInv
    <3>2. PICK a \in Part : a[1] = 0 /\ last[a] = endTime[0]
      BY <1>5, <2>3 DEF RankEndInv
    <3>3. CASE NoRankLinks /\ ~SingleRank
      <4>1. PICK m \in Nat : /\ m = Latest /\ \E p \in Part : last[p] = m
                             /\ \A p \in Part : last[p] <= m
        BY <1>1, <2>3, LatestEnd
      <4>2. \A p \in Part : FinalTime(p) = IF p[2] = 0 THEN m ELSE endTime[p[1]]
        BY <3>1, <3>3, <4>1 DEF FinalTime
      <4>3. \A p \in Part : FinalTime(p) \in Nat
        BY <1>2, <4>2, PartFacts
      <4>4. FinalTime(<<0, 0>>) = m
        BY <1>5, <4>2
      <4>5. \A p \in Part : p[1] = 0 => \E q \in Part : FinalTime(p) = last[q]
        BY <3>2, <4>1, <4>2
      <4> QED
        BY <1>5, <2>0, <4>1, <4>3, <4>4, <4>5
    <3>4. CASE ~(NoRankLinks /\ ~SingleRank)
      <4>1. \A p \in Part : FinalTime(p) = endTime[p[1]]
        BY <3>1, <3>4 DEF FinalTime
      <4>2. \A p \in Part : FinalTime(p) \in Nat
        BY <1>2, <4>1, PartFacts
      <4>3. \A q \in Part : last[q] <= endTime[0]
        <5>1. CASE SingleRank
          BY <1>2, <1>5, <2>3, <5>1, PartFacts DEF RankEndInv
        <5>2. CASE ~SingleRank
          <6>1. layout.links = "ranks"
            BY <3>4, <5>2 DEF NoRankLinks
          <6>2. endTime[0] = stopAt
            BY <1>0, <1>5, <2>3, <5>2, <6>1 DEF EndedInv
          <6> QED
            BY <1>1, <1>2, <6>2 DEF ExitTimeInv
        <5> QED
          BY <5>1, <5>2
      <4>4. /\ f \in [Part -> Nat]
            /\ \A p \in Part : p[1] = 0 => f[p] = last[a]
            /\ \A p \in Part : last[p] <= f[<<0, 0>>]
        BY <1>5, <2>0, <3>2, <4>1, <4>2, <4>3
      <4> QED
        BY <1>5, <2>0, <4>4
    <3> QED
      BY <3>3, <3>4
  <2> QED
    BY <1>1, <2>1, <2>2, <2>3 DEF RunningInv, LinkedEndInv
<1>7. endCycle' = f
  BY <1>3, <1>6
<1>8. ExitType'
  BY <1>2, <1>3, <1>4, <1>7 DEF ExitType
<1>9. OverInv'
  BY <1>3, <1>4, <1>6, <1>7 DEF OverInv, Over
<1> QED
  BY <1>8, <1>9 DEF ExitInd

LEMMA ExitIndStep ==
    ASSUME TimeIsCollected, ExitInd, [ExitNext]_exitVars
    PROVE  ExitInd'
<1>1. CASE UNCHANGED exitVars
  <2>1. UNCHANGED <<layout, stopAt, now, endTime, endCycle, exitAt, state, last>>
    BY <1>1 DEF exitVars
  <2>2. /\ Part' = Part /\ Ranks' = Ranks /\ (Serial' <=> Serial)
      /\ (SingleRank' <=> SingleRank) /\ (Independent' <=> Independent)
      /\ (IndependentThreads' <=> IndependentThreads)
    BY <2>1, SameLayout
  <2>3. ExitType'
    BY <2>1, <2>2 DEF ExitInd, ExitType
  <2>4. OverInv => OverInv'
    BY <2>1, <2>2 DEF OverInv, Over
  <2>5. ExitTimeInv => ExitTimeInv'
    BY <2>1, <2>2 DEF ExitTimeInv
  <2>6. (OwnEndInv => OwnEndInv') /\ (LinkedEndInv => LinkedEndInv')
    BY <2>1, <2>2 DEF OwnEndInv, LinkedEndInv, SyncEndInv, RankEndInv, EndedInv
  <2> QED
    BY <2>2, <2>3, <2>4, <2>5, <2>6 DEF ExitInd, RunningInv
<1>2. ASSUME NEW p \in Part, Advance(p) \/ RefInc(p) \/ RefDec(p) \/ ExitAction(p) \/ Stop(p)
      PROVE  ExitInd'
  BY <1>2, AdvanceStep, RefDecStep, ExitActionStep, StopStep
<1>3. ASSUME NEW r \in Ranks, ThreadSyncEnds(r) PROVE ExitInd'
  BY <1>3, ThreadSyncStep
<1> QED
  BY <1>1, <1>2, <1>3, RankSyncStep, FinishStep DEF ExitNext, ExitDone

(* The simulated time that is reported is the last time at which any thread of *)
(* any rank had something left to do, whatever the order in which the threads  *)
(* agree to end, for any number of ranks and threads; only independent threads *)
(* on several ranks are left out (exit.cc, endSimulation and run).             *)
THEOREM LastTimeIsReported ==
    ASSUME TimeIsCollected
    PROVE  ExitSpec => []ReportsLastTime
<1>1. ExitInit => ExitInd
  BY ExitStart
<1>2. ExitInd /\ [ExitNext]_exitVars => ExitInd'
  BY ExitIndStep
<1>3. ASSUME ExitInd PROVE ReportsLastTime
  <2>1. SUFFICES ASSUME Over PROVE Reported = Max({last[p] : p \in Part})
    BY DEF ReportsLastTime
  <2>2. /\ layout \in Layouts /\ last \in [Part -> Nat] /\ endCycle \in [Part -> Nat]
    BY <1>3 DEF ExitInd, ExitType
  <2>3. OverInv
    <3>1. \E p \in Part : state[p] = "over"
      BY <2>1, <2>2, PartFacts DEF Over
    <3> QED
      BY <1>3, <3>1 DEF ExitInd, RunningInv, ExitTimeInv
  <2>4. PICK p \in Part : p[1] = 0 /\ \A q \in Part : last[q] <= endCycle[p]
    BY <2>3 DEF OverInv
  <2>5. PICK a \in Part : endCycle[p] = last[a]
    BY <2>3, <2>4 DEF OverInv
  <2>6. PICK m \in Nat : m = endCycle[p]
    BY <2>2
  <2>7. Max({last[q] : q \in Part}) = m
    <3> DEFINE S == {last[q] : q \in Part}
    <3>1. m \in S /\ m \in Int /\ \A x \in S : x \in Int /\ x <= m
      BY <2>2, <2>4, <2>5, <2>6
    <3> QED
      BY <3>1, MaxIs
  <2>8. Reported = m
    <3> DEFINE S == {endCycle[q] : q \in PartsOf(0)}
    <3>1. m \in S
      BY <2>4, <2>6 DEF PartsOf
    <3>2. ASSUME NEW q \in PartsOf(0) PROVE endCycle[q] \in Int /\ endCycle[q] <= m
      <4>1. q \in Part /\ q[1] = 0
        BY DEF PartsOf
      <4>2. PICK x \in Part : endCycle[q] = last[x]
        BY <2>3, <4>1 DEF OverInv
      <4> QED
        BY <2>2, <2>4, <2>6, <4>2
    <3>3. m \in Int /\ \A x \in S : x \in Int /\ x <= m
      BY <3>2
    <3>4. Max(S) = m
      BY <3>1, <3>3, MaxIs
    <3> QED
      BY <3>4 DEF Reported
  <2> QED
    BY <2>7, <2>8
<1> QED
  BY <1>1, <1>2, <1>3, PTL DEF ExitSpec
=============================================================================
