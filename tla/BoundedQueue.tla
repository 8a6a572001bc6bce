----------------------------- MODULE BoundedQueue -----------------------------
(***************************************************************************)
(* Core::ThreadSafe::BoundedQueue, the lock-free ring that hands work from *)
(* thread to thread in RankSyncParallelSkip.  A cell carries a sequence    *)
(* number that says whose turn it is: position k for the thread that       *)
(* inserts the k-th element, k + 1 for the one that removes it.  One       *)
(* action is one atomic access to shared memory.                           *)
(***************************************************************************)
EXTENDS Integers, FiniteSets

CONSTANTS
    QueueThread,    \* the threads that use the queue
    Value,          \* what is stored
    NoValue,        \* the contents of a cell before its first use
    QueueSizes,     \* the numbers of cells a queue is initialized with
    MaxInserts      \* bound: elements inserted in one run

(* What the constants have to satisfy; a queue of no cells would divide by zero. *)
ASSUME QueueAssumption ==
    /\ IsFiniteSet(QueueThread)
    /\ QueueSizes \subseteq Nat \ {0} /\ MaxInserts \in Nat /\ NoValue \notin Value

VARIABLES
    dsize,          \* the number of cells
    sequence,       \* the sequence number of each cell
    data,           \* the data of each cell
    rPtr, wPtr,     \* the next positions to remove from and to insert at
    qpc,            \* where each thread is
    pos,            \* its local pos
    val,            \* what it inserts, or has removed
    inserted,       \* history: the value put in at each position
    removed         \* history: the value taken out at each position

queueVars == <<dsize, sequence, data, rPtr, wPtr, qpc, pos, val, inserted, removed>>

Cell == 0 .. dsize - 1
Slot(k) == k % dsize     \* the cell of a position
Position == 0 .. MaxInserts

InsertLabel == {"insertLoad", "insertTest", "insertCas", "insertWrite", "insertStore"}
RemoveLabel == {"removeLoad", "removeTest", "removeCas", "removeRead", "removeStore"}

(* initialize(); the contents of fresh cells are never read. *)
QueueInit ==
    /\ dsize \in QueueSizes
    /\ sequence = [i \in Cell |-> i]
    /\ data = [i \in Cell |-> NoValue]
    /\ rPtr = 0 /\ wPtr = 0
    /\ qpc = [t \in QueueThread |-> "idle"]
    /\ pos = [t \in QueueThread |-> 0]
    /\ val = [t \in QueueThread |-> NoValue]
    /\ inserted = [k \in Position |-> NoValue]
    /\ removed = [k \in Position |-> NoValue]

Move(t, l) == qpc' = [qpc EXCEPT ![t] = l]

(* The call ends, and its local variables with it. *)
Leave(t) ==
    /\ Move(t, "idle")
    /\ pos' = [pos EXCEPT ![t] = 0]
    /\ val' = [val EXCEPT ![t] = NoValue]

(* The positions whose element has been taken out and its cell given back. *)
Released ==
    {k \in 0 .. rPtr - 1 : \A t \in QueueThread :
        ~(qpc[t] \in {"removeRead", "removeStore"} /\ pos[t] = k)}

(* The calls of try_insert that have not yet claimed a cell. *)
Offering == {t \in QueueThread : qpc[t] \in {"insertLoad", "insertTest", "insertCas"}}

-----------------------------------------------------------------------------
(***************************************************************************)
(* try_insert(v) and try_remove() are called.  With one cell the sequence  *)
(* number that says "full" is also the one that says "free for the next":  *)
(* such a queue needs callers that never offer it a second element before  *)
(* the first is taken, which is how RankSyncParallelSkip uses it.          *)
(***************************************************************************)
TryInsert(t, v) ==
    /\ qpc[t] = "idle"
    /\ wPtr + Cardinality(Offering) < MaxInserts
    /\ dsize = 1 => wPtr + Cardinality(Offering) - Cardinality(Released) < dsize
    /\ Move(t, "insertLoad")
    /\ val' = [val EXCEPT ![t] = v]
    /\ UNCHANGED <<sequence, data, rPtr, wPtr, pos, inserted, removed>>

TryRemove(t) ==
    /\ qpc[t] = "idle"
    /\ Move(t, "removeLoad")
    /\ UNCHANGED <<sequence, data, rPtr, wPtr, pos, val, inserted, removed>>

(* pos = wPtr.load() or rPtr.load(). *)
Load(t) ==
    /\ \/ /\ qpc[t] = "insertLoad"
          /\ Move(t, "insertTest")
          /\ pos' = [pos EXCEPT ![t] = wPtr]
       \/ /\ qpc[t] = "removeLoad"
          /\ Move(t, "removeTest")
          /\ pos' = [pos EXCEPT ![t] = rPtr]
    /\ UNCHANGED <<sequence, data, rPtr, wPtr, val, inserted, removed>>

(* The sequence number says: go on, give up, or start over. *)
Test(t) ==
    /\ qpc[t] \in {"insertTest", "removeTest"}
    /\ LET ins == qpc[t] = "insertTest"
           diff == sequence[Slot(pos[t])] - (IF ins THEN pos[t] ELSE pos[t] + 1)
       IN  \/ /\ diff = 0
              /\ Move(t, IF ins THEN "insertCas" ELSE "removeCas")
              /\ UNCHANGED <<pos, val>>
           \/ diff < 0 /\ Leave(t)
           \/ /\ diff > 0
              /\ Move(t, IF ins THEN "insertLoad" ELSE "removeLoad")
              /\ UNCHANGED <<pos, val>>
    /\ UNCHANGED <<sequence, data, rPtr, wPtr, inserted, removed>>

(* wPtr.compare_exchange_weak(pos, pos + 1), which may fail for no reason. *)
InsertCas(t) ==
    /\ qpc[t] = "insertCas"
    /\ \/ /\ wPtr = pos[t]
          /\ wPtr' = wPtr + 1
          /\ Move(t, "insertWrite")
          /\ inserted' = [inserted EXCEPT ![wPtr] = val[t]]
          /\ UNCHANGED pos
       \/ /\ pos' = [pos EXCEPT ![t] = wPtr]
          /\ Move(t, "insertTest")
          /\ UNCHANGED <<wPtr, inserted>>
    /\ UNCHANGED <<sequence, data, rPtr, val, removed>>

InsertWrite(t) ==
    /\ qpc[t] = "insertWrite"
    /\ data' = [data EXCEPT ![Slot(pos[t])] = val[t]]
    /\ Move(t, "insertStore")
    /\ UNCHANGED <<sequence, rPtr, wPtr, pos, val, inserted, removed>>

InsertStore(t) ==
    /\ qpc[t] = "insertStore"
    /\ sequence' = [sequence EXCEPT ![Slot(pos[t])] = pos[t] + 1]
    /\ Leave(t)
    /\ UNCHANGED <<data, rPtr, wPtr, inserted, removed>>

RemoveCas(t) ==
    /\ qpc[t] = "removeCas"
    /\ \/ /\ rPtr = pos[t]
          /\ rPtr' = rPtr + 1
          /\ Move(t, "removeRead")
          /\ UNCHANGED pos
       \/ /\ pos' = [pos EXCEPT ![t] = rPtr]
          /\ Move(t, "removeTest")
          /\ UNCHANGED rPtr
    /\ UNCHANGED <<sequence, data, wPtr, val, inserted, removed>>

RemoveRead(t) ==
    /\ qpc[t] = "removeRead"
    /\ val' = [val EXCEPT ![t] = data[Slot(pos[t])]]
    /\ removed' = [removed EXCEPT ![pos[t]] = data[Slot(pos[t])]]
    /\ Move(t, "removeStore")
    /\ UNCHANGED <<sequence, data, rPtr, wPtr, pos, inserted>>

(* Mutant of RemoveStore: one turn too far. *)
RemoveStoreLate(t) ==
    /\ qpc[t] = "removeStore"
    /\ sequence' = [sequence EXCEPT ![Slot(pos[t])] = pos[t] + dsize + 1]
    /\ Leave(t)
    /\ UNCHANGED <<data, rPtr, wPtr, inserted, removed>>

RemoveStore(t) ==
    /\ qpc[t] = "removeStore"
    /\ sequence' = [sequence EXCEPT ![Slot(pos[t])] = pos[t] + dsize]
    /\ Leave(t)
    /\ UNCHANGED <<data, rPtr, wPtr, inserted, removed>>

Step(t) ==
    \/ \E v \in Value : TryInsert(t, v)
    \/ TryRemove(t) \/ Load(t) \/ Test(t)
    \/ InsertCas(t) \/ InsertWrite(t) \/ InsertStore(t)
    \/ RemoveCas(t) \/ RemoveRead(t) \/ RemoveStore(t)

QueueNext == \E t \in QueueThread : Step(t) /\ UNCHANGED dsize

QueueSpec == QueueInit /\ [][QueueNext]_queueVars

-----------------------------------------------------------------------------
QueueTypeOK ==
    /\ dsize \in QueueSizes
    /\ sequence \in [Cell -> Nat]
    /\ data \in [Cell -> Value \cup {NoValue}]
    /\ rPtr \in Nat /\ wPtr \in Position
    /\ qpc \in [QueueThread -> {"idle"} \cup InsertLabel \cup RemoveLabel]
    /\ pos \in [QueueThread -> Nat]
    /\ val \in [QueueThread -> Value \cup {NoValue}]
    /\ inserted \in [Position -> Value \cup {NoValue}]
    /\ removed \in [Position -> Value \cup {NoValue}]

(***************************************************************************)
(* The elements come out in the order they went in, each of them once and  *)
(* as it was: what the k-th successful try_remove returns is what the k-th *)
(* successful try_insert was given.                                        *)
(***************************************************************************)
FirstInFirstOut ==
    /\ rPtr <= wPtr
    /\ \A k \in Position : removed[k] # NoValue => removed[k] = inserted[k]

(***************************************************************************)
(* A cell belongs to at most one thread between the exchange that claims   *)
(* it and the store that releases it, although nothing is locked.          *)
(***************************************************************************)
Holds(t) == qpc[t] \in {"insertWrite", "insertStore", "removeRead", "removeStore"}

CellsAreExclusive ==
    \A s, t \in QueueThread : s # t /\ Holds(s) /\ Holds(t) => Slot(pos[s]) # Slot(pos[t])

(***************************************************************************)
(* Never more than dsize elements are claimed and not yet given back: a     *)
(* full queue refuses an element rather than overwriting one.              *)
(***************************************************************************)
NeverOverfull == wPtr - Cardinality(Released) <= dsize

(***************************************************************************)
(* What try_insert and try_remove keep without a lock: elements in order,  *)
(* one thread to a cell, and no element on top of another.                 *)
(***************************************************************************)
QueueKept == QueueTypeOK /\ FirstInFirstOut /\ CellsAreExclusive /\ NeverOverfull
=============================================================================
