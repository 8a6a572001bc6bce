-------------------------------- MODULE Tunnel --------------------------------
(***************************************************************************)
(* The tunnel between a simulation and the processes it works with: a      *)
(* region of shared memory that the parent makes and its children map,     *)
(* with circular buffers of messages under a spin lock.  The name of the   *)
(* region is to be removed when the last child has come.                   *)
(*                                                                         *)
(* One action is one access to the shared memory, except that what a       *)
(* thread does under the lock to one index is one step.                    *)
(***************************************************************************)
EXTENDS Integers, Sequences, FiniteSets

CONSTANTS
    Parent,         \* the threads of the simulation that use the tunnel
    Child,          \* the processes that attach, as many as are expected
    BuffSize,       \* the slots of the circular buffer
    MaxMessages     \* bound on the messages that are written

(* One slot is always kept free: a buffer of one slot takes no message. *)
ASSUME TunnelAssumption ==
    /\ BuffSize \in Nat \ {0, 1} /\ MaxMessages \in Nat
    /\ Parent \cap Child = {} /\ IsFiniteSet(Child)

VARIABLES
    linked,             \* whether the region has a name
    expectedChildren,   \* in the region
    step,               \* where each process is
    local,              \* its local variable: childnum, or the message it writes or has read
    lockVal,            \* the process that has the lock, or {}
    readIndex, writeIndex, slots,   \* the circular buffer
    sent, taken         \* history: the messages written, and those read or cleared

tunnelVars == <<linked, expectedChildren, step, local, lockVal, readIndex, writeIndex, slots,
                sent, taken>>
region == <<linked, expectedChildren>>
ring == <<readIndex, writeIndex, slots>>
history == <<sent, taken>>

Process == Parent \cup Child
Enter(p, l) == step' = [step EXCEPT ![p] = l]
Inc(i) == (i + 1) % BuffSize

(* SHMParent has made the region; the buffers are empty and unlocked. *)
TunnelInit ==
    /\ linked = TRUE
    /\ expectedChildren = Cardinality(Child)
    /\ step = [p \in Process |-> IF p \in Parent THEN "idle" ELSE "new"]
    /\ local = [p \in Process |-> 0]
    /\ lockVal = {}
    /\ readIndex = 0 /\ writeIndex = 0 /\ slots = [i \in 0 .. BuffSize - 1 |-> 0]
    /\ sent = <<>> /\ taken = <<>>

-----------------------------------------------------------------------------
(* SHMChild: the region is opened and mapped, *)
Open(p) ==
    /\ step[p] = "new"
    /\ Enter(p, IF linked THEN "attach" ELSE "failed")
    /\ UNCHANGED <<region, local, lockVal, ring, history>>

(* the children that are left are counted down, not atomically, *)
LoadChildren(p) ==
    /\ step[p] = "attach"
    /\ local' = [local EXCEPT ![p] = expectedChildren - 1]
    /\ Enter(p, "store")
    /\ UNCHANGED <<region, lockVal, ring, history>>

StoreChildren(p) ==
    /\ step[p] = "store"
    /\ expectedChildren' = local[p]
    /\ Enter(p, "unlink")
    /\ UNCHANGED <<linked, local, lockVal, ring, history>>

(* and who has made it 0 removes the name. *)
Unlink(p) ==
    /\ step[p] = "unlink"
    /\ linked' = (linked /\ local[p] # 0)
    /\ local' = [local EXCEPT ![p] = 0]
    /\ Enter(p, "idle")
    /\ UNCHANGED <<expectedChildren, lockVal, ring, history>>

-----------------------------------------------------------------------------
(* The next message: they are numbered. *)
Fresh ==
    LET used == {sent[i] : i \in DOMAIN sent} \cup {local[p] : p \in Process}
    IN  {m \in 1 .. MaxMessages : m \notin used /\ \A n \in 1 .. m - 1 : n \in used}

(* write, read, readNB and clearBuffer are called. *)
Call(p) ==
    /\ step[p] = "idle"
    /\ \/ \E op \in {"read", "readNB", "clear"} : Enter(p, op) /\ UNCHANGED local
       \/ \E m \in Fresh : local' = [local EXCEPT ![p] = m] /\ Enter(p, "write")
    /\ UNCHANGED <<region, lockVal, ring, history>>

(* lock, and try_lock of readNB, which gives up if another has the lock. *)
Lock(p) ==
    /\ step[p] \in {"write", "read", "clear"} /\ lockVal = {}
    /\ lockVal' = {p}
    /\ Enter(p, CASE step[p] = "write" -> "write+" [] step[p] = "read" -> "read+" [] OTHER -> "clear+")
    /\ UNCHANGED <<region, local, ring, history>>

(* Mutant of TryLock: the lock is taken from who has it. *)
TryLockAlways(p) ==
    /\ step[p] = "readNB"
    /\ lockVal' = {p}
    /\ Enter(p, "readNB+")
    /\ UNCHANGED <<region, local, ring, history>>

TryLock(p) ==
    /\ step[p] = "readNB"
    /\ lockVal' = IF lockVal = {} THEN {p} ELSE lockVal
    /\ Enter(p, IF lockVal = {} THEN "readNB+" ELSE "idle")
    /\ UNCHANGED <<region, local, ring, history>>

(* Under the lock: a full or empty buffer is left as it is; write and read then *)
(* try again, and readNB returns.                                               *)
WriteSlot(p) ==
    /\ step[p] = "write+"
    /\ IF Inc(writeIndex) # readIndex
       THEN slots' = [slots EXCEPT ![writeIndex] = local[p]] /\ Enter(p, "wrote") /\ UNCHANGED lockVal
       ELSE lockVal' = {} /\ Enter(p, "write") /\ UNCHANGED slots
    /\ UNCHANGED <<region, local, readIndex, writeIndex, history>>

WriteDone(p) ==
    /\ step[p] = "wrote"
    /\ writeIndex' = Inc(writeIndex) /\ sent' = Append(sent, local[p])
    /\ lockVal' = {} /\ local' = [local EXCEPT ![p] = 0]
    /\ Enter(p, "idle")
    /\ UNCHANGED <<region, readIndex, slots, taken>>

ReadSlot(p) ==
    /\ step[p] \in {"read+", "readNB+"}
    /\ IF readIndex # writeIndex
       THEN local' = [local EXCEPT ![p] = slots[readIndex]] /\ Enter(p, "gotten") /\ UNCHANGED lockVal
       ELSE lockVal' = {} /\ Enter(p, IF step[p] = "read+" THEN "read" ELSE "idle") /\ UNCHANGED local
    /\ UNCHANGED <<region, ring, history>>

ReadDone(p) ==
    /\ step[p] = "gotten"
    /\ readIndex' = Inc(readIndex) /\ taken' = Append(taken, local[p])
    /\ lockVal' = {} /\ local' = [local EXCEPT ![p] = 0]
    /\ Enter(p, "idle")
    /\ UNCHANGED <<region, writeIndex, slots, sent>>

(* What is in the buffer, in order. *)
Length == (writeIndex - readIndex + BuffSize) % BuffSize
InBuffer == [k \in 1 .. Length |-> slots[(readIndex + k - 1) % BuffSize]]

Clear(p) ==
    /\ step[p] = "clear+"
    /\ readIndex' = writeIndex /\ taken' = taken \o InBuffer
    /\ lockVal' = {}
    /\ Enter(p, "idle")
    /\ UNCHANGED <<region, local, writeIndex, slots, sent>>

TunnelNext ==
    \E p \in Process :
        \/ Open(p) \/ LoadChildren(p) \/ StoreChildren(p) \/ Unlink(p)
        \/ Call(p) \/ Lock(p) \/ TryLock(p)
        \/ WriteSlot(p) \/ WriteDone(p) \/ ReadSlot(p) \/ ReadDone(p) \/ Clear(p)

TunnelSpec == TunnelInit /\ [][TunnelNext]_tunnelVars

-----------------------------------------------------------------------------
(* Messages come out of a buffer in the order in which they went in, each *)
(* once, whoever writes, reads or clears it and also when readNB finds it *)
(* locked; *)
MessagesInOrder == taken \o InBuffer = sent

(* no child finds the region gone before it is attached (initialize, SHMChild); *)
NoneShutOut == \A p \in Child : step[p] # "failed"

(* and once all children are attached, the region has no name any more. *)
NameRemoved ==
    (\A p \in Child : step[p] \notin {"new", "attach", "store", "unlink"}) => ~linked

(* What the tunnel keeps, all three. *)
TunnelKept == MessagesInOrder /\ NoneShutOut /\ NameRemoved
=============================================================================
