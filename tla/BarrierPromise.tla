--------------------------- MODULE BarrierPromise ---------------------------
(***************************************************************************)
(* What a barrier promises the threads that share it: a thread that has    *)
(* entered wait() leaves it only when every thread has entered as often.   *)
(***************************************************************************)
EXTENDS Integers

CONSTANT Thread

VARIABLES entered, left     \* how often a thread has called wait(), and returned

vars == <<entered, left>>

Init ==
    /\ entered = [t \in Thread |-> 0]
    /\ left = [t \in Thread |-> 0]

Enter(t) ==
    /\ left[t] = entered[t]
    /\ entered' = [entered EXCEPT ![t] = @ + 1]
    /\ UNCHANGED left

Leave(t) ==
    /\ left[t] + 1 = entered[t]
    /\ \A u \in Thread : entered[t] <= entered[u]
    /\ left' = [left EXCEPT ![t] = @ + 1]
    /\ UNCHANGED entered

Next == \E t \in Thread : Enter(t) \/ Leave(t)

Spec == Init /\ [][Next]_vars
=============================================================================
