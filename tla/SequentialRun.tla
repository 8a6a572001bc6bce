---------------------------- MODULE SequentialRun ----------------------------
(***************************************************************************)
(* What the run phase promises a component, whatever the partitioning: one *)
(* set of pending events, from which every partition executes the earliest *)
(* event addressed to it, and no event is ever addressed to a time that    *)
(* its destination has already executed.                                   *)
(***************************************************************************)
EXTENDS Integers

CONSTANTS Part, Event

VARIABLES now, last, pending

vars == <<now, last, pending>>

Init ==
    /\ now = [p \in Part |-> 0]
    /\ last = [p \in Part |-> -1]
    /\ pending \in SUBSET Event

IsEarliest(p, t) == \A f \in pending : f.dst = p => t <= f.time

(***************************************************************************)
(* p executes its earliest event.  What is pending afterwards and was not  *)
(* before is what the handler sent: from p, not before its own time, and   *)
(* later than everything the receiver has executed.                        *)
(***************************************************************************)
Execute(p, e) ==
    /\ e \in pending /\ e.dst = p
    /\ IsEarliest(p, e.time)
    /\ now[p] <= e.time
    /\ now' = [now EXCEPT ![p] = e.time]
    /\ last' = [last EXCEPT ![p] = e.time]
    /\ pending \ {e} \subseteq pending'
    /\ pending' \subseteq Event
    /\ \A f \in pending' \ (pending \ {e}) :
            /\ f.src = p
            /\ f.time >= e.time
            /\ f.dst # p => last[f.dst] < f.time /\ now[f.dst] <= f.time

(* p's clock moves to a time before which it has nothing to execute. *)
Advance(p) ==
    /\ now' = [now EXCEPT ![p] = now'[p]]
    /\ now[p] <= now'[p]
    /\ IsEarliest(p, now'[p])
    /\ UNCHANGED <<last, pending>>

Next == \E p \in Part : Advance(p) \/ \E e \in pending : Execute(p, e)

Spec == Init /\ [][Next]_vars
=============================================================================
