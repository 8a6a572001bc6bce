---------------------------- MODULE MCParallelRun ----------------------------
(* Small instances of ParallelRun for TLC. *)
EXTENDS ParallelRun

(* Partitions are named rank, thread: a0 is thread 0 of rank a. *)
CONSTANTS a, b, a0, a1, b0, b1

TwoThreads == {a0, a1}
TwoRanks == {a0, b0}
FourParts == {a0, a1, b0, b1}

MCRankOf == [p \in Part |-> IF p \in {a0, a1} THEN a ELSE b]

Link(p, q, self, thread, rank) ==
    IF p = q THEN self ELSE IF MCRankOf[p] = MCRankOf[q] THEN thread ELSE rank

(* Latencies 2 across ranks or threads, 1 inside a partition. *)
EqualLatency == [p \in Part |-> [q \in Part |-> Link(p, q, 1, 2, 2)]]
(* Threads of a rank are closer than ranks, and the two directions differ. *)
MixedLatency == [p \in Part |-> [q \in Part |->
    IF p = b0 /\ q = a0 THEN 3 ELSE Link(p, q, 1, 1, 2)]]
(* Threads are much closer than ranks. *)
NearThreads == [p \in Part |-> [q \in Part |-> Link(p, q, 1, 1, 4)]]

SelfEvent(p, t) == [src |-> p, dst |-> p, time |-> t]
EarlyEvents == {SelfEvent(p, 0) : p \in Part}
OneEvent == {SelfEvent(a0, 0)}
=============================================================================
