------------------------------- MODULE MCClock -------------------------------
(***************************************************************************)
(* Clock for TLC.  Two clocks of CLOCKPRIORITY whose ticks coincide now    *)
(* and then, and one with the later priority of the statistics' clocks.    *)
(***************************************************************************)
EXTENDS Clock, TLC

CONSTANTS h1, h2, h3

Symmetry == Permutations(Handlers)

MCPeriod == [c \in Clocks |-> IF c = "slow" THEN 2 ELSE 1]
MCPriority == [c \in Clocks |-> IF c = "late" THEN 85 ELSE 40]
=============================================================================
