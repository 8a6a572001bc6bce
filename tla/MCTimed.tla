------------------------------ MODULE MCTimed ------------------------------
(***************************************************************************)
(* What happens in the order of time on one thread, for TLC: the clocks    *)
(* and their handlers, the statistics that are output, started and stopped *)
(* at given times, and the TimeVortex itself.  A behaviour exercises one   *)
(* of the three; the others stay as they are at first.                     *)
(***************************************************************************)
EXTENDS MCClock, MCStatistics, MCTimeVortex

VARIABLE part       \* what this behaviour is about

TimedSymmetry == Symmetry \cup StatSymmetry

StatIdle == StatInit /\ config = [s \in Stats |-> Param("unique", "event", 2, 0, 3, FALSE, FALSE)]
VortexIdle == VortexInit /\ kind = Form(FALSE, FALSE)

MCInit ==
    /\ Init
    /\ part \in {"clocks", "statistics", "vortex"}
    /\ IF part = "statistics" THEN StatInit ELSE StatIdle
    /\ IF part = "vortex" THEN VortexInit ELSE VortexIdle

MCNext ==
    /\ UNCHANGED part
    /\ IF part = "clocks" THEN Next ELSE UNCHANGED vars
    /\ IF part = "statistics" THEN StatNext ELSE UNCHANGED statVars
    /\ IF part = "vortex" THEN VortexNext ELSE UNCHANGED vortexVars

MCSpec == MCInit /\ [][MCNext]_<<part, vars, statVars, vortexVars>>
=============================================================================
