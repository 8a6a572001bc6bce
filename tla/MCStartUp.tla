----------------------------- MODULE MCStartUp -----------------------------
(***************************************************************************)
(* The two ways in which a job comes to its links and lookahead, for TLC:  *)
(* from a model description (WireUp) and from a checkpoint (Restart); and  *)
(* the way of any object into a checkpoint and back (Serializer).  A       *)
(* behaviour is one of the three and leaves the variables of the others    *)
(* at 0.                                                                   *)
(***************************************************************************)
EXTENDS MCRestart

CONSTANTS
    Worlds, WComps, Scripts, Placements, Partitioners, Faults, Direct,
    Null, Root, n1, n2, vec, Heaps, AsPtrElem

VARIABLES
    start,          \* what the job starts from
    wjob, wfatal, wpc, graph, minPart, mine, parcel, partner, wmail,
    tpc, wtodo, wends, waiting, wlinkMap, wlinkMaps, lookahead,
    heap, smode, stodo, seen, tags, size, buffer, at, realPtr, splitKey, owners, copies,
    warned, sfatal

W == INSTANCE MCWireUp WITH
        NumComps <- WComps, job <- wjob, fatal <- wfatal, pc <- wpc, mail <- wmail,
        todo <- wtodo, ends <- wends, linkMap <- wlinkMap, linkMaps <- wlinkMaps

S == INSTANCE MCSerializer WITH mode <- smode, todo <- stodo, fatal <- sfatal

ASSUME W!WireUpAssumption

(* The values of the constants, from copies that do not depend on them. *)
WValues == INSTANCE MCWireUp WITH
              NumComps <- WComps, Worlds <- {}, Scripts <- {}, Placements <- {},
              Partitioners <- {}, Faults <- {}, job <- 0, fatal <- 0, pc <- 0, mail <- 0,
              todo <- 0, ends <- 0, linkMap <- 0, linkMaps <- 0
SValues == INSTANCE MCSerializer WITH mode <- 0, todo <- 0, fatal <- 0, Heaps <- {}

MCWireUpWorlds == WValues!MCWorlds
MCScripts == WValues!MCScripts
MCPlacements == WValues!MCPlacements
MCPartitioners == WValues!MCPartitioners
MCFaults == WValues!MCFaults
MCHeaps == SValues!MCHeaps

wvars == <<wjob, wfatal, wpc, graph, minPart, mine, parcel, partner, wmail,
           tpc, wtodo, wends, waiting, wlinkMap, wlinkMaps, lookahead>>

svars == <<heap, smode, stodo, seen, tags, size, buffer, at, realPtr, splitKey, owners,
           copies, warned, sfatal>>

WireUpIdle ==
    /\ wjob = 0 /\ wfatal = 0 /\ wpc = 0 /\ graph = 0 /\ minPart = 0 /\ mine = 0
    /\ parcel = 0 /\ partner = 0 /\ wmail = 0 /\ tpc = 0 /\ wtodo = 0 /\ wends = 0
    /\ waiting = 0 /\ wlinkMap = 0 /\ wlinkMaps = 0 /\ lookahead = 0

SerializerIdle ==
    /\ heap = 0 /\ smode = 0 /\ stodo = 0 /\ seen = 0 /\ tags = 0 /\ size = 0 /\ buffer = 0
    /\ at = 0 /\ realPtr = 0 /\ splitKey = 0 /\ owners = 0 /\ copies = 0 /\ warned = 0 /\ sfatal = 0

RestartIdle ==
    /\ job = 0 /\ cpt = 0 /\ checkpointId = 0 /\ dirs = 0 /\ disk = 0 /\ from = 0
    /\ mode = 0 /\ fatal = 0 /\ pc = 0 /\ comps = 0 /\ todo = 0 /\ ends = 0
    /\ tracker = 0 /\ sync = 0 /\ linkMap = 0 /\ linkMaps = 0 /\ local = 0
    /\ moving = 0 /\ round = 0 /\ queue = 0 /\ mail = 0 /\ threadMin = 0 /\ interval = 0

MCInit ==
    \/ start = "model" /\ W!Init /\ RestartIdle /\ SerializerIdle
    \/ start = "checkpoint" /\ Init /\ WireUpIdle /\ SerializerIdle
    \/ start = "object" /\ S!Init /\ RestartIdle /\ WireUpIdle

MCNext ==
    /\ UNCHANGED start
    /\ \/ start = "model" /\ W!Next /\ UNCHANGED <<vars, svars>>
       \/ start = "checkpoint" /\ Next /\ UNCHANGED <<wvars, svars>>
       \/ start = "object" /\ S!Next /\ UNCHANGED <<vars, wvars>>

MCSpec == MCInit /\ [][MCNext]_<<start, vars, wvars, svars>>

-----------------------------------------------------------------------------
(* Both ends of every link of the description meet: see W. *)
EndsMeet == start = "model" => W!EndsMeet

(* No link is faster than the lookahead of the syncs it crosses: see W. *)
LookaheadHolds == start = "model" => W!LookaheadHolds

(* Components joined by no-cut links share a partition: see W. *)
NoCutKept == start = "model" => W!NoCutKept

(* A description that the ranks do not agree on ends the job: see W. *)
MistakesAreFatal == start = "model" => W!MistakesAreFatal

(* Every component of the checkpoint is restored once, the ends of its links *)
(* meet again with their latencies, and the syncs have their lookahead: see  *)
(* Restart.                                                                  *)
RestoredWhole == start = "checkpoint" => RestoredOnce /\ EndsMeetAgain /\ DelaysKept

(* A restart is refused only for a reason: see Restart. *)
RefusalsJustified == start = "checkpoint" => RefusedForCause

(* An object graph is unpacked as it was packed: see S. *)
RoundTrip == start = "object" => S!RoundTrip
=============================================================================
