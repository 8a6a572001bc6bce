------------------------------- MODULE Restart -------------------------------
(***************************************************************************)
(* A checkpoint and the restart from it.  The threads of all ranks write   *)
(* their components into a file each, rank 0 the globals, and then, one    *)
(* after the other, each a section of the registry.  The job may die at    *)
(* any time.  The restart may have other numbers of ranks and threads: it  *)
(* finds the files through the registry, restores the components and the   *)
(* ends of their links, and looks for the other ends of the links whose    *)
(* two components are now in different partitions by passing the lists of  *)
(* such links around the ring of all partitions.                           *)
(***************************************************************************)
EXTENDS Integers, Sequences, FiniteSets, FiniteSetsExt, SequencesExt

CONSTANTS
    Jobs,           \* [cpt, new : <<ranks, threads>>, place, newPlace : places
                    \*  of the components, graph : is the ConfigGraph stored]
    Links,          \* id -> [comp, lat, recv : pairs of a component, its latency
                    \*  and what it added with addRecvLatency()]
    NumComps,
    Checkpoints,    \* bound on the checkpoints of the job
    Partial         \* may the restart be from a checkpoint that was not finished

VARIABLES
    job,
    cpt,            \* what each thread does in createCheckpoint()
    checkpointId,   \* CheckpointAction::checkpoint_id of each rank
    dirs,           \* directories created, by the id of their checkpoint
    disk,           \* files: name -> contents
    from,           \* checkpoint that the restart reads, 0 as long as the job runs
    mode, fatal,
    pc,             \* what each thread does in the restart
    comps,          \* compInfoMap of each partition
    todo,           \* ends of links that are still to be unpacked
    ends,           \* the restored ends
    tracker,        \* link_restart_tracking, by the end whose pair link is in it
    sync,           \* the partitions that have their SyncManager
    linkMap,        \* link_map of each ThreadSync
    linkMaps,       \* link_maps of each RankSync, by remote rank
    local, moving,  \* local_links and remote_links of discoverRemoteLinks()
    round,          \* iterations of discoverRemoteLinks() made
    queue,          \* local_discover_queue of each thread
    mail,           \* messages sent to each rank
    threadMin,      \* the minimum that the threads of a rank share
    interval        \* of the RankSync and of the ThreadSyncs of each rank

writing == <<cpt, checkpointId, dirs>>
loading == <<comps, todo>>
linking == <<ends, tracker, sync, linkMap, linkMaps>>
ring == <<local, moving, round, queue, mail>>
restoring == <<mode, fatal, pc, loading, linking, ring, threadMin, interval>>
vars == <<job, writing, disk, from, restoring>>

MaxTime == 99
Comp == 0..(NumComps - 1)
Places(world) == (0..(world[1] - 1)) \X (0..(world[2] - 1))
Old == Places(job.cpt)
OldRank == 0..(job.cpt[1] - 1)
New == Places(job.new)
NewRank == 0..(job.new[1] - 1)
Thread == 0..(job.new[2] - 1)
Least(S) == CHOOSE x \in S : \A y \in S : x <= y

(* An end of a link: the id of the link and which of the two it is. *)
Ends == {<<l, i>> : l \in DOMAIN Links, i \in {1, 2}}
Other(e) == <<e[1], 3 - e[2]>>
CompOf(e) == Links[e[1]].comp[e[2]]
Lat(e) == Links[e[1]].lat[e[2]]
Recv(e) == Links[e[1]].recv[e[2]]
Delay(e) == Lat(e) + Recv(Other(e))

-----------------------------------------------------------------------------
(***************************************************************************)
(* CheckpointAction::createCheckpoint().                                   *)
(***************************************************************************)
FileName(id, p) == <<"blob", id, p>>
Globals(id) == <<"globals", id>>
Registry(id) == <<"registry", id>>

Write(name, contents) == [n \in DOMAIN disk \cup {name} |-> IF n = name THEN contents ELSE disk[n]]
CptTo(p, label) == cpt' = [cpt EXCEPT ![p].pc = label]

(***************************************************************************)
(* An end is saved with the partition of the other one, and with its       *)
(* latency: a pair of links in one partition has the added receive latency *)
(* of an end in the link of the other, otherwise it is in the link that    *)
(* stands for the other.                                                   *)
(***************************************************************************)
SavedEnd(e) ==
    LET here == job.place[CompOf(e)]
        there == job.place[CompOf(Other(e))]
    IN  [end |-> e, sync |-> here # there, pair |-> there,
         lat |-> IF here # there THEN Lat(e) ELSE Delay(e),
         pairLat |-> IF here # there THEN Recv(e) ELSE 0]
SavedComp(c, id) ==
    [comp |-> c, state |-> id,
     ends |-> SetToSortSeq({SavedEnd(e) : e \in {f \in Ends : CompOf(f) = c}},
                          LAMBDA x, y : x.end[1] < y.end[1] \/ (x.end[1] = y.end[1] /\ x.end[2] < y.end[2]))]
(* The least delay between two partitions that are one of the pairs. *)
CrossLatency(pairs) ==
    Least({MaxTime} \cup {Delay(e) : e \in {f \in Ends :
        <<job.place[CompOf(f)], job.place[CompOf(Other(f))]>> \in pairs}})
OtherRank == {x \in Old \X Old : x[1][1] # x[2][1]}
OtherThread(r) == {x \in Old \X Old : x[1][1] = r /\ x[2][1] = r /\ x[1] # x[2]}

(* The directory: rank 0 creates it and tells the others.  Then the barrier. *)
CreateDirectory(p) ==
    /\ from = 0 /\ cpt[p].pc = "start" /\ checkpointId[p[1]] <= Checkpoints
    /\ (p[2] = 0 /\ p[1] # 0) => checkpointId[p[1]] \in dirs
    /\ dirs' = IF p = <<0, 0>> THEN dirs \cup {checkpointId[0]} ELSE dirs
    /\ cpt' = [cpt EXCEPT ![p] = [pc |-> "named", id |-> checkpointId[p[1]], r |-> 0, t |-> 0]]
    /\ UNCHANGED <<job, checkpointId, disk, from, restoring>>

AllNamed(r) ==
    /\ from = 0 /\ \A p \in Old : p[1] = r => cpt[p].pc = "named"
    /\ cpt' = [p \in Old |-> IF p[1] = r THEN [cpt[p] EXCEPT !.pc = "blob"] ELSE cpt[p]]
    /\ UNCHANGED <<job, checkpointId, dirs, disk, from, restoring>>

(***************************************************************************)
(* Simulation::checkpoint(): the components in the order of their ids, as  *)
(* they are at this checkpoint.                                            *)
(***************************************************************************)
WriteBlob(p) ==
    /\ from = 0 /\ cpt[p].pc = "blob"
    /\ checkpointId' = IF p[2] = 0 THEN [checkpointId EXCEPT ![p[1]] = @ + 1] ELSE checkpointId
    /\ disk' = Write(FileName(cpt[p].id, p),
            [threadMin |-> CrossLatency(OtherThread(p[1])),
             comps |-> LET mine == SetToSortSeq({c \in Comp : job.place[c] = p}, <)
                       IN  [i \in DOMAIN mine |-> SavedComp(mine[i], cpt[p].id)]])
    /\ CptTo(p, IF p[2] = 0 THEN "globals" ELSE "turns")
    /\ UNCHANGED <<job, dirs, from, restoring>>

(* checkpoint_write_globals(): all ranks take part in the reduction. *)
GatherGlobals ==
    /\ from = 0 /\ \A r \in OldRank : cpt[<<r, 0>>].pc = "globals"
    /\ cpt' = [p \in Old |-> IF p[2] # 0 THEN cpt[p]
                ELSE [cpt[p] EXCEPT !.pc = IF p[1] = 0 THEN "write" ELSE "turns"]]
    /\ UNCHANGED <<job, checkpointId, dirs, disk, from, restoring>>

WriteGlobals ==
    LET p == <<0, 0>>
    IN  /\ from = 0 /\ cpt[p].pc = "write"
        /\ disk' = [n \in DOMAIN disk \cup {Globals(cpt[p].id), Registry(cpt[p].id)} |->
                CASE n = Globals(cpt[p].id) -> [ranks |-> job.cpt, minPart |-> CrossLatency(OtherRank)]
                  [] n = Registry(cpt[p].id) -> <<>>
                  [] OTHER -> disk[n]]
        /\ CptTo(p, "turns")
        /\ UNCHANGED <<job, checkpointId, dirs, from, restoring>>

(***************************************************************************)
(* The loop over the ranks.  In the turn of its rank each thread appends   *)
(* its section in its turn; thread 0 takes part in the barrier of the      *)
(* ranks before the threads meet.                                          *)
(***************************************************************************)
MyRanksTurn(p) == cpt[p].r = p[1] /\ cpt[p].t < job.cpt[2]
MyTurn(p) == MyRanksTurn(p) /\ cpt[p].t = p[2]

AppendRegistry(p) ==
    /\ from = 0 /\ cpt[p].pc = "turns"
    /\ disk' = IF MyTurn(p)
               THEN Write(Registry(cpt[p].id),
                          Append(disk[Registry(cpt[p].id)],
                                 [place |-> p, file |-> FileName(cpt[p].id, p),
                                  comps |-> {c \in Comp : job.place[c] = p}]))
               ELSE disk
    /\ CptTo(p, IF ~MyRanksTurn(p) /\ p[2] = 0 THEN "ranks" ELSE "threads")
    /\ UNCHANGED <<job, checkpointId, dirs, from, restoring>>

RanksMeet ==
    /\ from = 0 /\ \A r \in OldRank : cpt[<<r, 0>>].pc = "ranks"
    /\ cpt' = [p \in Old |-> IF p[2] = 0 THEN [cpt[p] EXCEPT !.pc = "threads"] ELSE cpt[p]]
    /\ UNCHANGED <<job, checkpointId, dirs, disk, from, restoring>>

NextTurn(p) ==
    LET next == IF MyRanksTurn(p) THEN [cpt[p] EXCEPT !.t = @ + 1]
                ELSE [cpt[p] EXCEPT !.r = @ + 1]
    IN  [next EXCEPT !.pc = IF next.r = job.cpt[1] THEN "start" ELSE "turns"]

ThreadsMeet(r) ==
    /\ from = 0 /\ \A p \in Old : p[1] = r => cpt[p].pc = "threads"
    /\ cpt' = [p \in Old |-> IF p[1] = r THEN NextTurn(p) ELSE cpt[p]]
    /\ UNCHANGED <<job, checkpointId, dirs, disk, from, restoring>>

-----------------------------------------------------------------------------
(***************************************************************************)
(* The job dies, or has ended, and a new one reads the checkpoint: one     *)
(* that was finished, and any one that has a registry if Partial.  Of the  *)
(* disk only what it reads is kept.                                        *)
(***************************************************************************)
Finished(id) ==
    \A p \in Old : cpt[p].id > id \/ (cpt[p].id = id /\ cpt[p].pc = "start")

Launch(id) ==
    /\ from = 0 /\ Registry(id) \in DOMAIN disk
    /\ Partial \/ Finished(id)
    /\ from' = id
    /\ LET reg == disk[Registry(id)]
           read == {Globals(id), Registry(id)} \cup {reg[i].file : i \in DOMAIN reg}
       IN  disk' = [n \in read |-> disk[n]]
    /\ cpt' = [p \in Old |-> [pc |-> "dead", id |-> 0, r |-> 0, t |-> 0]]
    /\ checkpointId' = [r \in OldRank |-> 1] /\ dirs' = {}
    /\ UNCHANGED <<job, restoring>>

(* createConfigGraph(): what the numbers of ranks and threads allow. *)
CreateConfigGraph ==
    /\ from # 0 /\ mode = "none"
    /\ LET was == disk[Globals(from)].ranks
       IN  mode' = CASE job.new = was -> "same"
                     [] job.new = <<1, 1>> -> "serial"
                     [] job.new[1] * job.new[2] = was[1] * was[2] -> "remap"
                     [] job.graph -> "repartition"
                     [] OTHER -> "refused"
    /\ fatal' = (mode' = "refused")
    /\ pc' = [q \in New |-> "load"]
    /\ UNCHANGED <<job, writing, disk, from, loading, linking, ring, threadMin, interval>>

(* The partition of the checkpoint that a partition restores. *)
Effective(q) ==
    IF mode # "remap" THEN q
    ELSE LET index == q[1] * job.new[2] + q[2]
             threads == disk[Globals(from)].ranks[2]
         IN  <<index \div threads, index % threads>>

(***************************************************************************)
(* The registry is read once: each search goes on where the last one       *)
(* stopped, and to the end if there is no such section.                    *)
(***************************************************************************)
FindBlobs(q) ==
    LET was == disk[Globals(from)].ranks
        reg == disk[Registry(from)]
        wanted == IF mode = "repartition" THEN <<>>
                  ELSE IF mode = "serial"
                       THEN SetToSortSeq(Places(was), LAMBDA a, b : a[1] < b[1] \/ (a[1] = b[1] /\ a[2] < b[2]))
                       ELSE <<Effective(q)>>
        Search(found, p) ==
            LET at == {i \in DOMAIN reg : i > found.line /\ reg[i].place = p}
            IN  IF at = {} THEN [found EXCEPT !.line = Len(reg)]
                ELSE [line |-> Least(at), files |-> Append(found.files, reg[Least(at)].file)]
    IN  FoldLeft(Search, [line |-> 0, files |-> <<>>], wanted).files

(* The sections of the registry say where each component of the new partition is. *)
Scattered(q) ==
    LET reg == disk[Registry(from)]
    IN  FlattenSeq([i \in DOMAIN reg |-> SelectSeq(disk[reg[i].file].comps,
            LAMBDA c : c.comp \in reg[i].comps /\ job.newPlace[c.comp] = q)])

(***************************************************************************)
(* restart(): the components, from no file of its own (all that the new    *)
(* partition has), from one, or from several.                              *)
(***************************************************************************)
Load(q) ==
    /\ ~fatal /\ pc[q] = "load"
    /\ LET files == FindBlobs(q)
           loaded == IF files = <<>>
                     THEN IF mode = "repartition" THEN Scattered(q) ELSE <<>>
                     ELSE FlattenSeq([i \in DOMAIN files |-> disk[files[i]].comps])
           reread == Len(files) = 1 /\ mode = "same"
           hasThreadSync == /\ job.new[2] > 1
                            /\ reread => disk[files[1]].threadMin # MaxTime
           hasRankSync == /\ job.new[1] > 1
                          /\ reread => disk[Globals(from)].minPart # MaxTime
       IN  /\ comps' = [comps EXCEPT ![q] = [i \in DOMAIN loaded |-> <<loaded[i].comp, loaded[i].state>>]]
           /\ todo' = [todo EXCEPT ![q] = FlattenSeq([i \in DOMAIN loaded |-> loaded[i].ends])]
           /\ sync' = [sync EXCEPT ![q] = [made |-> TRUE, thread |-> hasThreadSync, rank |-> hasRankSync]]
    /\ pc' = [pc EXCEPT ![q] = "created"]
    /\ UNCHANGED <<job, writing, disk, from, mode, fatal, ends, tracker, linkMap, linkMaps, ring,
                   threadMin, interval>>

(* Mutant of CanUnpack: nobody waits for the other threads. *)
CanUnpackAtOnce(q) == TRUE

(* completeBarrier: the SyncManagers of all threads exist. *)
CanUnpack(q) == \A p \in New : p[1] = q[1] => pc[p] # "load"

(***************************************************************************)
(* SyncManager::registerLink().  s.ends, s.linkMap and s.linkMaps are the  *)
(* state it changes; the ends of a link meet in the link_map of both       *)
(* ThreadSyncs, and in the lists that the ranks exchange later.            *)
(***************************************************************************)
Nowhere == <<>>

(* Mutant of MeetInMap: the first end stays in the map. *)
MeetAndStay(map, found, e) == IF found = {} THEN map \cup {e} ELSE map

MeetInMap(map, found, e) == IF found = {} THEN map \cup {e} ELSE map \ found

RegisterLink(s, e, q, to) ==
    LET here == {f \in s.linkMap[q] : f[1] = e[1]}
        there == {f \in s.linkMap[to] : f[1] = e[1]}
    IN  IF q[1] # to[1]
        THEN [s EXCEPT !.ends[e].to = IF sync[q].rank THEN to ELSE Nowhere,
                       !.linkMaps[q[1]][to[1]] = IF sync[q].rank THEN Append(@, e) ELSE @]
        ELSE IF ~sync[q].thread THEN [s EXCEPT !.ends[e].to = Nowhere]
        ELSE [s EXCEPT !.linkMap[q] = MeetInMap(@, here, e), !.linkMap[to] = MeetInMap(@, there, e),
                       !.ends = [f \in DOMAIN @ |->
                            CASE f = e -> [@[f] EXCEPT !.to = to,
                                           !.peer = IF here = {} THEN @ ELSE CHOOSE x \in here : TRUE]
                              [] f \in there -> [@[f] EXCEPT !.peer = e]
                              [] OTHER -> @[f]]]

(***************************************************************************)
(* Unpacking an end of a link.  If the end was restored by the same        *)
(* partition already, this one takes the pair link that was created with   *)
(* it; otherwise it creates a pair of links.  Only with the numbers of     *)
(* ranks and threads unchanged is it known at once that the other end is   *)
(* in another partition.                                                   *)
(***************************************************************************)
AddPairLatency(lat, saved) == lat + saved.pairLat

Unpack(q) ==
    /\ ~fatal /\ pc[q] = "created" /\ CanUnpack(q) /\ todo[q] # <<>>
    /\ LET saved == Head(todo[q])
           e == saved.end
           isSync == mode = "same" /\ saved.pair # q
           mates == {f \in tracker[q] : f[1] = e[1]}
           mate == CHOOSE f \in mates : TRUE
           single == [at |-> q, lat |-> saved.lat, pairLat |-> AddPairLatency(0, saved),
                      mate |-> Nowhere, to |-> q, peer |-> Nowhere]
           put == [f \in DOMAIN ends \cup {e} |-> IF f = e THEN single ELSE ends[f]]
           reg == RegisterLink([ends |-> put, linkMap |-> linkMap, linkMaps |-> linkMaps], e, q, saved.pair)
       IN  CASE ~isSync /\ mates # {} ->
                  /\ ends' = [f \in DOMAIN ends \cup {e} |->
                        CASE f = e -> [single EXCEPT !.lat = @ + ends[mate].pairLat, !.pairLat = 0,
                                                     !.mate = mate, !.peer = mate]
                          [] f = mate -> [ends[f] EXCEPT !.lat = AddPairLatency(@, saved), !.pairLat = 0,
                                                         !.mate = e, !.peer = e]
                          [] OTHER -> ends[f]]
                  /\ tracker' = [tracker EXCEPT ![q] = @ \ {mate}]
                  /\ UNCHANGED <<linkMap, linkMaps, fatal>>
             [] ~isSync /\ mates = {} ->
                  /\ ends' = put
                  /\ tracker' = [tracker EXCEPT ![q] = @ \cup {e}]
                  /\ UNCHANGED <<linkMap, linkMaps, fatal>>
             [] isSync /\ (saved.pair[1] = q[1] => sync[saved.pair].made) ->
                  /\ ends' = reg.ends /\ linkMap' = reg.linkMap /\ linkMaps' = reg.linkMaps
                  /\ tracker' = [tracker EXCEPT ![q] = @ \cup {e}]
                  /\ UNCHANGED fatal
             [] OTHER -> fatal' = TRUE /\ UNCHANGED <<ends, tracker, linkMap, linkMaps>>
    /\ todo' = [todo EXCEPT ![q] = Tail(@)]
    /\ UNCHANGED <<job, writing, disk, from, mode, pc, comps, sync, ring, threadMin, interval>>

-----------------------------------------------------------------------------
(***************************************************************************)
(* discoverRemoteLinks(), for a parallel job.                              *)
(***************************************************************************)
Unpacked(q) ==
    /\ ~fatal /\ pc[q] = "created" /\ CanUnpack(q) /\ todo[q] = <<>>
    /\ LET serial == job.new = <<1, 1>>
           ids == IF serial THEN {} ELSE {e[1] : e \in tracker[q]}
       IN  /\ local' = [local EXCEPT ![q] = ids]
           /\ moving' = [moving EXCEPT ![q] = {[id |-> l, at |-> q] : l \in ids}]
           /\ pc' = [pc EXCEPT ![q] = IF serial THEN "matched" ELSE "ready"]
    /\ UNCHANGED <<job, writing, disk, from, mode, fatal, loading, linking, round, queue, mail,
                   threadMin, interval>>

(* initBarrier: the queues of all threads of the rank exist. *)
CanSend(q) ==
    /\ pc[q] = "ready"
    /\ \A p \in New : p[1] = q[1] => pc[p] \notin {"load", "created"}

(* discoverRemoteLinksMoveData(): to the next thread, from thread 0 to the next rank. *)
NextThread(q) == <<q[1], (q[2] + 1) % job.new[2]>>
NextRank(r) == (r + 1) % job.new[1]

Send(q) ==
    /\ ~fatal /\ CanSend(q) /\ round[q] < job.new[1] * job.new[2] - 1
    /\ IF job.new[2] > 1
       THEN /\ Len(queue[NextThread(q)]) < 2
            /\ queue' = [queue EXCEPT ![NextThread(q)] = Append(@, moving[q])]
            /\ UNCHANGED mail
            /\ pc' = [pc EXCEPT ![q] = "receive"]
       ELSE /\ mail' = [mail EXCEPT ![NextRank(q[1])] = Append(@, moving[q])]
            /\ UNCHANGED queue
            /\ pc' = [pc EXCEPT ![q] = "mpi"]
    /\ moving' = [moving EXCEPT ![q] = {}]
    /\ UNCHANGED <<job, writing, disk, from, mode, fatal, loading, linking, local, round, threadMin, interval>>

Receive(q) ==
    /\ ~fatal /\ pc[q] = "receive" /\ queue[q] # <<>>
    /\ queue' = [queue EXCEPT ![q] = Tail(@)]
    /\ IF q[2] # 0 \/ job.new[1] = 1
       THEN /\ moving' = [moving EXCEPT ![q] = Head(queue[q])]
            /\ pc' = [pc EXCEPT ![q] = "match"]
            /\ UNCHANGED mail
       ELSE /\ mail' = [mail EXCEPT ![NextRank(q[1])] = Append(@, Head(queue[q]))]
            /\ pc' = [pc EXCEPT ![q] = "mpi"]
            /\ UNCHANGED moving
    /\ UNCHANGED <<job, writing, disk, from, mode, fatal, loading, linking, local, round, threadMin, interval>>

ReceiveMpi(q) ==
    /\ ~fatal /\ pc[q] = "mpi" /\ mail[q[1]] # <<>>
    /\ mail' = [mail EXCEPT ![q[1]] = Tail(@)]
    /\ moving' = [moving EXCEPT ![q] = Head(mail[q[1]])]
    /\ pc' = [pc EXCEPT ![q] = "match"]
    /\ UNCHANGED <<job, writing, disk, from, mode, fatal, loading, linking, local, round, queue,
                   threadMin, interval>>

(***************************************************************************)
(* The links that are in both lists are registered, and leave both: the    *)
(* list goes on without them.                                              *)
(***************************************************************************)
Match(q) ==
    /\ ~fatal /\ pc[q] = "match"
    /\ LET found == {m \in moving[q] : m.id \in local[q]}
           End(m) == CHOOSE e \in tracker[q] : e[1] = m.id
           s == FoldSet(LAMBDA m, acc : RegisterLink(acc, End(m), q, m.at),
                        [ends |-> ends, linkMap |-> linkMap, linkMaps |-> linkMaps], found)
       IN  /\ ends' = s.ends /\ linkMap' = s.linkMap /\ linkMaps' = s.linkMaps
           /\ tracker' = [tracker EXCEPT ![q] = @ \ {End(m) : m \in found}]
           /\ local' = [local EXCEPT ![q] = @ \ {m.id : m \in found}]
           /\ moving' = [moving EXCEPT ![q] = @ \ found]
    /\ round' = [round EXCEPT ![q] = @ + 1]
    /\ pc' = [pc EXCEPT ![q] = "ready"]
    /\ UNCHANGED <<job, writing, disk, from, mode, fatal, loading, sync, queue, mail, threadMin, interval>>

LinksDiscovered(q) ==
    /\ ~fatal /\ CanSend(q) /\ round[q] = job.new[1] * job.new[2] - 1
    /\ fatal' = (local[q] # {})
    /\ pc' = [pc EXCEPT ![q] = "matched"]
    /\ UNCHANGED <<job, writing, disk, from, mode, loading, linking, ring, threadMin, interval>>

-----------------------------------------------------------------------------
(***************************************************************************)
(* What main does after restart(): the ranks exchange the links, then the  *)
(* latencies, and the threads find the interval of their syncs.            *)
(***************************************************************************)
AllAt(label) == \A q \in New : pc[q] = label
SortedIds(s) == SortSeq([i \in DOMAIN s |-> s[i][1]], <)

ExchangeLinkInfo ==
    /\ ~fatal /\ mode # "none" /\ AllAt("matched")
    /\ IF \A r, s \in NewRank : SortedIds(linkMaps[r][s]) = SortedIds(linkMaps[s][r])
       THEN /\ ends' = [e \in DOMAIN ends |->
                    IF \E r, s \in NewRank : \E i \in DOMAIN linkMaps[r][s] : linkMaps[r][s][i] = e
                    THEN [ends[e] EXCEPT !.peer = Other(e)] ELSE ends[e]]
            /\ UNCHANGED fatal
       ELSE fatal' = TRUE /\ UNCHANGED ends
    /\ pc' = [q \in New |-> "linked"]
    /\ UNCHANGED <<job, writing, disk, from, mode, loading, tracker, sync, linkMap, linkMaps, ring,
                   threadMin, interval>>

(* The latency of an end and what the other one adds to it. *)
Total(e) == ends[e].lat + ends[Other(e)].pairLat

FindRankSyncInterval ==
    /\ ~fatal /\ mode # "none" /\ AllAt("linked")
    /\ interval' = [interval EXCEPT !.rank =
            Least({MaxTime} \cup {Total(e) : e \in {f \in DOMAIN ends :
                \E r, s \in NewRank : \E i \in DOMAIN linkMaps[r][s] : linkMaps[r][s][i] = f}})]
    /\ linkMaps' = [r \in NewRank |-> [s \in NewRank |-> <<>>]]
    /\ pc' = [q \in New |-> "interval"]
    /\ UNCHANGED <<job, writing, disk, from, mode, fatal, loading, ends, tracker, sync, linkMap, ring, threadMin>>

(* findSyncInterval() of a ThreadSync: updateMinimumLatency(), and the barrier. *)
UpdateMinimumLatency(q) ==
    /\ ~fatal /\ pc[q] = "interval"
    /\ threadMin' = [threadMin EXCEPT ![q[1]] =
            Least({@} \cup {Total(e) : e \in {f \in DOMAIN ends :
                ends[f].at = q /\ ends[f].to # Nowhere /\ ends[f].to # q /\ ends[f].to[1] = q[1]}})]
    /\ pc' = [pc EXCEPT ![q] = "minimum"]
    /\ UNCHANGED <<job, writing, disk, from, mode, fatal, loading, linking, ring, interval>>

FindThreadSyncInterval(q) ==
    /\ ~fatal /\ pc[q] = "minimum"
    /\ \A p \in New : p[1] = q[1] => pc[p] \in {"minimum", "run"}
    /\ interval' = [interval EXCEPT !.thread[q] = threadMin[q[1]]]
    /\ pc' = [pc EXCEPT ![q] = "run"]
    /\ UNCHANGED <<job, writing, disk, from, mode, fatal, loading, linking, ring, threadMin>>

(* The restarted job runs, or the restart has been refused. *)
Ended ==
    /\ fatal \/ (mode # "none" /\ AllAt("run"))
    /\ UNCHANGED vars

-----------------------------------------------------------------------------
Init ==
    /\ job \in {j \in Jobs : \A c \in Comp : j.place[c] \in Places(j.cpt) /\ j.newPlace[c] \in Places(j.new)}
    /\ cpt = [p \in Old |-> [pc |-> "start", id |-> 0, r |-> 0, t |-> 0]]
    /\ checkpointId = [r \in OldRank |-> 1]
    /\ dirs = {}
    /\ disk = <<>>
    /\ from = 0
    /\ mode = "none" /\ fatal = FALSE
    /\ pc = [q \in New |-> "off"]
    /\ comps = [q \in New |-> <<>>]
    /\ todo = [q \in New |-> <<>>]
    /\ ends = <<>>
    /\ tracker = [q \in New |-> {}]
    /\ sync = [q \in New |-> [made |-> FALSE, thread |-> FALSE, rank |-> FALSE]]
    /\ linkMap = [q \in New |-> {}]
    /\ linkMaps = [r \in NewRank |-> [s \in NewRank |-> <<>>]]
    /\ local = [q \in New |-> {}]
    /\ moving = [q \in New |-> {}]
    /\ round = [q \in New |-> 0]
    /\ queue = [q \in New |-> <<>>]
    /\ mail = [r \in NewRank |-> <<>>]
    /\ threadMin = [r \in NewRank |-> MaxTime]
    /\ interval = [rank |-> MaxTime, thread |-> [q \in New |-> MaxTime]]

Next ==
    \/ \E p \in Old : CreateDirectory(p) \/ WriteBlob(p) \/ AppendRegistry(p)
    \/ \E r \in OldRank : AllNamed(r) \/ ThreadsMeet(r)
    \/ GatherGlobals \/ WriteGlobals \/ RanksMeet
    \/ \E id \in 1..Checkpoints : Launch(id)
    \/ CreateConfigGraph
    \/ \E q \in New : \/ Load(q) \/ Unpack(q) \/ Unpacked(q)
                      \/ Send(q) \/ Receive(q) \/ ReceiveMpi(q) \/ Match(q) \/ LinksDiscovered(q)
                      \/ UpdateMinimumLatency(q) \/ FindThreadSyncInterval(q)
    \/ ExchangeLinkInfo \/ FindRankSyncInterval
    \/ Ended

Spec == Init /\ [][Next]_vars

-----------------------------------------------------------------------------
Running == ~fatal /\ mode # "none" /\ AllAt("run")

(* Where the restarted job must have a component. *)
Target(c) ==
    LET p == job.place[c]
        index == p[1] * job.cpt[2] + p[2]
    IN  CASE job.new = job.cpt -> p
          [] job.new = <<1, 1>> -> <<0, 0>>
          [] job.new[1] * job.new[2] = job.cpt[1] * job.cpt[2] ->
                <<index \div job.new[2], index % job.new[2]>>
          [] OTHER -> job.newPlace[c]

(***************************************************************************)
(* A restarted job has every component of the job that was checkpointed,   *)
(* once, as it was then, and in the partition that the new numbers of      *)
(* ranks and threads give it: the files of a finished checkpoint and its   *)
(* registry are whole and in order whenever the job dies, also in the next *)
(* checkpoint, and the searches through the registry find them.            *)
(***************************************************************************)
RestoredOnce ==
    Running => \A q \in New :
        /\ ToSet(comps[q]) = {<<c, from>> : c \in {d \in Comp : Target(d) = q}}
        /\ Len(comps[q]) = Cardinality(ToSet(comps[q]))

(***************************************************************************)
(* The two ends of every link find each other again: what one sends goes   *)
(* to the queue of the partition of the other and is delivered to it, and  *)
(* no link is left behind half registered.                                 *)
(***************************************************************************)
EndsMeetAgain ==
    Running =>
        /\ DOMAIN ends = Ends
        /\ \A e \in Ends : /\ ends[e].at = Target(CompOf(e))
                           /\ ends[e].to = Target(CompOf(Other(e)))
                           /\ ends[e].peer = Other(e)
        /\ \A q \in New : tracker[q] = {} /\ linkMap[q] = {}

(***************************************************************************)
(* A link takes as long as before the checkpoint, wherever its ends were   *)
(* and are, receive latency included; and the intervals of the syncs are   *)
(* the shortest delay between partitions, not longer and not shorter.      *)
(***************************************************************************)
DelaysKept ==
    Running =>
        LET Across(e) == Target(CompOf(e))[1] # Target(CompOf(Other(e)))[1]
            Between(r, e) == /\ Target(CompOf(e)) # Target(CompOf(Other(e)))
                             /\ Target(CompOf(e))[1] = r /\ Target(CompOf(Other(e)))[1] = r
        IN  /\ \A e \in Ends : Total(e) = Delay(e)
            /\ interval.rank = Least({MaxTime} \cup {Delay(e) : e \in {f \in Ends : Across(f)}})
            /\ \A q \in New : interval.thread[q] =
                    Least({MaxTime} \cup {Delay(e) : e \in {f \in Ends : Between(q[1], f)}})

(***************************************************************************)
(* Only a restart that would need the ConfigGraph and has none is refused: *)
(* no link stays unmatched, no SyncManager is used before it exists and    *)
(* the ranks agree on the links between them.                              *)
(***************************************************************************)
RefusedForCause ==
    fatal => /\ job.new \notin {job.cpt, <<1, 1>>} /\ ~job.graph
             /\ job.new[1] * job.new[2] # job.cpt[1] * job.cpt[2]
=============================================================================
