-------------------------------- MODULE WireUp --------------------------------
(***************************************************************************)
(* From the model description to connected links: the ConfigGraph is built *)
(* by rank 0, or by every rank for its own part (--parallel-load), it is   *)
(* partitioned and distributed, the ids of links between ranks are agreed  *)
(* on, every thread creates the links of its components, and the two sides *)
(* of a link that the syncs serve learn of each other.                     *)
(*                                                                         *)
(* Ranks are processes that only talk through MPI; the threads of a rank   *)
(* share its graph, the map of waiting interthread links and each other's  *)
(* ThreadSync.  A fatal error of one rank ends the job.                    *)
(***************************************************************************)
EXTENDS Partition

CONSTANTS
    Worlds,         \* the possible <<ranks, threads>> of the job
    NumComps,       \* components are the numbers 0 .. NumComps - 1
    Scripts,        \* what the model description may say: sequences of links
    Placements,     \* the places it may set, functions from Comp
    Partitioners,   \* for a serial load
    Faults,         \* mistakes in the scripts of the ranks of a parallel load
    Direct          \* values of direct_interthread

Comp == 0..(NumComps - 1)
Unset == -1
MaxTime == 99       \* stands for MAX_SIMTIME_T
NoRank == -1        \* type_max<uint32_t> as a partner in the exchange of ids

WireUpAssumption ==
    /\ Worlds \subseteq (Nat \ {0}) \X (Nat \ {0})
    /\ NumComps \in Nat \ {0}
    /\ \A s \in Scripts : \A i \in DOMAIN s :
        /\ s[i].comp \in Comp \X (Comp \cup {Unset})
        /\ s[i].default \in 0..MaxTime /\ s[i].given \in (0..MaxTime) \X (0..MaxTime)
        /\ s[i].noCut \in BOOLEAN

VARIABLES
    job,            \* the command line and the model: never changes
    fatal,          \* a rank has called fatal: MPI_Abort
    pc,             \* of each rank up to the start of its threads
    graph,          \* ConfigGraph of each rank: the places of comps, and links
    minPart,        \* min_part, after the reduction; 0 before
    mine,           \* my_ranks, the ranks a rank still has the graph of
    parcel,         \* what a rank is about to send: your_ranks and their graph
    partner,        \* [send, recv, last] in the exchange of ids, [with] later
    mail,           \* messages of the exchange of ids under way
    tpc,            \* of each thread
    todo,           \* the links a thread has yet to prepare
    ends,           \* the LinkMaps: what each thread's components send through
    waiting,        \* cross_thread_links, by id, of each rank
    linkMap,        \* link_map of the ThreadSync of each thread, by id
    linkMaps,       \* link_maps of the RankSync of each rank, by remote rank
    lookahead       \* interThreadLatencies of each thread, by remote thread

loading == <<graph, minPart, mine, parcel, partner, mail>>
wiring == <<tpc, todo, ends, waiting, linkMap, linkMaps, lookahead>>
vars == <<job, fatal, pc, loading, wiring>>

Rank == 0..(job.world[1] - 1)
Thread == 0..(job.world[2] - 1)
Place == Rank \X Thread
Parallel == job.load \in {"nonlocal", "ghost"}

-----------------------------------------------------------------------------
(***************************************************************************)
(* Building the graph.  createLink sets the default latency on both ends;  *)
(* addLink takes the first end that is free, addNonLocalLink marks the     *)
(* other one; latencies are 0 until they are given.                        *)
(***************************************************************************)
CreateLink(r, name, default, noCut) ==
    [name |-> name, id |-> <<r, name>>, comp |-> <<Unset, Unset>>, port |-> <<0, 0>>,
     lat |-> <<default, default>>, nonlocal |-> FALSE, noCut |-> noCut, bad |-> FALSE]

AddLink(link, comp, port, latency) ==
    LET i == IF link.comp[1] = Unset THEN 1 ELSE 2
    IN  IF \/ link.comp[1] # Unset /\ (link.nonlocal \/ link.comp[2] # Unset)
           \/ latency = 0 /\ link.lat[1] = 0
        THEN [link EXCEPT !.bad = TRUE]
        ELSE [link EXCEPT !.comp[i] = comp, !.port[i] = port,
                          !.lat[i] = IF latency # 0 THEN latency ELSE @]

AddNonLocalLink(link, place) ==
    IF link.nonlocal \/ link.comp[2] # Unset THEN [link EXCEPT !.bad = TRUE]
    ELSE [link EXCEPT !.nonlocal = TRUE, !.comp[2] = place[1], !.lat[2] = place[2]]

(* The script of a link; the same port twice makes it a loopback. *)
PortOf(s, i) == IF s.loopback THEN 1 ELSE i
Connect(r, name, s) ==
    LET one == AddLink(CreateLink(r, name, s.default, s.noCut), s.comp[1], PortOf(s, 1), s.given[1])
    IN  IF s.comp[2] = Unset \/ one.bad THEN one
        ELSE AddLink(one, s.comp[2], PortOf(s, 2), s.given[2])

(* A rank that loads in parallel describes its own end, i, of a cut link. *)
ConnectNonLocal(r, name, s, i, remote) ==
    AddNonLocalLink(AddLink(CreateLink(r, name, s.default, s.noCut), s.comp[i], PortOf(s, i), s.given[i]),
                    remote)

-----------------------------------------------------------------------------
(***************************************************************************)
(* Splitting the graph.  setAsNonLocal moves the local end to index 0 and  *)
(* puts rank and thread of the other into component_[1] and latency_[1].   *)
(***************************************************************************)
Swapped(p) == <<p[2], p[1]>>

(* Mutant of SetAsNonLocal: the ends are not swapped. *)
SetAsNonLocalUnswapped(link, local, remote) ==
    [link EXCEPT !.comp[1] = link.comp[local], !.port[1] = link.port[local],
                 !.comp[2] = remote[1], !.lat[2] = remote[2], !.port[2] = 0, !.nonlocal = TRUE]

SetAsNonLocal(link, local, remote) ==
    LET l == IF local = 1 THEN link
             ELSE [link EXCEPT !.comp = Swapped(@), !.port = Swapped(@), !.lat = Swapped(@)]
    IN  [l EXCEPT !.comp[2] = remote[1], !.lat[2] = remote[2], !.port[2] = 0, !.nonlocal = TRUE]

PlaceOf(g, link, i) ==
    IF i = 2 /\ link.nonlocal THEN <<NoRank, 0>> ELSE g.place[link.comp[i]]

(* GraphFilter: the links of g that a graph of the ranks in set has. *)
Filtered(g, set) ==
    LET Has(l, i) == PlaceOf(g, l, i)[1] \in set
        Cut(l) == ~l.nonlocal /\ Has(l, 1) # Has(l, 2)
        Local(l) == IF Has(l, 1) THEN 1 ELSE 2
    IN  {IF Cut(l) THEN SetAsNonLocal(l, Local(l), PlaceOf(g, l, 3 - Local(l))) ELSE l :
            l \in {k \in g.links : Has(k, 1) \/ Has(k, 2)}}

SplitGraph(g, set) ==
    [place |-> [c \in {d \in DOMAIN g.place : g.place[d][1] \in set} |-> g.place[c]],
     links |-> Filtered(g, set)]

EmptyGraph == [place |-> <<>>, links |-> {}]

-----------------------------------------------------------------------------
(***************************************************************************)
(* What a rank builds.  In a parallel load it may describe everything and  *)
(* have the graph reduced to its rank ("ghost"), or only its own part with *)
(* the links to others marked as non-local.  A fault is a mistake of one   *)
(* rank about link 1: it leaves its end out, connects it to another rank,  *)
(* or claims an end of a link that is none of its business.                *)
(***************************************************************************)
Script == job.script
Set(c) == job.set[c]
RanksOf(s) == {Set(c)[1] : c \in Ends(s)}
Faulty(r, i) == job.fault # "none" /\ i = 1 /\ r = job.faulty
FaultMatters ==
    LET s == Script[1]
    IN  CASE job.fault = "missing" -> job.faulty \in RanksOf(s) /\ Cardinality(RanksOf(s)) = 2
          [] job.fault = "wrong" -> /\ job.faulty \in RanksOf(s) /\ Cardinality(RanksOf(s)) = 2
                                    /\ Rank # RanksOf(s)
          [] job.fault = "extra" -> job.faulty \notin RanksOf(s) /\ \E c \in Comp : Set(c)[1] = job.faulty
          [] OTHER -> FALSE

Whole(r) == {Connect(r, i, Script[i]) : i \in DOMAIN Script}

Remote(r, i, place) ==
    IF Faulty(r, i) /\ job.fault = "wrong" /\ FaultMatters
    THEN <<CHOOSE q \in Rank : q \notin {r, place[1]}, place[2]>>
    ELSE place

Own(r) ==
    LET Part(i) ==
            LET s == Script[i]
                here == {k \in {1, 2} : Set(s.comp[k])[1] = r}
            IN  CASE Faulty(r, i) /\ job.fault = "missing" /\ Cardinality(here) = 1 -> {}
                  [] Faulty(r, i) /\ job.fault = "extra" /\ here = {} /\ FaultMatters ->
                        {ConnectNonLocal(r, i, [s EXCEPT !.comp[1] = CHOOSE c \in Comp : Set(c)[1] = r],
                                         1, Set(s.comp[1]))}
                  [] here = {1, 2} -> {Connect(r, i, s)}
                  [] here = {} -> {}
                  [] OTHER -> LET k == CHOOSE j \in here : TRUE
                              IN  {ConnectNonLocal(r, i, s, k, Remote(r, i, Set(s.comp[3 - k])))}
    IN  UNION {Part(i) : i \in DOMAIN Script}

Described(r) ==
    IF job.load = "nonlocal"
    THEN [place |-> [c \in {d \in Comp : Set(d)[1] = r} |-> Set(c)], links |-> Own(r)]
    ELSE [place |-> job.set, links |-> Whole(r)]

(* reduceGraphToSingleRank *)
Reduced(r, g) == IF Parallel THEN SplitGraph(g, {r}) ELSE g

(* The fatal errors of addLink, and checkForStructuralErrors. *)
BadCall(g) == \E l \in g.links : l.bad
StructuralError(g) == \E l \in g.links : l.comp[1] = Unset \/ (l.comp[2] = Unset /\ ~l.nonlocal)

CheckRanks(g) ==
    \A c \in DOMAIN g.place : g.place[c] \in Place

Goto(r, l) == pc' = [pc EXCEPT ![r] = l]
Builds(r) == r = 0 \/ Parallel

(* start_graph_creation and the checks of the graph *)
Load(r) ==
    /\ ~fatal /\ pc[r] = "load"
    /\ Goto(r, "partition")
    /\ IF Builds(r) /\ BadCall(Described(r))
       THEN fatal' = TRUE /\ UNCHANGED graph
       ELSE LET g == IF Builds(r) THEN Reduced(r, Described(r)) ELSE EmptyGraph
            IN  graph' = [graph EXCEPT ![r] = g] /\ fatal' = StructuralError(g)
    /\ UNCHANGED <<job, minPart, mine, parcel, partner, mail, wiring>>

(* start_partitioning *)
Partitioned(g) ==
    IF Parallel THEN g
    ELSE [g EXCEPT !.place = PerformPartition(job.partitioner, Comp, g.links, g.place, job.world)]

RunPartitioner(r) ==
    /\ ~fatal /\ pc[r] = "partition"
    /\ Goto(r, "reduce")
    /\ LET g == IF Builds(r) THEN Partitioned(graph[r]) ELSE graph[r]
       IN  /\ graph' = [graph EXCEPT ![r] = g]
           /\ fatal' = ~CheckRanks(g)
    /\ UNCHANGED <<job, minPart, mine, parcel, partner, mail, wiring>>

-----------------------------------------------------------------------------
(***************************************************************************)
(* getMinimumPartitionLatency, over the links checkRanks has marked, and   *)
(* the reduction over the ranks.                                           *)
(***************************************************************************)
RankInfo(g, l, i) == IF i = 2 /\ l.nonlocal THEN <<l.comp[2], l.lat[2]>> ELSE g.place[l.comp[i]]
CrossRank(g, l) == RankInfo(g, l, 1)[1] # RankInfo(g, l, 2)[1]

(* Mutant of GetMinLatency: only the latency of the first end counts. *)
GetMinLatencyFirst(l) == l.lat[1]

GetMinLatency(l) == IF l.nonlocal THEN l.lat[1] ELSE MinLatency(l.lat)
Least(S) == CHOOSE x \in S : \A y \in S : x <= y
LocalMinPart(r) ==
    Least({MaxTime} \cup {GetMinLatency(l) : l \in {k \in graph[r].links : CrossRank(graph[r], k)}})

Reduce ==
    /\ ~fatal /\ \A r \in Rank : pc[r] = "reduce"
    /\ minPart' = IF Rank = {0} THEN MaxTime
                  ELSE Least({LocalMinPart(r) : r \in {q \in Rank : Builds(q)}} \cup {MaxTime})
    /\ pc' = [r \in Rank |-> CASE Rank = {0} -> "threads"
                              [] Parallel -> "send"
                              [] r = 0 -> "split"
                              [] OTHER -> "receive"]
    /\ UNCHANGED <<job, fatal, graph, mine, parcel, partner, mail, wiring>>

-----------------------------------------------------------------------------
(***************************************************************************)
(* Distribution of a graph that rank 0 has built.  Who has the graph of    *)
(* several ranks sends the upper half of them, with their graph, to the    *)
(* first of that half, until only its own is left.                         *)
(***************************************************************************)
UpperHalf(set) == {r \in set : Cardinality({q \in set : q < r}) >= Cardinality(set) \div 2}

Split(r) ==
    /\ ~fatal /\ pc[r] = "split"
    /\ IF Cardinality(mine[r]) = 1
       THEN Goto(r, "threads") /\ UNCHANGED <<graph, mine, parcel>>
       ELSE LET yours == UpperHalf(mine[r])
            IN  /\ Goto(r, "pass")
                /\ mine' = [mine EXCEPT ![r] = @ \ yours]
                /\ parcel' = [parcel EXCEPT ![r] = [ranks |-> yours, graph |-> SplitGraph(graph[r], yours)]]
                /\ graph' = [graph EXCEPT ![r] = SplitGraph(@, mine[r] \ yours)]
    /\ UNCHANGED <<job, fatal, minPart, partner, mail, wiring>>

(* Comms::send blocks until the receiver, which takes any source, is there. *)
Pass(r, s) ==
    /\ ~fatal /\ pc[r] = "pass" /\ s = Least(parcel[r].ranks)
    /\ pc[s] = "receive"
    /\ pc' = [pc EXCEPT ![r] = "split", ![s] = "split"]
    /\ mine' = [mine EXCEPT ![s] = parcel[r].ranks]
    /\ graph' = [graph EXCEPT ![s] = parcel[r].graph]
    /\ UNCHANGED <<job, fatal, minPart, parcel, partner, mail, wiring>>

-----------------------------------------------------------------------------
(* Mutant of Round: the last round of an even number of ranks is left out. *)
RoundNoLast(p) ==
    LET n == Cardinality(Rank)
        send == (p.send + 1) % n
        recv == (p.recv + n - 1) % n
    IN  IF send = p.recv \/ send = recv THEN [p EXCEPT !.over = TRUE]
        ELSE [p EXCEPT !.send = send, !.recv = recv]

(***************************************************************************)
(* The exchange of ids of a parallel load: every rank sends to the ranks   *)
(* that follow it, up to half way round, and receives from those before    *)
(* it; who is sent the id of a link takes it.  Links are matched by name,  *)
(* in the order of remote rank and name.                                   *)
(***************************************************************************)
Round(p) ==
    LET n == Cardinality(Rank)
        send == (p.send + 1) % n
        recv == (p.recv + n - 1) % n
    IN  IF send = p.recv THEN [p EXCEPT !.over = TRUE]
        ELSE IF send # recv THEN [p EXCEPT !.send = send, !.recv = recv]
        ELSE IF send >= n \div 2 THEN [send |-> send, recv |-> NoRank, last |-> TRUE, over |-> FALSE]
        ELSE [send |-> NoRank, recv |-> recv, last |-> TRUE, over |-> FALSE]

LinkVector(r) ==
    SetToSortSeq({l \in graph[r].links : l.nonlocal},
                 LAMBDA a, b : \/ a.comp[2] < b.comp[2]
                               \/ a.comp[2] = b.comp[2] /\ a.name < b.name)

SendIds(r) ==
    /\ ~fatal /\ pc[r] = "send"
    /\ LET p == IF partner[r].last THEN [partner[r] EXCEPT !.over = TRUE] ELSE Round(partner[r])
           links == SelectSeq(LinkVector(r), LAMBDA l : l.comp[2] = p.send)
       IN  /\ partner' = [partner EXCEPT ![r] = p]
           /\ Goto(r, IF p.over THEN "agreed" ELSE "recv")
           /\ mail' = IF p.over \/ p.send = NoRank THEN mail
                      ELSE mail \cup {[from |-> r, to |-> p.send, links |->
                                        [i \in DOMAIN links |-> <<links[i].name, links[i].id>>]]}
    /\ UNCHANGED <<job, fatal, graph, minPart, mine, parcel, wiring>>

(***************************************************************************)
(* The links received are compared one by one with those from recv_lower   *)
(* on.  The iterator does not stop at the last link to that rank: only the *)
(* name keeps it from taking the link to another.                          *)
(***************************************************************************)
ReceiveIds(r) ==
    /\ ~fatal /\ pc[r] = "recv" /\ partner[r].recv # NoRank
    /\ \E m \in mail :
        /\ m.from = partner[r].recv /\ m.to = r
        /\ LET v == LinkVector(r)
               from == {i \in DOMAIN v : v[i].comp[2] = m.from}
               lower == IF from = {} THEN Len(v) + 1 ELSE Least(from)
               n == Len(m.links)
               At(i) == lower + i - 1
               Matches == \A i \in 1..n : At(i) <= Len(v) /\ v[At(i)].name = m.links[i][1]
               Complete == \A i \in from : i < At(n + 1)
           IN  IF Matches /\ Complete
               THEN /\ graph' = [graph EXCEPT ![r].links =
                            {IF \E i \in 1..n : v[At(i)] = l
                             THEN [l EXCEPT !.id = m.links[CHOOSE i \in 1..n : v[At(i)] = l][2]]
                             ELSE l : l \in @}]
                    /\ UNCHANGED fatal
               ELSE fatal' = TRUE /\ UNCHANGED graph
        /\ mail' = mail \ {m}
    /\ Goto(r, "wait")
    /\ UNCHANGED <<job, minPart, mine, parcel, partner, wiring>>

(* MPI_Waitall: the send completes when it has been received. *)
WaitIds(r) ==
    /\ ~fatal
    /\ pc[r] = "wait" \/ (pc[r] = "recv" /\ partner[r].recv = NoRank)
    /\ \A m \in mail : m.from # r
    /\ Goto(r, "send")
    /\ UNCHANGED <<job, fatal, loading, wiring>>

(* resortLinkMap, and the barrier. *)
Agreed ==
    /\ ~fatal /\ \A r \in Rank : pc[r] = "agreed"
    /\ pc' = [r \in Rank |-> "threads"]
    /\ UNCHANGED <<job, fatal, loading, wiring>>

-----------------------------------------------------------------------------
(***************************************************************************)
(* The threads.  processGraphInfo finds the lookahead from the links of    *)
(* the rank that end at two of its threads.                                *)
(***************************************************************************)
CrossThread(g, l) == ~l.nonlocal /\ RankInfo(g, l, 1) # RankInfo(g, l, 2)

ProcessGraphInfo(r, t) ==
    /\ ~fatal /\ pc[r] = "threads" /\ tpc[<<r, t>>] = "process"
    /\ tpc' = [tpc EXCEPT ![<<r, t>>] = "processed"]
    /\ lookahead' = [lookahead EXCEPT ![<<r, t>>] = [u \in Thread |->
            Least({MaxTime} \cup {GetMinLatency(l) : l \in {k \in graph[r].links :
                CrossThread(graph[r], k) /\ {RankInfo(graph[r], k, 1), RankInfo(graph[r], k, 2)}
                                             = {<<r, t>>, <<r, u>>}}})]]
    /\ UNCHANGED <<job, fatal, pc, loading, todo, ends, waiting, linkMap, linkMaps>>

(* The barrier: by now every thread has its SyncManager. *)
GraphProcessed(r) ==
    /\ ~fatal /\ \A t \in Thread : tpc[<<r, t>>] = "processed"
    /\ tpc' = [p \in Place |-> IF p[1] = r THEN "prepare" ELSE tpc[p]]
    /\ todo' = [p \in Place |-> IF p[1] = r THEN graph[r].links ELSE todo[p]]
    /\ UNCHANGED <<job, fatal, pc, loading, ends, waiting, linkMap, linkMaps, lookahead>>

(***************************************************************************)
(* prepareLinks, one link.  An end is what a component sends through: its  *)
(* key tells the objects apart, to is the place whose queue the events go  *)
(* to, and peer the end that they arrive at, None as long as that is not   *)
(* known.                                                                  *)
(***************************************************************************)
None == <<>>
Before(a, b) == a.id[1] < b.id[1] \/ (a.id[1] = b.id[1] /\ a.id[2] < b.id[2])
NextLink(p) == CHOOSE l \in todo[p] : \A k \in todo[p] \ {l} : Before(l, k)

Key(p, l, i) == <<p, l.id, i>>
End(p, l, i, to, peer) ==
    [key |-> Key(p, l, i), comp |-> l.comp[i], port |-> l.port[i], lat |-> l.lat[i],
     to |-> to, peer |-> peer]
Joined(es, key, peer) ==
    {IF e.key = key THEN [e EXCEPT !.peer = peer] ELSE e : e \in es}

SameThread(p, l) ==
    /\ ends' = ends \cup
         (IF l.comp[1] = l.comp[2] /\ l.port[1] = l.port[2]
          THEN {End(p, l, 1, p, Key(p, l, 1))}
          ELSE {End(p, l, 1, p, Key(p, l, 2)), End(p, l, 2, p, Key(p, l, 1))})
    /\ UNCHANGED <<waiting, linkMap, linkMaps>>

(* --interthread-links: who comes second finds the other one in the map. *)
DirectLink(p, l, i, q) ==
    LET other == {k \in waiting[p[1]] : k[2] = l.id}
        mine1 == End(p, l, i, q, None)
    IN  /\ IF other = {}
           THEN /\ waiting' = [waiting EXCEPT ![p[1]] = @ \cup {mine1.key}]
                /\ ends' = ends \cup {mine1}
           ELSE LET k == CHOOSE x \in other : TRUE
                IN  /\ waiting' = [waiting EXCEPT ![p[1]] = @ \ {k}]
                    /\ ends' = Joined(ends, k, mine1.key) \cup {[mine1 EXCEPT !.peer = k]}
        /\ UNCHANGED <<linkMap, linkMaps>>

(***************************************************************************)
(* A link to another thread goes into the link_map of both ThreadSyncs;    *)
(* of the two that register with one of them the second one completes the  *)
(* local end of it.                                                        *)
(***************************************************************************)
ThreadLink(p, l, i, q) ==
    LET key == Key(p, l, i)
        here == {k \in linkMap[p] : k[2] = l.id}
        there == {k \in linkMap[q] : k[2] = l.id}
        peer == IF here = {} THEN None ELSE CHOOSE k \in here : TRUE
        Meet(map, found) == IF found = {} THEN map \cup {key} ELSE map \ found
        mine1 == End(p, l, i, q, peer)
    IN  /\ linkMap' = [linkMap EXCEPT ![p] = Meet(@, here), ![q] = Meet(@, there)]
        /\ ends' = (IF there = {} THEN ends
                    ELSE Joined(ends, CHOOSE k \in there : TRUE, key)) \cup {mine1}
        /\ UNCHANGED <<waiting, linkMaps>>

RankLink(p, l, i, q) ==
    /\ linkMaps' = [linkMaps EXCEPT ![p[1]][q[1]] = @ \cup {Key(p, l, i)}]
    /\ ends' = ends \cup {End(p, l, i, q, None)}
    /\ UNCHANGED <<waiting, linkMap>>

PrepareLink(p) ==
    /\ ~fatal /\ tpc[p] = "prepare" /\ todo[p] # {}
    /\ LET l == NextLink(p)
           at == <<RankInfo(graph[p[1]], l, 1), RankInfo(graph[p[1]], l, 2)>>
           local == IF at[1] = p THEN 1 ELSE 2
           q == at[3 - local]
       IN  /\ todo' = [todo EXCEPT ![p] = @ \ {l}]
           /\ CASE at[1] # p /\ at[2] # p -> UNCHANGED <<ends, waiting, linkMap, linkMaps>>
                [] at[1] = at[2] -> SameThread(p, l)
                [] OTHER -> IF at[1][1] # at[2][1] THEN RankLink(p, l, local, q)
                            ELSE IF job.direct THEN DirectLink(p, l, local, q)
                            ELSE ThreadLink(p, l, local, q)
    /\ UNCHANGED <<job, fatal, pc, loading, tpc, lookahead>>

(* performWireUp creates the components; then the threads meet. *)
PerformWireUp(r) ==
    /\ ~fatal /\ \A t \in Thread : tpc[<<r, t>>] = "prepare" /\ todo[<<r, t>>] = {}
    /\ tpc' = [p \in Place |-> IF p[1] = r THEN "wired" ELSE tpc[p]]
    /\ Goto(r, "exchange")
    /\ partner' = [partner EXCEPT ![r] = [with |-> IF r = 0 THEN 1 ELSE 0]]
    /\ UNCHANGED <<job, fatal, graph, minPart, mine, parcel, mail, todo, ends, waiting,
                   linkMap, linkMaps, lookahead>>

-----------------------------------------------------------------------------
(***************************************************************************)
(* RankSync::exchangeLinkInfo: thread 0 of every rank goes through the     *)
(* other ranks in order.  The lower of two sends first and the higher      *)
(* receives first, so the exchange takes place when both are at it.        *)
(***************************************************************************)
IdsOf(keys) == {k[2] : k \in keys}

ExchangeLinkInfo(r, s) ==
    /\ ~fatal /\ r < s
    /\ pc[r] = "exchange" /\ pc[s] = "exchange"
    /\ partner[r].with = s /\ partner[s].with = r
    /\ LET low == linkMaps[r][s]
           high == linkMaps[s][r]
           Other(k, keys) == CHOOSE x \in keys : x[2] = k[2]
       IN  IF IdsOf(low) = IdsOf(high)
           THEN /\ ends' = {IF e.key \in low THEN [e EXCEPT !.peer = Other(e.key, high)]
                            ELSE IF e.key \in high THEN [e EXCEPT !.peer = Other(e.key, low)]
                            ELSE e : e \in ends}
                /\ UNCHANGED fatal
           ELSE fatal' = TRUE /\ UNCHANGED ends
    /\ partner' = [partner EXCEPT ![r].with = IF @ + 1 = r THEN @ + 2 ELSE @ + 1,
                                 ![s].with = IF @ + 1 = s THEN @ + 2 ELSE @ + 1]
    /\ UNCHANGED <<job, pc, graph, minPart, mine, parcel, mail, tpc, todo, waiting, linkMap,
                   linkMaps, lookahead>>

InfoExchanged(r) ==
    /\ ~fatal /\ pc[r] = "exchange" /\ partner[r].with \notin Rank
    /\ Goto(r, "run")
    /\ UNCHANGED <<job, fatal, loading, wiring>>

(* The job goes on to its untimed phases, or is aborted. *)
Ended ==
    /\ fatal \/ \A r \in Rank : pc[r] = "run"
    /\ UNCHANGED vars

-----------------------------------------------------------------------------
PossibleJobs ==
    {j \in [world : Worlds, load : {"serial", "nonlocal", "ghost"}, partitioner : Partitioners,
            script : Scripts, set : Placements, fault : Faults, faulty : 0..3, direct : Direct] :
        /\ j.partitioner # "self" => j.load = "serial" /\ j.set = [c \in Comp |-> <<0, 0>>]
        /\ j.load # "serial" => /\ j.partitioner = "self" /\ j.world[1] > 1
                                /\ \A i \in DOMAIN j.script : j.script[i].comp[2] # Unset
                                /\ \A c \in Comp : j.set[c] \in (0..(j.world[1] - 1)) \X (0..(j.world[2] - 1))
        /\ j.direct => j.world[2] > 1
        /\ j.fault # "none" => j.load = "nonlocal"
        /\ j.faulty \in 0..(j.world[1] - 1) /\ (j.fault = "none" => j.faulty = 0)}

Init ==
    /\ job \in PossibleJobs
    /\ fatal = FALSE
    /\ pc = [r \in Rank |-> "load"]
    /\ graph = [r \in Rank |-> EmptyGraph]
    /\ minPart = 0
    /\ mine = [r \in Rank |-> IF r = 0 THEN Rank ELSE {}]
    /\ parcel = [r \in Rank |-> [ranks |-> {}, graph |-> EmptyGraph]]
    /\ partner = [r \in Rank |-> [send |-> r, recv |-> r, last |-> FALSE, over |-> FALSE]]
    /\ mail = {}
    /\ tpc = [p \in Place |-> "process"]
    /\ todo = [p \in Place |-> {}]
    /\ ends = {}
    /\ waiting = [r \in Rank |-> {}]
    /\ linkMap = [p \in Place |-> {}]
    /\ linkMaps = [r \in Rank |-> [s \in Rank |-> {}]]
    /\ lookahead = [p \in Place |-> [t \in Thread |-> MaxTime]]

Next ==
    \/ \E r \in Rank : \/ Load(r) \/ RunPartitioner(r) \/ Split(r) \/ SendIds(r) \/ ReceiveIds(r)
                       \/ WaitIds(r) \/ GraphProcessed(r) \/ PerformWireUp(r) \/ InfoExchanged(r)
    \/ \E r, s \in Rank : Pass(r, s) \/ ExchangeLinkInfo(r, s)
    \/ \E r \in Rank, t \in Thread : ProcessGraphInfo(r, t) \/ PrepareLink(<<r, t>>)
    \/ Reduce \/ Agreed \/ Ended

Spec == Init /\ [][Next]_vars

-----------------------------------------------------------------------------
Done == ~fatal /\ \A r \in Rank : pc[r] = "run"

(* What the model description says: the ends of link i and their latency. *)
LatencyOf(s, k) == IF s.given[k] # 0 THEN s.given[k] ELSE s.default
PlaceSet == [c \in Comp |-> IF Parallel THEN job.set[c]
                ELSE PerformPartition(job.partitioner, Comp, Whole(0), job.set, job.world)[c]]

(***************************************************************************)
(* When the job starts to run, every link of the model description has its *)
(* two ends, each once, at the place of its component, on the port and     *)
(* with the latency that were asked for; what is sent through one goes to  *)
(* the queue of the thread of the other and arrives there.                 *)
(***************************************************************************)
EndsMeet ==
    Done =>
        /\ \A i \in DOMAIN Script :
            LET s == Script[i]
                Is(e, k) == /\ e.key[1] = PlaceSet[s.comp[k]] /\ e.comp = s.comp[k]
                            /\ e.port = PortOf(s, k) /\ e.lat = LatencyOf(s, k)
                            /\ e.to = PlaceSet[s.comp[3 - k]]
            IN  \E e, f \in ends : Is(e, 1) /\ Is(f, 2) /\ e.peer = f.key /\ f.peer = e.key
        /\ Cardinality(ends) = Cardinality({<<i, k>> \in (DOMAIN Script) \X {1, 2} :
                                    k = 1 \/ ~Script[i].loopback})
        /\ \A r \in Rank : waiting[r] = {}
        /\ \A p \in Place : linkMap[p] = {}

(***************************************************************************)
(* The lookahead the syncs work with is no longer than any link between    *)
(* two of the partitions, in either direction.                             *)
(***************************************************************************)
LookaheadHolds ==
    Done => \A e \in ends :
        LET p == e.key[1]
        IN  CASE p = e.to -> TRUE
              [] p[1] # e.to[1] -> minPart <= e.lat
              [] OTHER -> lookahead[p][e.to[2]] <= e.lat /\ lookahead[e.to][p[2]] <= e.lat

(* No partitioner cuts a link that must not be cut. *)
NoCutKept ==
    (Done /\ job.partitioner # "self") =>
        \A e \in ends : Script[e.key[2][2]].noCut => e.to = e.key[1]

(***************************************************************************)
(* A rank that loads in parallel and is mistaken about a link to another   *)
(* rank stops the job before it runs; without mistake nothing does.        *)
(***************************************************************************)
MistakesAreFatal ==
    /\ Done => ~FaultMatters
    /\ fatal => \/ FaultMatters
                \/ \E i \in DOMAIN Script : Connect(0, i, Script[i]).bad \/ Script[i].comp[2] = Unset
                \/ job.partitioner = "self" /\ \E c \in Comp : job.set[c] \notin Place

(* Every end of a link has the latency of the call or of the creation of the link. *)
LatencyAssigned == \A e \in ends : e.lat > 0
=============================================================================
