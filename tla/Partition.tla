------------------------------ MODULE Partition ------------------------------
(***************************************************************************)
(* The built-in partitioners: which rank and thread every component of the *)
(* graph goes to.  Components are the numbers 0 .. n-1, a link is a record *)
(* with the components at its ends, their latencies and noCut.             *)
(*                                                                         *)
(* The linear, the round robin and the simple partitioner do not see the   *)
(* graph but the collapsed one, in which the components that no-cut links  *)
(* connect are one PartitionComponent.                                     *)
(***************************************************************************)
EXTENDS Integers, Sequences, FiniteSets, SequencesExt

Ends(link) == {link.comp[1], link.comp[2]}
MinLatency(lat) == IF lat[1] < lat[2] THEN lat[1] ELSE lat[2]

-----------------------------------------------------------------------------
(* Mutant of NoCutGroup: only the neighbours, not theirs. *)
NoCutNeighbours(start, group, links) ==
    group \cup {start} \cup UNION {Ends(l) : l \in {k \in links : k.noCut /\ start \in Ends(k)}}

(* getConnectedNoCutComps: depth first, along the no-cut links. *)
RECURSIVE NoCutGroup(_, _, _)
NoCutGroup(start, group, links) ==
    LET next == UNION {Ends(l) : l \in {k \in links : k.noCut /\ start \in Ends(k)}}
    IN  FoldLeft(LAMBDA g, c : IF c \in g THEN g ELSE NoCutGroup(c, g, links),
                 group \cup {start}, SetToSortSeq(next, <))

(***************************************************************************)
(* getCollapsedPartitionGraph: a component that is in the group of an      *)
(* earlier one is skipped, so the groups come in the order of their least  *)
(* component.  A link within a group is deleted; the others lead from one  *)
(* group to another.                                                       *)
(***************************************************************************)
Groups(comps, links) ==
    FoldLeft(LAMBDA gs, c : IF \E i \in DOMAIN gs : c \in gs[i] THEN gs
                            ELSE Append(gs, NoCutGroup(c, {}, links)),
             <<>>, SetToSortSeq(comps, <))

GroupOf(gs, c) == CHOOSE i \in DOMAIN gs : c \in gs[i]

CollapsedLinks(gs, links) ==
    {[l EXCEPT !.comp = <<GroupOf(gs, l.comp[1]), GroupOf(gs, l.comp[2])>>] :
        l \in {k \in links : GroupOf(gs, k.comp[1]) # GroupOf(gs, k.comp[2])}}

-----------------------------------------------------------------------------
(***************************************************************************)
(* SSTLinearPartition: equally many to every thread, in order, and one     *)
(* more to the first ones until the remainder is used up.  The extra one   *)
(* is taken from the iterator within the step of the one before.           *)
(***************************************************************************)
Linear(n, world) ==
    LET places == world[1] * world[2]
        perRank == n \div places
        Advance(s) == [s EXCEPT !.place = @ + 1, !.on = 0, !.extra = FALSE]
        Take(s, i) ==
            LET t == [s EXCEPT !.out = Append(@, s.place)]
            IN  IF t.extra THEN Advance(t)
                ELSE IF t.on + 1 < perRank THEN [t EXCEPT !.on = @ + 1]
                ELSE IF t.rem > 0 THEN [t EXCEPT !.rem = @ - 1, !.extra = TRUE]
                ELSE Advance(t)
        out == FoldLeft(Take, [place |-> 0, on |-> 0, extra |-> FALSE, out |-> <<>>,
                               rem |-> IF perRank = 0 THEN 0 ELSE n % places],
                        [i \in 1..n |-> i]).out
    IN  [i \in 1..n |-> <<out[i] \div world[2], out[i] % world[2]>>]

(* SSTRoundRobinPartition: ranks first, then threads. *)
RoundRobin(n, world) ==
    [i \in 1..n |-> <<(i - 1) % world[1], ((i - 1) \div world[1]) % world[2]>>]

-----------------------------------------------------------------------------
(***************************************************************************)
(* SimplePartitioner: two halves, by parity; every pair of elements is     *)
(* swapped if that does not lower the latency of the links from the first  *)
(* half to the second; then each half is divided again as long as there is *)
(* a part left for it, the step doubling the distance of the part numbers. *)
(***************************************************************************)
Half(s, parity) ==
    [i \in 1..((Len(s) + 1 - parity) \div 2) |-> s[2 * i - 1 + parity]]

(* compConnectMap: from a group to the component_[1] of each of its links. *)
(* Of several links between the same groups insert keeps the first; here it *)
(* is the one of the least name.                                           *)
TimeTable(links) ==
    [p \in {<<g, l.comp[2]>> : g \in UNION {Ends(l) : l \in links}, l \in links} |->
        LET ls == {l \in links : p[1] \in Ends(l) /\ l.comp[2] = p[2]}
        IN  IF ls = {} THEN 0
            ELSE MinLatency((CHOOSE l \in ls : \A k \in ls : l.name <= k.name).lat)]

Cost(a, b, table) ==
    FoldSet(LAMBDA p, sum : sum + table[p], 0,
            {p \in DOMAIN table : p[1] \in ToSet(a) /\ p[2] \in ToSet(b)})

Improved(a, b, table) ==
    FoldLeft(LAMBDA s, k :
        LET i == (k - 1) \div Len(b) + 1
            j == ((k - 1) % Len(b)) + 1
            t == [a |-> [s.a EXCEPT ![i] = s.b[j]], b |-> [s.b EXCEPT ![j] = s.a[i]]]
        IN  IF Cost(t.a, t.b, table) >= Cost(s.a, s.b, table) THEN t ELSE s,
        [a |-> a, b |-> b], [k \in 1..(Len(a) * Len(b)) |-> k])

RECURSIVE SimpleStep(_, _, _, _, _, _, _)
SimpleStep(part, a, rankA, b, rankB, table, step) ==
    LET s == Improved(a, b, table.cost)
        put == [g \in DOMAIN part |->
                    IF g \in ToSet(s.a) THEN rankA ELSE IF g \in ToSet(s.b) THEN rankB ELSE part[g]]
        Divide(p, half, r) ==
            IF r + 2 ^ step < table.parts
            THEN SimpleStep(p, Half(half, 0), r, Half(half, 1), r + 2 ^ step, table, step + 1)
            ELSE p
    IN  Divide(Divide(put, s.a, rankA), s.b, rankB)

Simple(n, world, links) ==
    LET parts == world[1] * world[2]
        all == [i \in 1..n |-> i]
        part == IF parts = 1 THEN [i \in 1..n |-> 0]
                ELSE SimpleStep([i \in 1..n |-> 0], Half(all, 0), 0, Half(all, 1), 1,
                                [cost |-> TimeTable(links), parts |-> parts], 1)
    IN  [i \in 1..n |-> <<part[i] \div world[2], part[i] % world[2]>>]

-----------------------------------------------------------------------------
(***************************************************************************)
(* start_partitioning.  "single" and "self" see the graph itself, the      *)
(* latter leaves what the model description has set; annotateRanks gives   *)
(* every component of a group the place of the group.                      *)
(***************************************************************************)
PerformPartition(partitioner, comps, links, set, world) ==
    LET gs == Groups(comps, links)
        n == Len(gs)
        places == CASE partitioner = "linear" -> Linear(n, world)
                    [] partitioner = "roundrobin" -> RoundRobin(n, world)
                    [] partitioner = "simple" -> Simple(n, world, CollapsedLinks(gs, links))
    IN  CASE partitioner = "self" -> set
          [] partitioner = "single" \/ world = <<1, 1>> -> [c \in comps |-> <<0, 0>>]
          [] OTHER -> [c \in comps |-> places[GroupOf(gs, c)]]
=============================================================================
