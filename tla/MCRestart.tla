----------------------------- MODULE MCRestart -----------------------------
EXTENDS Restart

L(a, b, lat, recv) == [comp |-> <<a, b>>, lat |-> lat, recv |-> recv]

(* A triangle of components, one of which is also linked to itself. *)
MCLinks == (1 :> L(0, 1, <<3, 5>>, <<0, 2>>)) @@ (2 :> L(2, 0, <<4, 4>>, <<1, 0>>))
           @@ (3 :> L(1, 2, <<7, 2>>, <<1, 1>>)) @@ (4 :> L(1, 1, <<1, 2>>, <<1, 0>>))

Blocks(world) == [c \in Comp |-> LET i == c % (world[1] * world[2])
                                 IN  <<i \div world[2], i % world[2]>>]
Pair(world) == [c \in Comp |-> IF c = 0 THEN <<0, 0>> ELSE <<world[1] - 1, world[2] - 1>>]
Together(world) == [c \in Comp |-> <<0, world[2] - 1>>]

MCWorlds == {<<1, 1>>, <<1, 2>>, <<2, 1>>, <<2, 2>>, <<3, 1>>, <<1, 3>>}

J(was, new, place, newPlace, graph) ==
    [cpt |-> was, new |-> new, place |-> place, newPlace |-> newPlace, graph |-> graph]

(* Unchanged, serial, remapped, repartitioned and refused restarts. *)
MCJobs ==
    {J(was, new, place, Blocks(new), graph) :
        was \in MCWorlds, new \in MCWorlds \cup {<<4, 1>>},
        place \in UNION {{Blocks(w), Pair(w), Together(w)} : w \in MCWorlds}, graph \in BOOLEAN}

(* Two partitions restarted as one, from whatever the registry says. *)
PartialJobs == {J(<<2, 1>>, <<1, 1>>, Blocks(<<2, 1>>), Blocks(<<1, 1>>), FALSE)}
=============================================================================
