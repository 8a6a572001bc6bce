------------------------------ MODULE MCWireUp ------------------------------
EXTENDS WireUp

MCWorlds == {<<1, 2>>, <<2, 2>>, <<3, 1>>, <<4, 1>>}

L(a, b, default, given) ==
    [comp |-> <<a, b>>, default |-> default, given |-> given, noCut |-> FALSE, loopback |-> FALSE]
NoCut(l) == [l EXCEPT !.noCut = TRUE]
Loopback(l) == [l EXCEPT !.loopback = TRUE]

(* Two links between all components, latencies that differ by direction; chains *)
(* of no-cut links; links of a component with itself; faulty descriptions.     *)
MCScripts ==
    {<<L(0, c, 0, <<3, 2>>), L(d, 3, 4, <<0, 1>>)>> : c \in 1..3, d \in 0..2}
    \cup {<<NoCut(L(1, 2, 1, <<0, 0>>)), NoCut(L(3, 2, 1, <<0, 0>>)), L(0, 3, 0, <<2, 5>>)>>,
          <<L(0, 0, 1, <<0, 0>>), Loopback(L(1, 1, 1, <<0, 0>>)), L(2, 1, 3, <<0, 2>>)>>,
          <<L(0, 2, 0, <<4, 3>>), L(2, 0, 0, <<1, 3>>), L(1, 2, 5, <<0, 0>>)>>,
          <<L(0, Unset, 1, <<0, 0>>)>>,
          <<L(0, 1, 0, <<0, 2>>)>>}

(* The end of a link that gets no latency at all. *)
NoLatencyScripts == {<<L(0, 1, 0, <<2, 0>>)>>}

AllAtZero == [c \in Comp |-> <<0, 0>>]
MCPlacements ==
    {AllAtZero,
     [c \in Comp |-> <<c, 0>>],
     [c \in Comp |-> <<c % 2, c \div 2>>],
     [c \in Comp |-> <<(c + 1) % 3, 0>>]}

MCPartitioners == {"linear", "roundrobin", "simple", "single", "self"}
MCFaults == {"none", "missing", "wrong", "extra"}
=============================================================================
