---------------------------- MODULE MCThreadShared ----------------------------
(***************************************************************************)
(* What threads and processes share, for TLC: the Barrier and the          *)
(* BoundedQueue without a lock, the end time in Exit, the memory pools,    *)
(* the work of an exchange between ranks, and the tunnel to other          *)
(* processes.  They do not interact, so a behaviour exercises one of them  *)
(* and leaves the others as they are.                                      *)
(***************************************************************************)
EXTENDS Barrier, BoundedQueue, Exit, MemPool, Tunnel, RankExchange

VARIABLE part       \* what this behaviour is about

(* Both threads of rank 1 have links to rank 0, where only thread 1 has links. *)
MCLinked == {<<0, <<1, 0>>>>, <<0, <<1, 1>>>>, <<1, <<0, 1>>>>}

allvars == <<part, vars, queueVars, exitVars, poolVars, tunnelVars, exchangeVars>>

Lay(r, t, l) == [ranks |-> r, threads |-> t, links |-> l]

(* All but independent threads on several ranks, see MCIndependent. *)
MCLayouts ==
    {Lay(1, 1, "none"), Lay(1, 2, "none"), Lay(1, 2, "threads"), Lay(2, 1, "none"),
     Lay(2, 1, "ranks"), Lay(2, 2, "threads"), Lay(2, 2, "ranks")}
MCIndependent == {Lay(2, 2, "none")}

(* The first state of the parts that are not exercised. *)
QueueIdle == dsize = 1 /\ QueueInit
ExitIdle ==
    /\ ExitInit /\ stopAt = 0
    /\ layout = Lay(1, 1, "none")

MCInit ==
    /\ Init /\ PoolInit /\ TunnelInit /\ ExchangeInit
    /\ \/ part \in {"barrier", "pool", "tunnel", "exchange"} /\ QueueIdle /\ ExitIdle
       \/ part = "queue" /\ QueueInit /\ ExitIdle
       \/ part = "exit" /\ QueueIdle /\ ExitInit

MCNext ==
    /\ UNCHANGED part
    /\ IF part = "barrier" THEN Next ELSE UNCHANGED vars
    /\ IF part = "queue" THEN QueueNext ELSE UNCHANGED queueVars
    /\ IF part = "exit" THEN ExitNext ELSE UNCHANGED exitVars
    /\ IF part = "pool" THEN PoolNext ELSE UNCHANGED poolVars
    /\ IF part = "tunnel" THEN TunnelNext ELSE UNCHANGED tunnelVars
    /\ IF part = "exchange" THEN ExchangeNext ELSE UNCHANGED exchangeVars

(* Fairness of the part that is exercised, see Barrier and RankExchange. *)
Barriers(A) == part = "barrier" /\ A
Exchanging(A) == part = "exchange" /\ A

MCSpec ==
    /\ MCInit /\ [][MCNext]_allvars
    /\ WF_vars(Barriers(Resize /\ ~enabled)) /\ \A t \in Thread : WF_vars(Barriers(Wait(t)))
    /\ \A r \in Rank :
          /\ WF_exchangeVars(Exchanging(StepOfMaster(r)))
          /\ WF_exchangeVars(Exchanging(StepOfRank(r)))
          /\ \A t \in RankThread : WF_exchangeVars(Exchanging(StepOf(r, t)))
    /\ WF_exchangeVars(Exchanging(Reduce))

-----------------------------------------------------------------------------
(* Every thread gets through every round of a barrier, see EveryRoundEnds in *)
(* Barrier, and no thread spins for work for ever in an exchange, see        *)
(* ExchangesEnd in RankExchange.                                             *)
RoundsEnd == (part = "barrier" => EveryRoundEnds) /\ (part = "exchange" => ExchangesEnd)
=============================================================================
