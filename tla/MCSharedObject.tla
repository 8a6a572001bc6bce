---------------------------- MODULE MCSharedObject ----------------------------
(***************************************************************************)
(* UntimedPhase and SharedObject for TLC: rank 0 has two threads, rank 1   *)
(* one.  There are links inside a thread, between the threads and between  *)
(* the ranks.  To keep the two state spaces from multiplying, components   *)
(* either send untimed data or use shared objects.                         *)
(***************************************************************************)
EXTENDS SharedObject

VARIABLE usage      \* "links" or "objects", for a whole behaviour

MCRanks == {0, 1}
MCPart == {<<0, 0>>, <<0, 1>>, <<1, 0>>}
MCRankOf == [p \in MCPart |-> p[1]]
MCMaster == [r \in MCRanks |-> <<r, 0>>]
MCLinks == {<<<<0, 0>>, <<0, 0>>>>, <<<<0, 0>>, <<0, 1>>>>, <<<<0, 1>>, <<1, 0>>>>,
            <<<<1, 0>>, <<0, 0>>>>}
MCSharers == {<<0, 1>>, <<1, 0>>}

MCInit == SharedInit /\ usage \in {"links", "objects"}

(* With objects a behaviour ends after setup(): they change no more. *)
MCNext ==
    \/ /\ SharedNext
       /\ usage = "links" => instance' = instance
       /\ usage = "objects" => queue' = queue /\ box' = box /\ stage' = stage
       /\ UNCHANGED usage
    \/ usage = "objects" /\ (\A p \in Part : pc[p] = "run") /\ UNCHANGED <<allvars, usage>>

MCSpec == MCInit /\ [][MCNext]_<<allvars, usage>> /\ SharedFairness
=============================================================================
