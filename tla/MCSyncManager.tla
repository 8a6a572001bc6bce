---------------------------- MODULE MCSyncManager ----------------------------
(* SyncManager for TLC: threads are named by their rank and their number. *)
EXTENDS SyncManager

CONSTANTS RankCount, ThreadCount

MCRanks == 0 .. RankCount - 1
MCPart == MCRanks \X (0 .. ThreadCount - 1)
MCRankOf == [p \in MCPart |-> p[1]]
MCMaster == [r \in MCRanks |-> <<r, 0>>]

(* All threads have a primary component, or only the last one. *)
AllPrimaries == MCPart
LastPrimary == {<<RankCount - 1, ThreadCount - 1>>}

(* Rank 0 does one THREAD sync between two RANK syncs, the others none. *)
MCThreadSyncs == [r \in MCRanks |-> IF r = 0 THEN 1 ELSE 0]
NoThreadSyncs == [r \in MCRanks |-> 0]

(* SIGINT ends, SIGUSR1 writes a checkpoint, the alarm opens the console. *)
MCHandler == [end |-> "exit", usr |-> "checkpoint", alrm |-> "interactive"]
=============================================================================
