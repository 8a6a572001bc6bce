SPECIFICATION MCSpec
CONSTANTS
    Ranks <- MCRanks
    Part <- MCPart
    RankOf <- MCRankOf
    Master <- MCMaster
    Links <- MCLinks
    StopAt = TRUE
    RunTime = 9
    PhaseLimit = 5
    MaxPhase = 2
    Sharers <- MCSharers
    Kinds = {"array", "map", "set"}
    Verify = {"FE_VERIFY", "INIT_VERIFY", "NO_VERIFY"}
    Keys = {1}
    Values = {0, 1}
    InPlace = FALSE
    MaxWrites = 2
INVARIANTS ReceivedNextRound

