SPECIFICATION FairSpec
CONSTANTS
    RankCount = 2
    ThreadCount = 2
    Ranks <- MCRanks
    Part <- MCPart
    RankOf <- MCRankOf
    Master <- MCMaster
    Primaries <- LastPrimary
    Signals = {"end"}
    Handler <- MCHandler
    ThreadLinks = TRUE
    Interactive = TRUE
    CkptPeriod = FALSE
    ThreadSyncs <- MCThreadSyncs
    MaxRequests = 1
INVARIANTS SyncInv
PROPERTIES StopIsHonoured
