SPECIFICATION FairSpec
CONSTANTS
    RankCount = 1
    ThreadCount = 2
    Ranks <- MCRanks
    Part <- MCPart
    RankOf <- MCRankOf
    Master <- MCMaster
    Primaries <- AllPrimaries
    Signals = {}
    Handler <- MCHandler
    ThreadLinks = FALSE
    Interactive = FALSE
    CkptPeriod = TRUE
    ThreadSyncs <- NoThreadSyncs
    MaxRequests = 0
PROPERTY SyncCompletes
CHECK_DEADLOCK FALSE
