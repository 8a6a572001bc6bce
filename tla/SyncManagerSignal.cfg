SPECIFICATION Spec
CONSTANTS
    RankCount = 1
    ThreadCount = 2
    Ranks <- MCRanks
    Part <- MCPart
    RankOf <- MCRankOf
    Master <- MCMaster
    Primaries <- AllPrimaries
    Signals = {"end"}
    Handler <- MCHandler
    ThreadLinks = FALSE
    Interactive = FALSE
    CkptPeriod = TRUE
    ThreadSyncs <- NoThreadSyncs
    MaxRequests = 1
PROPERTY SignalsReachSync
CHECK_DEADLOCK FALSE
