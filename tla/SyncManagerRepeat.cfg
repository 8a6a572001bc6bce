SPECIFICATION Spec
CONSTANTS
    RankCount = 2
    ThreadCount = 1
    Ranks <- MCRanks
    Part <- MCPart
    RankOf <- MCRankOf
    Master <- MCMaster
    Primaries <- AllPrimaries
    Signals = {}
    Handler <- MCHandler
    ThreadLinks = FALSE
    Interactive = TRUE
    CkptPeriod = FALSE
    ThreadSyncs <- NoThreadSyncs
    MaxRequests = 1
PROPERTY CheckpointOnRequest
