SPECIFICATION FairSpec
CONSTANTS
    RankCount = 1
    ThreadCount = 2
    Ranks <- MCRanks
    Part <- MCPart
    RankOf <- MCRankOf
    Master <- MCMaster
    Primaries <- AllPrimaries
    Signals = {"end", "usr", "alrm"}
    Handler <- MCHandler
    ThreadLinks = TRUE
    Interactive = TRUE
    CkptPeriod = TRUE
    ThreadSyncs <- NoThreadSyncs
    MaxRequests = 2
INVARIANTS NoDataRace
PROPERTIES CheckpointOnRequest SignalsReachSync RequestsServed
