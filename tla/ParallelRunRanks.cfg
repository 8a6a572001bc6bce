CONSTANTS
    a = a  b = b  a0 = a0  a1 = a1  b0 = b0  b1 = b1
    Ranks = {a, b}
    Part <- TwoRanks
    RankOf <- MCRankOf
    Latency <- EqualLatency
    MaxTime = 20
    StopAt = 6
    CkptPeriod = 3
    DirectLinks = FALSE
    SetupEvents <- EarlyEvents
    MaxDelay = 1
    MaxPending = 3
SPECIFICATION FairSpec
INVARIANTS NoTimeFault NoLateArrival CheckpointBeforeEvents
PROPERTIES CheckpointIsCut RefinesSequential Termination
