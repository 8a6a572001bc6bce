CONSTANTS
    a = a  b = b  a0 = a0  a1 = a1  b0 = b0  b1 = b1
    Ranks = {a}
    Part <- TwoThreads
    RankOf <- MCRankOf
    Latency <- NearThreads
    MaxTime = 20
    StopAt = 6
    CkptPeriod = 0
    DirectLinks = TRUE
    SetupEvents <- EarlyEvents
    MaxDelay = 0
    MaxPending = 3
SPECIFICATION Spec
INVARIANTS NoTimeFault
