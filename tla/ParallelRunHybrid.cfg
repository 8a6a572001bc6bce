CONSTANTS
    a = a  b = b  a0 = a0  a1 = a1  b0 = b0  b1 = b1
    Ranks = {a, b}
    Part <- FourParts
    RankOf <- MCRankOf
    Latency <- MixedLatency
    MaxTime = 20
    StopAt = 4
    CkptPeriod = 0
    DirectLinks = FALSE
    SetupEvents <- OneEvent
    MaxDelay = 0
    MaxPending = 2
SPECIFICATION Spec
INVARIANTS IndInv
