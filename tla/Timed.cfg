SPECIFICATION MCSpec
CONSTANTS
    Clocks = {"fast", "slow", "late"}
    Period <- MCPeriod
    Priority <- MCPriority
    h1 = h1 h2 = h2 h3 = h3
    Handlers = {h1, h2, h3}
    EventPriority = 50
    SelfChange = FALSE
    MaxTime = 3
    Stats = {s1, s2}
    Configs <- MCConfigs
    GroupRate = 2
    MinValue = 2
    BinWidth = 2
    NumBins = 2
    Data <- MCData
    CheckpointTimes = {2}
    LastTime = 3
    MaxCalls = 2
    MaxRestarts = 1
    Kinds <- MCKinds
    Saved <- MCSaved
    Prio <- MCPrio
    Window = 2
    LastSync = 4
    MaxEvents = 3
SYMMETRY TimedSymmetry
INVARIANTS Bookkeeping CycleIsTime EveryHandlerCalled NextCycleIsKept
    CollectedExactly WrittenOnTime VortexKept
