SPECIFICATION StatSpec
CONSTANTS
    Stats = {s1, s2}
    Configs <- MCConfigs
    GroupRate = 2
    MinValue = 2
    BinWidth = 2
    NumBins = 2
    Data <- MCData
    CheckpointTimes = {1}
    LastTime = 3
    MaxCalls = 2
    MaxRestarts = 1
SYMMETRY StatSymmetry
INVARIANT CollectedExactly
