SPECIFICATION MCSpec
CONSTANTS
    Jobs <- MCJobs
    Links <- MCLinks
    NumComps = 3
    Checkpoints = 2
    Partial = FALSE
    Worlds <- MCWireUpWorlds
    WComps = 4
    Scripts <- MCScripts
    Placements <- MCPlacements
    Partitioners <- MCPartitioners
    Faults <- MCFaults
    Null = Null  Root = Root  n1 = n1  n2 = n2  vec = vec
    Heaps <- MCHeaps
    AsPtrElem = FALSE
    Direct = {FALSE, TRUE}
INVARIANTS EndsMeet LookaheadHolds NoCutKept MistakesAreFatal
    RestoredWhole RefusalsJustified RoundTrip
