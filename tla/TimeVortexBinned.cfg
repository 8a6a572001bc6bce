SPECIFICATION VortexSpec
CONSTANTS
    Kinds <- MCKinds
    Saved <- BinnedSaved
    Prio <- MCPrio
    Window = 2
    LastSync = 4
    MaxEvents = 3
INVARIANTS RestartKeepsEvents
