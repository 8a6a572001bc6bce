SPECIFICATION Spec
CONSTANTS
    Clocks = {"fast"}
    Period <- MCPeriod
    Priority <- MCPriority
    h1 = h1 h2 = h2 h3 = h3
    Handlers = {h1, h2, h3}
    EventPriority = 50
    SelfChange = TRUE
    MaxTime = 3
SYMMETRY Symmetry
INVARIANT EveryHandlerCalled
