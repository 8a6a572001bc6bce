SPECIFICATION MCSpec
CONSTANTS
    Thread = {t1, t2, t3, t4}
    GenMax = 1
    MaxRounds = 4
    QueueThread = {t1, t2, t3}
    Value = {v1, v2}
    NoValue = NoValue
    QueueSizes = {1, 2}
    MaxInserts = 4
    Layouts <- MCIndependent
    StopTimes = {0, 1, 9}
    PoolThread = {t1, t2}
    PoolSizes = {1, 2}
    PerArena = 2
    MaxLive = 2
    MaxBalance = 2
    MaxArenas = 3
    Parent = {s1, s2}
    Child = {c1}
    BuffSize = 3
    MaxMessages = 4
    Rank = {0, 1}
    RankThread = {0, 1}
    Linked <- MCLinked
    MessageSizes = {1, 2}
    Exchanges = 2
    TimeBound = 2
INVARIANTS ReportsLastTime
