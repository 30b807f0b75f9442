CONSTANTS
    NULL = NULL
    TicksPerSecond = 2
    u1 = u1
    s1 = s1
    tL = tL  tO = tO  tS = tS
    SeedTrades <- MCSeed
    SeedBuckets <- MCSeedBuckets
    SeedEmotions <- MCSeedEmotions
    BatchSize = 2
    RatingWindow = 1
    MaxTradesPerWindow = 1
    Rows <- LateRows
    DbMayFail = TRUE
    RedisMayFail = TRUE
    MaxStops = 2
    MaxEvents = 2

SPECIFICATION FairSpec
INVARIANTS
    TypeOK
    NoDoubleCount
    RatiosInRange
    OvertradingBacked
    WorkerInv
PROPERTIES
    CountedInOrder
    QueueMovesOn
CHECK_DEADLOCK FALSE
