CONSTANTS
    NULL = NULL
    TicksPerSecond = 2
    u1 = u1
    s1 = s1
    tL = tL  tO = tO  tS = tS
    SeedTrades <- MCSeed
    SeedBuckets <- MCSeedBuckets
    SeedEmotions <- MCSeedEmotions
    BatchSize = 2
    RatingWindow = 2
    MaxTradesPerWindow = 1
    Rows <- OpenRows
    DbMayFail = FALSE
    RedisMayFail = FALSE
    MaxStops = 1
    MaxEvents = 1

SPECIFICATION RestartSpec
PROPERTY EveryEntryAcked
CHECK_DEADLOCK FALSE
