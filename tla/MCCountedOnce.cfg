CONSTANTS
    NULL = NULL
    TicksPerSecond = 2
    r1 = r1  r2 = r2
    u1 = u1
    s1 = s1  sX = sX
    tA = tA  tB = tB
    Reqs = {r1, r2}
    Users = {u1}
    Accounts = {u1}
    Sessions = {s1}
    Payloads <- MCPayloads
    SeedTrades <- NoSeed
    SeedBuckets <- NoSeed
    SeedEmotions <- NoSeed
    BatchSize = 2
    RatingWindow = 2
    MaxTradesPerWindow = 1
    DbMayFail = FALSE
    RedisMayFail = FALSE
    MaxCrashes = 1
    MaxStops = 0
    MaxEvents = 0

SPECIFICATION PipelineSpec
SYMMETRY Symmetric
INVARIANT CountedOncePerTrade
CHECK_DEADLOCK FALSE
