CONSTANTS
    NULL = NULL
    TicksPerSecond = 2
    u1 = u1
    s1 = s1
    Csv <- MCCsv
    NewTrades <- MCNew
    Tries <- MCTries
    MaxFaults = 5

SPECIFICATION FairSpec
INVARIANTS
    TypeOK
    SeedExact
    CountsKept
    SeedInv
PROPERTY EventuallyServing
