CONSTANTS
    NULL = NULL
    TicksPerSecond = 2
    r1 = r1  r2 = r2
    u1 = u1  u2 = u2
    s1 = s1  sX = sX
    tA = tA  tB = tB  tC = tC  tS = tS
    Users = {u1, u2}
    Accounts = {u1}
    Sessions = {s1}
    Reqs = {r1, r2}
    Payloads <- RefusedBodies
    SeedTrades <- NoSeed
    DbMayFail = FALSE
    RedisMayFail = FALSE
    MaxCrashes = 0
    MaxEvents = 2

SPECIFICATION Spec
PROPERTY DuplicateNeverFails
CHECK_DEADLOCK FALSE
