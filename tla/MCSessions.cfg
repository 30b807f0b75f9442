CONSTANTS
    NULL = NULL
    r1 = r1  r2 = r2
    u1 = u1  u2 = u2
    s1 = s1  sX = sX  sBad = sBad
    bad = bad
    Reqs = {r1, r2}
    Users = {u1, u2}
    Inputs <- MCInputs
    Owner <- MCOwner
    Malformed = {sBad}
    Moods = {"calm"}
    Trades <- MCTrades
    Message <- MCMessage
    Done = "done"
    DbMayFail = TRUE
    MaxCrashes = 1

SPECIFICATION FairSpec
INVARIANTS
    TypeOK
    LogFaithful
    DebriefSavedOnce
    SummaryCurrent
    StreamFaithful
    SessionInv
PROPERTY EveryRequestEnds
CHECK_DEADLOCK FALSE
