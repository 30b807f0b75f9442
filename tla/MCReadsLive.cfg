CONSTANTS
    NULL = NULL
    r1 = r1  r2 = r2 
    u1 = u1  u2 = u2
    q1 = q1
    Reqs = {r1, r2}
    Users = {u1, u2}
    Registered = {u1}
    Inputs <- LiveInputs
    Pathologies <- MCPathologies
    ShownFrom <- MCShownFrom
    StrengthGroups <- MCGroups
    DbMayFail = FALSE
    MaxRedisFaults = 0
    MaxWrites = 1

SPECIFICATION FairSpec
PROPERTY EventuallyFresh
CHECK_DEADLOCK FALSE
