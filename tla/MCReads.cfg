CONSTANTS
    NULL = NULL
    r1 = r1  r2 = r2 
    u1 = u1  u2 = u2
    q1 = q1
    Reqs = {r1, r2}
    Users = {u1, u2}
    Registered = {u1}
    Inputs <- AllInputs
    Pathologies <- MCPathologies
    ShownFrom <- MCShownFrom
    StrengthGroups <- MCGroups
    DbMayFail = TRUE
    MaxRedisFaults = 1
    MaxWrites = 1

SPECIFICATION Spec
SYMMETRY Symmetric
INVARIANTS
    TypeOK
    AnswerSound
    ProfileNeverBack
    ReadInv
CHECK_DEADLOCK FALSE
