CONSTANTS
    g1 = g1
    g2 = g2
    None = None
    Threads = {g1, g2}
    MaxReq = 2
    MaxForeign = 1
    MaxErr = 2
SPECIFICATION FairSpec
INVARIANTS  ExecutedOnce
PROPERTY SendEnds
CHECK_DEADLOCK FALSE
