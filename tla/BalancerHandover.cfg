CONSTANTS
    t1 = t1
    None = None
    Procs = {p1, p2}
    Tasks = {t1, t2}
    Weight <- OneWeights
    Config <- SameConfig
    MaxEvents = 6
    MaxCrash = 1
    MaxRestart = 1
    MaxStop = 0
    Timeouts = TRUE
    MaxErr = 1
    MaxExpire = 0
SPECIFICATION CleanSpec
SYMMETRY Sym
INVARIANT TaskExclusive
CHECK_DEADLOCK FALSE
