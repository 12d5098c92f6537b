CONSTANTS
    t1 = t1
    None = None
    Procs = {p1}
    Tasks = {t1, t2}
    Weight <- OneWeights
    Config <- Upgrade
    MaxEvents = 2
    MaxCrash = 1
    MaxRestart = 1
    MaxStop = 1
    Timeouts = TRUE
    MaxErr = 1
    MaxExpire = 1
SPECIFICATION Spec
INVARIANT InitIffUnowned
CHECK_DEADLOCK FALSE
