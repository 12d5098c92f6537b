SPECIFICATION MCSpec
CONSTANTS
    t1 = t1
    t2 = t2
    t3 = t3
    Txs = {t1, t2, t3}
    Body <- Bodies
    Start = 1
    End = 3
    Confirms = 2
    Retries = 1
    None = None
    MaxHeight = 5
    MaxDepth = 2
    MaxReorgs = 2
    MaxErr = 1
    MaxPrev = 1
    Nodes = {n1, n2}
    Batches <- RequestLengths
    Retry = 3
    c1 = c1
    c2 = c2
    c3 = c3
    d1 = d1
    d2 = d2
    Readers = {r1, r2}
    MaxInitErr = 2
    Procs = {p1, p2}
    Nobody = Nobody
    Prices = {1, 4}
    Default = 5
    Window = 3
    MaxTxs = 1
    GasHeight = 4
    MaxCrash = 1
INVARIANTS ReturnedSound
PROPERTIES BlocksReturned BatchAnswered ReadyServes 
CHECK_DEADLOCK FALSE
