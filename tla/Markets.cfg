SPECIFICATION MCSpec
CONSTANTS
    MaxRefresh = 2
    MaxEvents = 2
    t1 = t1
    t2 = t2
    CNY = CNY
    USD = USD
    Prices = {3}
    DustValue = 2
    MaxStart = 2
    MaxStop = 1
    MaxTick = 1
    MaxErr = 1
    MaxAmount = 3
    MaxTime = 1
    Dust = 1
    Clients = {c1, c2}
    None = None
    Shared = FALSE
    MaxActive = 1
    MaxCalls = 2
    MaxFailures = 2
INVARIANTS  AmountsExact 
PROPERTIES  CapStops  CacheDone
CHECK_DEADLOCK FALSE
