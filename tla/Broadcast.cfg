SPECIFICATION MCSpec
CONSTANTS
    Orders = {o1, o2}
    Publishers = {p1, p2}
    RoomsOf <- MCRoomsOf
    NameOf <- MCNameOf
    p1 = p1
    p2 = p2
    r1 = r1
    r2 = r2
    r3 = r3
    Rooms = {r1, r2}
    CachedRooms = {r1}
    Limit = 2
    MaxRoom = 2
    MaxCrash = 1
    MaxLost = 1
    Lockers = {g1, g2}
    Getters = {g3}
    Nobody = Nobody
    Replaces = TRUE
    MaxLogins = 9
    MaxCalls = 1
    MaxErr = 1
    MaxForget = 1
    t1 = t1
    t2 = t2
    MaxRecords = 2
    MaxProxies = 2
    MaxListeners = 2
INVARIANTS PublishReported
PROPERTIES  MatrixServes 
CHECK_DEADLOCK FALSE
