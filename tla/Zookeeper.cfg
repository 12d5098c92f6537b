SPECIFICATION MCSpec
CONSTANTS
    pa = pa
    pb = pb
    a1 = a1
    a2 = a2
    b1 = b1
    Procs = {pa, pb}
    Threads = {a1, a2, b1}
    Home <- SharedHome
    Deferred = {}
    MaxSeq = 4
    MaxErr = 1
    MaxExpire = 1
    MaxSets = 3
    MaxErrs = 2
INVARIANT MutualExclusion
PROPERTIES WaitersServed  ConfigFollowed
CHECK_DEADLOCK FALSE
