CONSTANTS
    pa = pa
    pb = pb
    a1 = a1
    a2 = a2
    b1 = b1
    lrc = lrc
    foo = foo
    bar = bar
    x0 = x0
    x1 = x1
    x2 = x2
    None = None
    Procs = {pa, pb}
    Threads = {a1, a2}
    Home <- TwoInOne
    Ops = {"add"}
    Users = {"u1"}
    Symbols = {lrc, foo, bar}
    Addresses = {x0, x1, x2}
    AllTokens <- Market
    MaxOps = 3
    MaxErr = 0
SPECIFICATION Spec
CHECK_DEADLOCK FALSE
INVARIANT LockedSectionExclusive
