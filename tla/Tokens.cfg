CONSTANTS
    pa = pa
    pb = pb
    a1 = a1
    a2 = a2
    b1 = b1
    lrc = lrc
    foo = foo
    bar = bar
    x0 = x0
    x1 = x1
    x2 = x2
    None = None
    Procs = {pa, pb}
    Threads = {a1, b1}
    Home <- OneEach
    Ops = {"add", "delete"}
    Users = {"u1", "u2"}
    Symbols = {lrc, foo, bar}
    Addresses = {x0, x1}
    AllTokens <- Market
    MaxOps = 2
    MaxErr = 1
SPECIFICATION Spec
INVARIANTS LockedSectionExclusive AddedInAll AddedForUser
CHECK_DEADLOCK FALSE
