CONSTANTS
    pa = pa
    u1 = u1
    u2 = u2
    None = None
    Procs = {pa}
    Urls = {u1, u2}
    RawUrls <- One
    Window = 1
    MaxHeight = 1
    MaxFlips = 2
    MaxCalls = 1
SPECIFICATION FairSpec
PROPERTIES ChosenHasBlock BlockNumberMonotone Recovers
CHECK_DEADLOCK FALSE
