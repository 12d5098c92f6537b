SPECIFICATION MCSpec
CONSTANTS
    WordSize = 3
    AddressSize = 2
    MaxRing = 3
    Recipients = {1, 2}
    MaxChange = 1
    MaxSubmit = 2
    Origins = {7}
    Values = {v1, v2}
    Senders = {s1, s2}
    Receivers = {r1, r2}
    None = None
    MaxSends = 2
    p = p
    c = c
    s = s
    Plain = {p}
    Concurrent = {c}
    Serial = {s}
    MaxLog = 2
    MaxFaults = 2
    Callers = {c1, c2}
    ObsoleteTimeout = 2
    BatchTimeout = 1
    BufferSize = 3
    SendSize = 2
    MaxCalls = 2
    MaxTime = 4
INVARIANTS RingDecoded RingFilled ContractDecoded  MetricsBatched
PROPERTIES IsFifo ChannelDelivers 
CHECK_DEADLOCK FALSE
