SPECIFICATION Spec
CONSTANTS
    a = a
    b = b
    c = c
    i1 = i1
    i2 = i2
    None = None
    Daemon = {a, b, c}
    Primary = a
    Holders = {a, b}
    IpAddr = {i1}
    Domain <- OwnDomains
    Offset <- SameClock
    STALE_NODE_TTL_SECS = 0
    MAX_AGE_SECS = 0
    MAX_FUTURE_SKEW_SECS = 0
    MaxTime = 0
    MaxInFlight = 1
    MaxStarts = 4
    MaxStops = 1
    MaxTimers = 2
    MaxAdmin = 1
    MaxMoves = 0
INVARIANTS
    
    ActiveTrusted
    StoredTrusted

    
CHECK_DEADLOCK FALSE
