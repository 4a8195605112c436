SPECIFICATION Spec
CONSTANTS
    a = a
    b = b
    c = c
    i1 = i1
    i2 = i2
    None = None
    Daemon = {a, b}
    Primary = a
    Holders = {a, b}
    IpAddr = {i1, i2}
    Domain <- OwnDomains
    Offset <- SameClock
    STALE_NODE_TTL_SECS = 1
    MAX_AGE_SECS = 1
    MAX_FUTURE_SKEW_SECS = 0
    MaxTime = 1
    MaxInFlight = 1
    MaxStarts = 3
    MaxStops = 0
    MaxTimers = 2
    MaxAdmin = 1
    MaxMoves = 1
PROPERTIES
    AboutMeReplacesAddress
CHECK_DEADLOCK FALSE
