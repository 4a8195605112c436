SPECIFICATION Spec
CONSTANTS
    a = a
    b = b
    None = None
    Daemon = {a, b}
    Primary = a
    Holders = {a, b}
    IpAddr <- Addresses
    Width <- Widths
    LocalOnlyIp <- LocalOnly
    Domain <- OwnDomains
    Offset <- SameClock
    STALE_NODE_TTL_SECS = 1
    MAX_AGE_SECS = 1
    MAX_FUTURE_SKEW_SECS = 0
    MaxTime = 1
    MaxInFlight = 1
    MaxStarts = 3
    MaxStops = 0
    MaxTimers = 1
    MaxAdmin = 1
    MaxMoves = 1
INVARIANTS
    TypeOK
    
    
PROPERTIES
    AddressKept
CHECK_DEADLOCK FALSE
