SPECIFICATION Spec
CONSTANTS
    a = a
    b = b
    c = c
    i1 = i1
    i2 = i2
    None = None
    Daemon = {a, b, c}
    Primary = a
    Holders = {a, b, c}
    IpAddr = {i1}
    Domain <- SharedDomain
    Offset <- AheadClock
    STALE_NODE_TTL_SECS = 0
    MAX_AGE_SECS = 1
    MAX_FUTURE_SKEW_SECS = 1
    MaxTime = 2
    MaxInFlight = 1
    MaxStarts = 3
    MaxStops = 0
    MaxTimers = 2
    MaxAdmin = 0
    MaxMoves = 0
INVARIANTS
    HeartbeatBacked
PROPERTIES
    SilentPeersForgotten
    TrustedNeverOlder
    NewestOfDomainKept
CHECK_DEADLOCK FALSE
