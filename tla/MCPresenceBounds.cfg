SPECIFICATION BoundSpec
CONSTANTS
    a = a
    b = b
    c = c
    Daemon = {a, b, c}
    Primary = a
    Relay = a
    Subject = b
    Learner = c
    None = None
    TTL = 1
    SyncEvery = 3
    Slot <- Slots
    MaxFaults = 1
INVARIANTS
    TypeOK
    ReappearsInTime
    TrustSpreadsInTime
    DeadForgottenInTime
CHECK_DEADLOCK FALSE
