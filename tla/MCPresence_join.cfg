SPECIFICATION FairSpec
CONSTANTS
    a = a
    b = b
    c = c
    Daemon = {a, b}
    Primary = a
    None = None
    TTL = 1
    SyncEvery = 3
    Slot <- Slots
    MaxFaults = 1
PROPERTIES
    PrimaryListsAll
CHECK_DEADLOCK FALSE
