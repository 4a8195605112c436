SPECIFICATION FairCommandSpec
CONSTANTS
    alice = alice
    service = service
    d1 = d1
    d2 = d2
    k1 = k1
    k2 = k2
    xdg = xdg
    tmp = tmp
    run = run
    None = None
    User = {alice, service}
    Daemon = {d1, d2}
    Client = {k1, k2}
    Path = {xdg, tmp, run}
    UserOf <- Users
    Candidates <- Paths
    Legacy <- LegacyPaths
    Writable <- WritablePaths
    MayConnect <- Groups
    HttpArg <- HttpArgs
    Invocation <- Calls
    MaxStarts = 2
    MaxFaults = 1
INVARIANTS
    TypeOK
    DaemonFound
    RemoteTicketed
    DeniedOnlyRemoved
    StopAnswered
PROPERTIES
    StopHonoured
    ClientEnds
    ImplementsCommands
CHECK_DEADLOCK FALSE
