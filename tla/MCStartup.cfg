SPECIFICATION FairSpec
CONSTANTS
    k1 = k1
    k2 = k2
    k3 = k3
    k4 = k4
    f = f
    n1 = n1
    n2 = n2
    n3 = n3
    Key = {k1, k2, k3, k4}
    Foreign = {f}
    Own = {n1, n2, n3}
    Port = {0, 1, 2}
    AnyPort = 0
    BindArg <- Binds
    None = None
    MaxTries = 5
    MaxStarts = 3
INVARIANTS
    TypeOK
    IdentityKept
    TicketStillGood
    OneNetwork
    ResetForgets
    BindsIfPossible
PROPERTIES
    StartEnds
CHECK_DEADLOCK FALSE
