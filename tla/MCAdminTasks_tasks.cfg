SPECIFICATION Spec
CONSTANTS
    p = p
    q = q
    c1 = c1
    c2 = c2
    k1 = k1
    k2 = k2
    Peer = {p, q}
    Client = {c1, c2}
    Conn = {k1, k2}
    Loop = Loop
    MaxEvents = 2
    MaxCommands = 2
    MaxRestarts = 1
INVARIANTS
    TypeOK
    KnownTrusted
    AddedKept
    
CHECK_DEADLOCK FALSE
SYMMETRY Symmetry
