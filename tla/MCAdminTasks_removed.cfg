SPECIFICATION Spec
CONSTANTS
    p = p
    q = q
    c1 = c1
    c2 = c2
    k1 = k1
    k2 = k2
    Peer = {p}
    Client = {c1}
    Conn = {k1}
    Loop = Loop
    MaxEvents = 2
    MaxCommands = 2
    MaxRestarts = 1
INVARIANTS
    RemovedGone
CHECK_DEADLOCK FALSE
