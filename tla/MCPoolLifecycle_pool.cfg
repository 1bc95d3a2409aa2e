CONSTANTS
    u1 = u1
    u2 = u2
    u3 = u3
    u4 = u4
    k1 = k1
    k2 = k2
    p1 = p1
    p2 = p2
    p3 = p3
    p4 = p4
    None = None
    Users = {u1, u2, u3, u4}
    Closers = {k1, k2}
    Pools = {p1, p2, p3, p4}
    MaxFaults = 2
SPECIFICATION FairSpec
INVARIANTS TypeOK NoOrphanedPool NoDeadPool
PROPERTIES EveryCallerEnds
CHECK_DEADLOCK FALSE
