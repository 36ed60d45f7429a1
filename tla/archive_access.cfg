SPECIFICATION FairSpec
CONSTANTS
    p1 = p1
    p2 = p2
    s1 = s1
    s2 = s2
    n1 = n1
    n2 = n2
    Procs = {p1, p2}
    Sessions = {s1, s2}
    Names = {n1, n2}
    Paths = {f}
    Absolute <- MCAbsolute
    Asks <- MCAsks
    MaxWrites = 1
    MaxStarts = 1
    MaxReboots = 1
INVARIANTS TypeOK SemaphoreConserved ClosedArchivesKept
PROPERTIES ShutdownEnds WaitsForHolder
CHECK_DEADLOCK FALSE
