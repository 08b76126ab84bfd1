\* One key id, a short clock: step by step against KeySource, and to the end.
SPECIFICATION FairSpec
CONSTANTS
    Callers = {c1, c2}
    k1 = k1
    Kids = {k1}
    p1 = p1
    p2 = p2
    p3 = p3
    Keys = {p1, p2, p3}
    None = None
    Served <- MCServed
    TTL = 1
    Timeout = 1
    Lag = 0
    MaxTime = 3
INVARIANTS
    TypeOK
    HitFresh
    FetchFresh
    LockDiscipline
PROPERTIES
    ImplementsKeySource
    CallsReturn
CHECK_DEADLOCK TRUE
