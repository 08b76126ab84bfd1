\* Two RPCs at a time and one of UserService for two connections, two ids, a
\* page of one row.
SPECIFICATION FairSpec
CONSTANTS
    Workers = {w1, w2}
    Others = 1
    Vals = {a, b, long}
    TooLong = {long}
    None = None
    PoolSize = 2
    MaxId = 2
    DefaultLimit = 1
    MaxLimit = 3
INVARIANTS
    TypeOK
    RepliesCurrent
    WritesStick
    NoResurrection
    ConnsAccounted
PROPERTIES
    CallsAnswered
    ImplementsStore
CHECK_DEADLOCK TRUE
