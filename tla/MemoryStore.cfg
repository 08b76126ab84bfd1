\* Two RPCs, two ids, two contents, an object for every pointer there can be.
SPECIFICATION FairSpec
CONSTANTS
    Workers = {w1, w2}
    Vals = {a, b}
    Addrs = {x1, x2, x3, x4}
    None = None
    MaxId = 2
    DefaultLimit = 1
    MaxLimit = 3
INVARIANT TypeOK
PROPERTIES
    ImplementsStore
    CallsAnswered
CHECK_DEADLOCK TRUE
