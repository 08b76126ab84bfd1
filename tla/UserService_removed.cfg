\* One RPC, one account, logically deleted.
SPECIFICATION Spec
CONSTANTS
    Workers = {w1}
    Users = {u1}
    Removed = {u1}
    Nobody = Nobody
    Roles = {r1}
    Claims <- EveryRole
    Profiles = {p, q, long}
    TooLong = {long}
    None = None
    PoolSize = 1
INVARIANT RemovedNotServed
CHECK_DEADLOCK TRUE
