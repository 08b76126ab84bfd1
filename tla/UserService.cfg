\* Two RPCs, two connections, an account and a role.
SPECIFICATION FairSpec
CONSTANTS
    Workers = {w1, w2}
    Users = {u1}
    Removed = {}
    Nobody = Nobody
    Roles = {r1}
    Claims <- EveryRole
    Profiles = {p, q, long}
    TooLong = {long}
    None = None
    PoolSize = 2
INVARIANTS
    TypeOK
    ProfileCurrent
    RolesDuringCall
    ConnsAccounted
PROPERTIES
    ErasedForGood
    CallsAnswered
CHECK_DEADLOCK TRUE
