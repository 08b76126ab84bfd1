\* Five environments, eleven requests, two key rotations.
SPECIFICATION FairSpec
CONSTANTS
    Callers = {c1}
    k1 = k1
    Kids = {k1}
    p1 = p1
    p2 = p2
    s1 = s1
    Keys = {p1, p2}
    None = None
    issuer = issuer
    other = other
    api = api
    Published <- MCPublished
    HitAge = 2
    FetchAge = 1
    MaxTime = 6
    Envs <- MCEnvs
    Requests <- MCRequests
INVARIANTS
    TypeOK
    KeyWithdrawn
    TokenInTime
    UserIsNamed
CHECK_DEADLOCK TRUE
PROPERTY RequestsAnswered
