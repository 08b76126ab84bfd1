\* Three tests and the one lock file of the code.  Tests end: the system stops.
SPECIFICATION FairSpec
CONSTANTS
    Tests = {t1, t2, t3}
    None = None
    maxConcurrency = 1
    MutexTimeout = 1
INVARIANTS
    TypeOK
    SlotsAccounted
    AtMostMaxConcurrency
    FixturesIntact
PROPERTY LockEnds
CHECK_DEADLOCK FALSE
