SPECIFICATION FairSpec
CONSTANTS
    r1 = r1
    r2 = r2
    Runs = {r1, r2}
    MaxThreads = 1
    MarketSlots = 1
    Interval = 1
    MaxClock = 2
INVARIANTS
    TypeOK
    ProcessesBounded
    SlotsExplained
    AuditTruthful
    PurgesSpaced
    PurgeNotOverdue
PROPERTIES
    DeadlineEndsWorker
    EveryRunEnds
CHECK_DEADLOCK FALSE
