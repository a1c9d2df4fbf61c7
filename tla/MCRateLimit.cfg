SPECIFICATION Spec
CONSTANTS
    k1 = k1
    k2 = k2
    m = m
    o = o
    None = None
    Keys = {k1, k2}
    Members = {m}
    Orgs = {o}
    KeyMember <- MCKeyMember
    KeyOrg <- MCKeyOrg
    RpmLimits = {1, 2}
    DefaultRpm = 2
    WindowSeconds = 1
    Second = 2
    r1 = r1
    r2 = r2
    Requests = {r1, r2}
    StartRpm <- MCStartRpm
    MaxPatches = 1
    MaxClock = 3
SYMMETRY MCSymmetry
INVARIANTS
    TypeOK
    QueueIsRecentHistory
    WindowRespected
    ScopesAgree
PROPERTIES
    RetryAfterExact
    ImplementsQuota
CHECK_DEADLOCK FALSE
