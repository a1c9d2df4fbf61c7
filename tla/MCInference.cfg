SPECIFICATION FairSpec
CONSTANTS
    s1 = s1
    s2 = s2
    s3 = s3
    j1 = j1
    Requests = {s1, s2, s3, j1}
    Streams = {s1, s2, s3}
    MaxConcurrent = 2
    \* one code, and not the one every request starts with
    ModelCodes = {404}
INVARIANTS
    TypeOK
    PermitsConserved
    NoIdlePermit
    CountersExplained
    UsageLogged
PROPERTIES
    ImplementsQueue
    EveryRequestEnds
