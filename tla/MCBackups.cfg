SPECIFICATION Spec
CONSTANTS
    Gateway = Gateway
    Cli = Cli
    Processes = {Gateway}
    R2Settings = {TRUE, FALSE}
    DailyWindow = 1
    WeeklyWindow = 3
    WeekLength = 2
    MaxBackups = 3
    MaxClock = 4
    MaxVersion = 0
    MaxFaults = 2
INVARIANTS
    TypeOK
    RemoteRetentionKept
    OffsiteClaimsTrue
    LockExplained
CHECK_DEADLOCK FALSE
