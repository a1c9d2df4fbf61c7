SPECIFICATION SpecWithTwo
CONSTANTS
    Gateway = Gateway
    Cli = Cli
    Processes = {Gateway, Cli}
    R2Settings = {FALSE}
    DailyWindow = 0
    WeeklyWindow = 1
    WeekLength = 1
    MaxBackups = 4
    MaxClock = 2
    MaxVersion = 1
    MaxFaults = 1
INVARIANTS
    RetentionKept
    ReportedBackupIsWhole
PROPERTIES
    ForgottenOnlyByOverlap
    NothingLostUnobserved
CHECK_DEADLOCK FALSE
