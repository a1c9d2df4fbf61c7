SPECIFICATION Spec
CONSTANTS
    Gateway = Gateway
    Cli = Cli
    Processes = {Gateway, Cli}
    R2Settings = {FALSE}
    DailyWindow = 0
    WeeklyWindow = 0
    WeekLength = 2
    MaxBackups = 3
    MaxClock = 1
    MaxVersion = 1
    MaxFaults = 1
PROPERTIES
    CurrentDatabaseSaved
CHECK_DEADLOCK FALSE
