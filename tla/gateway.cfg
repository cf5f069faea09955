CONSTANTS
    FailureThreshold = 2
    RestartCooldown = 1
    RestartWindow = 3
    MaxRestartsPerWindow = 2
    AlertInterval = 1
    MaxFaults = 1
    MaxLoginRestarts = 1
    MaxOps = 1
    MaxDeploys = 1
SPECIFICATION FairSpec
CHECK_DEADLOCK FALSE
INVARIANTS
    TypeOK
    NothingLeftDown
    WatchdogExcludesCommands
PROPERTIES
    RestartsRateLimited
    LoginIsRetried
    ArmedOnVerifiedLogin
