CONSTANTS
    a = a
    b = b
    Trades <- TwoTrades
    MaxRuns = 1
    MaxDays = 1
    MaxRetryAttempts = 2
    MaxCrashes = 1
SPECIFICATION FairSessionSpec
PROPERTY PendingIsSettled
