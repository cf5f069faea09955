CONSTANTS
    a = a
    b = b
    Trades <- OneTrade
    MaxRuns = 2
    MaxDays = 2
    MaxRetryAttempts = 2
    MaxCrashes = 2
SPECIFICATION SessionSpec
INVARIANT SessionInv
INVARIANT NoOrderDuringIncident
PROPERTY IncidentEndsResolved
PROPERTY SessionIsStable
PROPERTY SessionFollowsRows
