\* One buy of two increments with AUTO_REPLACE_UNFILLED_ORDERS.
CONSTANTS
    s1 = s1
    b1 = b1
    b2 = b2
    Trades = {b1}
    SideOf <- OneBuySides
    RunOf <- OneBuyRuns
    Qty <- OneBuyQty
    MaxQty = 2
    Price = 1
    StartCash = {2}
    MaxRun = 1
    MaxAttempts = 2
    MaxCrashes = 1
    MaxReplacements = 2
    AutoReplace = TRUE
    CancelStaleOrders = TRUE
    StalePolicy = "block"
    MaxAcceptFailures = 1
    LossyHistory = TRUE
    LossyFills = FALSE
SPECIFICATION Spec
INVARIANTS
    TypeOK
    LiveOrderIsTracked
    OneLiveOrder
    ReplacesOnlyUnfilledCancelled
PROPERTIES
    TerminalRowIsFinal
