\* Two runs with one buy each and two attempts, STALE_ORDER_POLICY=cancel.
CONSTANTS
    s1 = s1
    b1 = b1
    b2 = b2
    Trades = {b1, b2}
    SideOf <- TwoBuySides
    RunOf <- TwoRunRuns
    Qty <- TwoBuyQty
    MaxQty = 1
    Price = 1
    StartCash = {1}
    MaxRun = 2
    MaxAttempts = 2
    MaxCrashes = 1
    MaxReplacements = 2
    AutoReplace = FALSE
    CancelStaleOrders = FALSE
    StalePolicy = "cancel"
    MaxAcceptFailures = 1
    LossyHistory = TRUE
    LossyFills = TRUE
SPECIFICATION Spec
INVARIANTS
    LiveOrderIsTracked
PROPERTIES
    NoOrderOverUnresolvedRun
