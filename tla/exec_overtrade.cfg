\* An interrupted replace whose replacement fills before the next pass.
CONSTANTS
    s1 = s1
    b1 = b1
    b2 = b2
    Trades = {b1}
    SideOf <- OneBuySides
    RunOf <- OneBuyRuns
    Qty <- OneBuyQty
    MaxQty = 2
    Price = 1
    StartCash = {2}
    MaxRun = 1
    MaxAttempts = 1
    MaxCrashes = 1
    MaxReplacements = 2
    AutoReplace = TRUE
    CancelStaleOrders = FALSE
    StalePolicy = "block"
    MaxAcceptFailures = 1
    LossyHistory = FALSE
    LossyFills = FALSE
SPECIFICATION Spec
INVARIANTS
    NeverOverTraded
