\* A sell that may fund a buy: fits, must be trimmed, or is blocked.
CONSTANTS
    s1 = s1
    b1 = b1
    b2 = b2
    Trades = {s1, b1}
    SideOf <- SellBuySides
    RunOf <- SellBuyRuns
    Qty <- TrimQty
    MaxQty = 2
    Price = 10
    StartCash = {8, 9, 10}
    MaxRun = 1
    MaxAttempts = 2
    MaxCrashes = 1
    MaxReplacements = 2
    AutoReplace = FALSE
    CancelStaleOrders = FALSE
    StalePolicy = "block"
    MaxAcceptFailures = 1
    LossyHistory = FALSE
    LossyFills = FALSE
SPECIFICATION Spec
INVARIANT BuysAreFunded
PROPERTY RowsAreFollowed
