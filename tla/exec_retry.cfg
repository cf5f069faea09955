\* A batch of two buys of one run, retried after failures and one crash.
CONSTANTS
    s1 = s1
    b1 = b1
    b2 = b2
    Trades = {b1, b2}
    SideOf <- TwoBuySides
    RunOf <- SameRunRuns
    Qty <- TwoBuyQty
    MaxQty = 1
    Price = 1
    StartCash = {2}
    MaxRun = 1
    MaxAttempts = 2
    MaxCrashes = 1
    MaxReplacements = 2
    AutoReplace = FALSE
    CancelStaleOrders = TRUE
    StalePolicy = "block"
    MaxAcceptFailures = 1
    LossyHistory = TRUE
    LossyFills = FALSE
SYMMETRY BuySymmetry
SPECIFICATION Spec
INVARIANTS
    ExecInv
    BaseOrderPlacedOnce
    ResubmittableMeansUnsent
    LiveOrderIsTracked
    TerminalRowIsTrue
