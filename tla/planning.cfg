SPECIFICATION Spec
CHECK_DEADLOCK FALSE
CONSTANTS
  Aggression = 2
  LimitOffsetBps = 10
  MaxSpreadBps = 50
  WideSpreadMaxBps = 150
  MaxAdverseBps = 50
  MaxOrderNotional = 330000
  Tickers = {1, 2, 3}
  Core = 1
  Safe = 2
  CorePct = 60
  SafePct = 38
  HeldHalves = {0, 3, 4}
  Marks = {100000}
  Closes = {51000, 100000}
  Cash = {0, 160000, 300000}
  DryRunValue = 200000
  ManagedCap = 500000
  MinTradeNotional = 10000
  MinWeightPermille = 3
  CostBps = 10
  CostFixed = 1000
  MaxTurnoverPct = 100
  MaxDailyTrades = 2
  Attempts = 3
  Quotes <- MCQuotes
INVARIANTS
  TypeOK
  SellsStayWithinHoldings
  RoundingFitsCash
  OrdersGoOutFresh
  ApprovedSizeIsKept
