SPECIFICATION FairSpec
CONSTANTS
  Specs <- OrderSpecs
  Prices = {8, 12}
  Amounts = {5}
  InitialBalance = 20
  Leverage = 10
  FeePercent = 25
  SlippagePercent = 25
  MinNotional = 5
  Candles <- Dataset
  Steps <- Scenario
  MoveTarget = 12
  MoveTime = 2
  Pace = 1
  MaxAge = 3
  MaxDue = 2
  ClientOps <- AllOps
  Budgets <- AllBudgets
INVARIANTS
  TypeOK
  LedgerExact
  ReplayInOrder
PROPERTIES
  MarketComesToRest
CHECK_DEADLOCK FALSE
