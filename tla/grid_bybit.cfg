\* A Grid bot on Bybit, another trader on the same account.
SPECIFICATION Spec
CONSTANTS
  Strategy = "grid"
  Bybit = TRUE
  Levels = 2
  OrderQty = 2
  MaxPositionQty = 4
  MaxOpenOrders = 3
  HistoryLimit = 50
  MaxForeign = 1
  MaxFills = 3
  MaxRejects = 0
  MaxInARow = 1
  MaxFailures = 1
  MaxResets = 0
  MaxCycle = 6
INVARIANTS
  NoStaleLadder
  OneEntryPerLevel
