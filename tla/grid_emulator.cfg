\* A Grid bot on the emulator: fills at any moment, one rejected entry, one failing tick.
SPECIFICATION Spec
CONSTANTS
  Strategy = "grid"
  Bybit = FALSE
  Levels = 3
  OrderQty = 1
  MaxPositionQty = 2
  MaxOpenOrders = 3
  HistoryLimit = 50
  MaxForeign = 0
  MaxFills = 3
  MaxRejects = 1
  MaxInARow = 1
  MaxFailures = 1
  MaxResets = 0
  MaxCycle = 6
INVARIANTS
  TypeOK
  OneEntryPerLevel
  OneTakeProfit
  TakeProfitCovered
  LedgerReconstructs
PROPERTIES
  LimitExceededOnlyByRaces
