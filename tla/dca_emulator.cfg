\* A DCA bot on the emulator under fairness of its ticks; the account may be reset.
SPECIFICATION FairSpec
CONSTANTS
  Strategy = "dca"
  Bybit = FALSE
  Levels = 2
  OrderQty = 1
  MaxPositionQty = 2
  MaxOpenOrders = 3
  HistoryLimit = 3
  MaxForeign = 0
  MaxFills = 3
  MaxRejects = 0
  MaxInARow = 1
  MaxFailures = 1
  MaxResets = 1
  MaxCycle = 3
INVARIANTS
  NoStaleLadder
PROPERTIES
  CycleEventuallyCompleted
  PositionEventuallyCovered
