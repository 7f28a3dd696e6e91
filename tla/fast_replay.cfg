SPECIFICATION Spec
CONSTANTS
  Prices = {80, 100, 120}
  Total <- Candles
  CandleLength = 4
  EndTime <- LastOpen
  Readings <- AllReadings
  MinimumScore = 85
  AllowShort = TRUE
  Required = {"trend", "breakout", "volume"}
  StopDistance = 10
  TakeDistance = 20
  TrailDistance = 15
  MaxHolding = 6
  Cooldown = 2
  Qty = 1
  InitialBalance = 500
  SlippagePercent = 5
  FeePercent = 4
  DailyLossPercent = 4
  DayLength = 12
INVARIANTS
  TypeOK
  AccountsAgree
  MetricsMatchCurve
PROPERTIES
  TradesOneAtATime
CHECK_DEADLOCK FALSE
