SPECIFICATION FairSpec
CONSTANTS
  MaxClock = 3
  EntrySettling = 1
  ExitSettling = 1
  Cooldown = 2
  MaxHolding = 2
  MaxFailures = 1
  Signals <- Alternating
  MaxUser = 1
  MaxExits = 2
INVARIANTS
  TypeOK
  NeverTwoEntries
PROPERTIES
  CooldownKept
  TradesOneAtATime
  PositionEventuallyClosed
