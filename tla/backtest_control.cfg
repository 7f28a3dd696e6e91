SPECIFICATION FairSpec
CONSTANTS
  Engines = {"emulator", "fast_scalper", "fast_momentum"}
  Total = 4
  CommitEvery = 2
  PollEvery = 2
  MaxParallel = 2
  MaxRequests = 4
  MaxRestarts = 1
  None = None
INVARIANTS
  TypeOK
  DeletedOnlyWhenOver
  TruthfulOutcome
PROPERTIES
  RequestsKept
  PausedStandsStill
  RunEnds
CHECK_DEADLOCK FALSE
