SPECIFICATION FairSpec
CONSTANTS
  Writers = {"loop", "first", "second"}
  Kinds <- AllKinds
  MaxRequests = 3
  MaxFailures = 1
  MaxCrashes = 1
  None = None
INVARIANTS
  TypeOK
  PredecessorsKept
  OneLiveToken

  
CHECK_DEADLOCK FALSE
