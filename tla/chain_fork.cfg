\* Two requests that record an event at the same time.
SPECIFICATION Spec
CONSTANTS
  Writers = {"loop", "first", "second"}
  Kinds <- AllKinds
  MaxRequests = 3
  MaxFailures = 0
  MaxCrashes = 0
  None = None
INVARIANTS
  OneSuccessor
CHECK_DEADLOCK FALSE
