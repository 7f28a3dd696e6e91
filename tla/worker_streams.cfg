SPECIFICATION Spec
CONSTANTS
  b1 = b1
  b2 = b2
  Bots = {b1, b2}
  ForceAware = {b1}
  Errors = {"network", "authentication"}
  QueueSize = 2
  MaxRetries = 1
  MaxFailures = 2
  MaxNews = 1
  MaxDrops = 0
  MaxStarts = 0
  MaxStops = 1
  MaxRestarts = 0
  None = None
INVARIANTS
  TypeOK
  NoLostWakeup
  ParkedHasIncident

  
