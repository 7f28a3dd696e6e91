SPECIFICATION Spec
CONSTANTS
  b1 = b1
  Bots = {b1}
  ForceAware = {b1}
  Errors = {"network", "authentication"}
  QueueSize = 2
  MaxRetries = 1
  MaxFailures = 1
  MaxNews = 1
  MaxDrops = 0
  MaxStarts = 0
  MaxStops = 1
  MaxRestarts = 0
  None = None
PROPERTIES
  StopHalts
