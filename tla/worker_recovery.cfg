SPECIFICATION FairSpec
CONSTANTS
  b1 = b1
  Bots = {b1}
  ForceAware = {}
  Errors = {"network"}
  QueueSize = 2
  MaxRetries = 1
  MaxFailures = 2
  MaxNews = 1
  MaxDrops = 1
  MaxStarts = 1
  MaxStops = 1
  MaxRestarts = 1
  None = None
PROPERTIES
  NewsEventuallyHandled
  RetryEventuallySettles
