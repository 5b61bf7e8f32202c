SPECIFICATION FairSpec
CONSTANTS
  Servers = {}
  Uploads = {}
  Updaters = {c1, c2}
  Intervals = {i1, i2}
  MaxSessions = 0
  MaxUpdates = 3
  PollAtStart = TRUE
  NoServer = NoServer
  NoInterval = NoInterval
PROPERTY UpdateReturns
CHECK_DEADLOCK FALSE
