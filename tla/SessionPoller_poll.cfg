SPECIFICATION FairSpec
CONSTANTS
  Servers = {s1}
  Uploads = {h1}
  Updaters = {}
  Intervals = {i1}
  MaxSessions = 1
  MaxUpdates = 0
  PollAtStart = TRUE
  NoServer = NoServer
  NoInterval = NoInterval
PROPERTIES DeletedStaysDeleted StatusConverges SessionsConverge StopEndsPolling
