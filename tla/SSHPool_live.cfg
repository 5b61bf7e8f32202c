SPECIFICATION FairSpec
CONSTANTS
  Servers = {s1}
  Goroutines = {g1, g2}
  Clients = {c1, c2}
  HostKeys = {k1}
  MaxFaults = 1
  MaxRotations = 0
  NoServer = NoServer
  NoClient = NoClient
  NoKey = NoKey
PROPERTY BrokenIsEvicted
