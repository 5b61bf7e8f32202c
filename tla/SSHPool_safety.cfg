SPECIFICATION Spec
CONSTANTS
  Servers = {s1}
  Goroutines = {g1, g2}
  Clients = {c1, c2, c3}
  HostKeys = {k1, k2}
  MaxFaults = 2
  MaxRotations = 1
  NoServer = NoServer
  NoClient = NoClient
  NoKey = NoKey
SYMMETRY PoolSymmetry
INVARIANTS ExclusiveOwner PooledNotClosed GaugeAccounts OrphansWereDropped NoOrphanHostKey
