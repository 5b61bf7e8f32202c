SPECIFICATION FairSpec
CONSTANTS
  s1 = s1
  r1 = r1
  r2 = r2
  k1 = k1
  k2 = k2
  e1 = e1
  e2 = e2
  Servers = {s1}
  Requests = {r1, r2}
  Keys = {k1, k2}
  Secrets = {e1, e2}
  MaxFaults = 1
  MaxChanges = 1
  NoKey = NoKey
INVARIANTS
  CallsUseInner
  SavedKeyIsRead
  DeletedLeavesNothing
PROPERTY
  SwapCompletes
