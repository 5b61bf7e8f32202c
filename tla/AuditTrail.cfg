CONSTANTS
  r1 = r1
  r2 = r2
  t1 = t1
  Requests = {r1, r2}
  Terminals = {t1}
  Filters <- MCFilters
  Limits = {0, 5}
  DefaultLimit = 2
  MaxLimit = 2
  Tick = 2
  MaxBack = 1
  MaxFaults = 1
SPECIFICATION FairSpec
INVARIANTS AuditComplete LateOnlyAfterTimeout PagingMissesNothing
PROPERTIES SignalEnds
CHECK_DEADLOCK FALSE
