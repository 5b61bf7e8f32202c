SPECIFICATION FairSpec
CONSTANTS
  Servers = {a, b, c}
  Initial = {a, b}
  MaxOps = 3
  MaxFaults = 1
INVARIANTS ExpandedIsOpen OneRefresh
PROPERTIES LoadingEnds RefreshEnds
