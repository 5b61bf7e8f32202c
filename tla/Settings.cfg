SPECIFICATION Spec
CONSTANTS
  Admins = {a1, a2}
  Env <- PartlyInEnv
  Updates <- Saves
  BadURLs = {"bad"}
  MaxFaults = 1
  Empty = Empty
  NoRow = NoRow
  NotANumber = NotANumber
INVARIANTS ConfirmedIsInForce
PROPERTY LoginIsKept
SYMMETRY Symmetry
