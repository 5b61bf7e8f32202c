SPECIFICATION Spec
CONSTANTS
  Browsers = {b1, b2}
  Requests = {r1, r2}
  Names = {n1, n2}
  Subjects = {s1, s2}
  MaxIds = 2
  NoSubject = NoSubject
SYMMETRY AccountSymmetry
INVARIANTS AccountsRemain RoleWasHeld
