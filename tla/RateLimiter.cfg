SPECIFICATION FairSpec
CONSTANTS
  IPs = {a, b}
  Requests = {r1, r2, r3}
  MaxAttempts = 3
  Window = 2
  NotServing = NotServing
INVARIANTS FailuresBounded WindowIsExact
PROPERTY BlockedIsReleased
