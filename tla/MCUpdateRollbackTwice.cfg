SPECIFICATION SpecWithUpdate
CONSTANTS
  p1 = p1
  p2 = p2
  q1 = q1
  c1 = c1
  c2 = c2
  NoPlan = NoPlan
  Plan = {p1, p2}
  Process = {q1}
  Call = {c1, c2}
  ProcessOf <- MCProcessOf
  TTL = 1
  MaxPending = 1
  MaxClock = 1
  Modes = {"shared"}
INVARIANTS
  AtMostOnce
CHECK_DEADLOCK FALSE
