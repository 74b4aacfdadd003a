SPECIFICATION Spec
CONSTANTS
  p1 = p1
  p2 = p2
  q1 = q1
  q2 = q2
  c1 = c1
  c2 = c2
  NoPlan = NoPlan
  Plan = {p1, p2}
  Process = {q1, q2}
  Call = {c1, c2}
  ProcessOf <- MCProcessOf
  TTL = 1
  MaxPending = 1
  MaxClock = 2
  Modes = {"shared"}
SYMMETRY Symmetry
INVARIANT
  EffectIsAcknowledged
CHECK_DEADLOCK FALSE
