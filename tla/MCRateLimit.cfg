SPECIFICATION Spec
CONSTANTS
  r1 = r1
  r2 = r2
  r3 = r3
  r4 = r4
  c1 = c1
  c2 = c2
  k1 = k1
  k2 = k2
  Request = {r1, r2, r3, r4}
  Counter = {c1, c2}
  CounterOf <- MCCounterOf
  Key = {k1, k2}
  KeyOf <- MCKeyOf
  Limit <- MCLimit
  Window = 3
  MaxDelay = 1
  MaxClock = 4
SYMMETRY Symmetry
INVARIANTS
  LimitHolds
PROPERTIES
  RefusedOnlyWhenFull
CHECK_DEADLOCK FALSE
