SPECIFICATION ProcessFairSpec
CONSTANTS
  g1 = g1
  g2 = g2
  g3 = g3
  t1 = t1
  t2 = t2
  Gateway = {g1, g2, g3}
  Bridge = {j1, j2}
  Token = {t1, t2}
  TokenOf <- MCTokenOf
  Session = {g2}
  MaxPolls = 2
  None = None
INVARIANT LeavesNothingBehind
PROPERTY OnlyOwnerStops
PROPERTY EveryStartIsDecided
CHECK_DEADLOCK FALSE
