SPECIFICATION FairSpec
CONSTANTS
  w1 = w1
  w2 = w2
  Worker = {w1, w2}
  Newest = 3
  None = None
CONSTRAINT LowerRelease
INVARIANT SuccessIsReal
INVARIANT DashboardRunsActive
PROPERTY KeepsPromise
PROPERTY VerdictStays
PROPERTY EveryRequestIsDecided
CHECK_DEADLOCK FALSE
