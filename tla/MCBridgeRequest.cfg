SPECIFICATION Spec
CONSTANTS
  r1 = r1
  r2 = r2
  Request = {r1, r2}
  OperationsOf <- MCOperationsOf
  PoolSize = 2
  Threads = 1
INVARIANTS
  SessionsBounded
  EffectIsNotRefused
PROPERTIES
  KeepsPromise
CHECK_DEADLOCK FALSE
