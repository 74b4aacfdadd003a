SPECIFICATION FairSpec
CONSTANTS
  u1 = u1
  u2 = u2
  NoUpdater = NoUpdater
  Updater = {u1, u2}
  Newest = 3
  OpenClaw = TRUE
  Faults = {"crash", "lock", "restore", "manifest", "openclaw", "bridge"}
CONSTRAINT OneUpdaterWhereFaulty
INVARIANTS
  OneUpdateAtATime
  ActivatedIsInstalled
  LaunchersAgree
PROPERTIES
  KeepsPromise
  LockIsReleased
CHECK_DEADLOCK FALSE
