SPECIFICATION FairSpec
CONSTANTS
  r1 = r1
  r2 = r2
  r3 = r3
  e1 = e1
  Request = {r1, r2, r3}
  KindsOf <- MCKindsOf
  Main = main
  Edit = {e1}
  Initial = initial
  None = none
CONSTRAINT EditsBesideTwo
INVARIANTS
  FilesBelongTogether
  AnswerIsCurrent
PROPERTIES
  NoEditLost
  JarNotInUse
  EveryRequestEnds
CHECK_DEADLOCK FALSE
