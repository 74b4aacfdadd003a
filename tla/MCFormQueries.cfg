SPECIFICATION FairSpec
CONSTANTS
  c1 = c1
  c2 = c2
  c3 = c3
  dev = dev
  prod = prod
  Calls = {c1, c2, c3}
  Targets = {dev, prod}
  Policy <- MCPolicy
  Queries <- MCQueries
  Forms = {"task", "note"}
  Ids = {1}
  IdName <- MCIdName
  Names = {"notes", "NOTES", "token", "1"}
  Objects <- MCObjects
  Fold <- MCFold
  Marks <- MCMarks
  Worlds <- MCWorlds
  Gone = gone
  Settings <- MCSettings
  Timeout = 1
  MaxEntries = 1
CONSTRAINTS OneKindAtATime Few
INVARIANTS
  TellsOnlyPermitted
  AnswerIsRecent
  LoadsAreShared
PROPERTIES
  EveryCallEnds
CHECK_DEADLOCK FALSE
