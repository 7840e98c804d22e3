SPECIFICATION FairSpec
CONSTANTS
  Confs <- MCConfs
  MaxVersions = 2
  MaxRuns = 2
  MaxAge = 3
INVARIANTS
  RoundsKeepPace
  SuccessInTime
  CountedWhereStarted
  CommandHasItsTrace
PROPERTIES
  DelayIsKept
  RunsEnd
CHECK_DEADLOCK FALSE
