SPECIFICATION FairSpec
CONSTANTS
  Appliers = {egress}
  MaxVersions = 2
  MaxCounts = 2
  MaxMeasures = 2
INVARIANTS
  ReportedOnce
  ShutdownSendsAll
PROPERTIES
  CountsAreSent
CHECK_DEADLOCK FALSE
