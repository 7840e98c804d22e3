SPECIFICATION Spec
CONSTANTS
  Appliers = {egress}
  MaxVersions = 2
  MaxCounts = 2
  MaxMeasures = 1
INVARIANTS
  MetricsCanBeScraped
CHECK_DEADLOCK FALSE
