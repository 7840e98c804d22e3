SPECIFICATION Spec
CONSTANTS
  Appliers = {"egress", "ingress"}
  Metrics <- MCMetrics
  OtelAccepts <- MCAccepted
  PromAccepts <- MCAccepted
  MaxVersions = 3
  MaxMetrics = 2
INVARIANTS
  RegistrationIsSafe
  CurrentMetricsExposed
CHECK_DEADLOCK FALSE
