SPECIFICATION RunningSpec
CONSTANTS
  MaxLoads = 3
  MaxSignals = 1
INVARIANTS
  NoStaleMetrics
  RegistrySkew
  MetricsVisible
  NoCircularWait
PROPERTIES
  UpdatesAreApplied
  QuietShutdown
  StuckOnlyInShutdown
  WorkIsFinite
CHECK_DEADLOCK FALSE
