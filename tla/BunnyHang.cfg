SPECIFICATION RunningSpec
CONSTANTS
  MaxLoads = 2
  MaxSignals = 1
PROPERTIES
  ShutdownCompletes
CHECK_DEADLOCK FALSE
