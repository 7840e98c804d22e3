SPECIFICATION Spec
CONSTANTS
  MaxLoads = 2
  MaxSignals = 2
INVARIANTS
  TypeOK
  ForwardNeverBlocks
  ExitComplete
  CrashOnlyAtTheEdges
  StandstillExplained
PROPERTIES
  ImplementsRollout
CHECK_DEADLOCK FALSE
