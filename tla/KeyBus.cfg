SPECIFICATION Spec
CONSTANTS
  MaxRuns = 2
  MaxKeys = 1
  Rounds = 2
INVARIANTS
  TypeOK
  NotifiedBeforeStatus
  OneRunKnown
PROPERTIES
  RemovalTold
  CallerTerminates
  ImplementsCalls
CHECK_DEADLOCK FALSE
