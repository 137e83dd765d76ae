SPECIFICATION Spec
CONSTANTS
  Wrap = 1000
  COUNT_TO_MIN = 20
  COUNT_TO_MAX = 30
  PROGRESSION = 10
  CountStart = 20
  Notifies = 0
  PipeLines = 1
  StreamLines = 1
  MaxClients = 2
  Together = 2
  MaxLines = 2
  Ends = {}
INVARIANTS
  LinesInOrder
PROPERTIES
  HelloCompletes
CHECK_DEADLOCK FALSE
