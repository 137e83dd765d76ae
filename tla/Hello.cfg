SPECIFICATION Spec
CONSTANTS
  Wrap = 1000
  COUNT_TO_MIN = 20
  COUNT_TO_MAX = 40
  PROGRESSION = 10
  CountStart = 30
  Notifies = 1
  PipeLines = 2
  StreamLines = 2
  MaxClients = 2
  Together = 1
  MaxLines = 3
  Ends = {"client", "server"}
INVARIANTS
  TypeOK
  LinesInOrder
  CountInRange
PROPERTIES
  HelloCompletes
  WriteUnblocks
  ClientReturns
CHECK_DEADLOCK FALSE
