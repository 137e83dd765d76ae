SPECIFICATION Spec
CONSTANTS
  MaxEdges = 1
  MaxFailures = 0
  MaxRequests = 1
INVARIANT
  ReplyDocumented
CHECK_DEADLOCK FALSE
