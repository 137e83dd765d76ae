SPECIFICATION Spec
CONSTANTS
  MaxEdges = 2
  MaxFailures = 1
  MaxRequests = 1
INVARIANTS
  TypeOK
  CleanPayloads
  NotifyRepeatsReply
  KeyReportCurrent
PROPERTIES
  RequestAnswered
  ImplementsReporter
CHECK_DEADLOCK FALSE
