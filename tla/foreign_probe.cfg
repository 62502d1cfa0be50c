CONSTANTS
  Requests <- ThreeRequests
  Budget = 2
  MaxRefusals = 1
SPECIFICATION Spec
INVARIANTS TypeOK OneSource MutexKept AnsweredInTurns RejectionIsReal
PROPERTY Answered
CHECK_DEADLOCK FALSE
