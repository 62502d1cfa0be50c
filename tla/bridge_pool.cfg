CONSTANTS
  Requests <- ThreeRequests
  ScenarioOf <- Mixed
  Threads = 2
  ClientTimeout = 1
  CallerTimeout = 1
  CallerPrints <- Prints
  MaxHangs = 1
  MaxCrashes = 1
SPECIFICATION Spec
INVARIANTS TypeOK CallersBounded RequestKept VerdictHasCause
PROPERTIES UserAnswered QueueMoves
CHECK_DEADLOCK FALSE
