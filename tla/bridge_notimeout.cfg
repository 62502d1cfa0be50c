CONSTANTS
  Requests <- ThreeRequests
  ScenarioOf <- Mixed
  Threads = 2
  ClientTimeout = 1
  CallerTimeout = 1
  CallerPrints <- Prints
  MaxHangs = 1
  MaxCrashes = 0
SPECIFICATION Spec
PROPERTY HungCallerEnds
CHECK_DEADLOCK FALSE
