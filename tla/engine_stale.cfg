SPECIFICATION Spec
CONSTANTS
  Scenarios <- ThreeScenarios
  StageCount <- ThreeStages
  MaxRuns = 2
  PaceChoices <- PacedOnly
  LeavesEarly = TRUE
INVARIANT DoneByOwnPost
