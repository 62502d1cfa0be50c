SPECIFICATION Spec
CONSTANTS
  Scenarios <- ThreeScenarios
  StageCount <- ThreeStages
  MaxRuns = 3
  PaceChoices <- AnyPace
  LeavesEarly = TRUE
INVARIANTS TypeOK WalkBacked
PROPERTIES StageAdvances RunSettles
