SPECIFICATION Spec
CONSTANTS
  Scenarios <- Catalogue
  StageCount <- AllStages
  MaxRuns = 3
  PaceChoices <- AnyPace
  LeavesEarly = FALSE
INVARIANTS OutcomeIsTrue IdleIsClean ViewsAgree
PROPERTIES StagesLight SettledView KeepsContract
