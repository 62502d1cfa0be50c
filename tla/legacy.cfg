CONSTANTS
  Pages <- AllPages
  StoryLen = 3
  MaxRuns = 3
SPECIFICATION Spec
INVARIANTS TypeOK OneRun OwnStory
PROPERTY ButtonReturns
CHECK_DEADLOCK FALSE
