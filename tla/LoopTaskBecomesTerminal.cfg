SPECIFICATION FairSpec
CONSTANTS
  MaxReplans = 1
  MaxResynth = 1
  PlannerMaxAttempts = 2
  MaxSteps = 2
PROPERTY TaskBecomesTerminal
CHECK_DEADLOCK FALSE
