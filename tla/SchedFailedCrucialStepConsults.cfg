SPECIFICATION MCSpec
CONSTANTS
  MaxSteps = 2
  MaxWeight = 3
  StepId <- MCStepId
  Concurrency = 2
  None = None
INVARIANT FailedCrucialStepConsults
CHECK_DEADLOCK FALSE
