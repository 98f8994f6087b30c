SPECIFICATION MCSpec
CONSTANTS
  MaxSteps = 4
  MaxWeight = 4
  StepId <- MCStepId
  Concurrency = 2
  None = None
INVARIANTS
  TypeOK
  DependenciesMet
  ResultsRecorded
  LaunchedAtOnce
  ReturnsClean
  CrucialLossConsulted
CHECK_DEADLOCK FALSE
