SPECIFICATION MCFairSpec
CONSTANTS
  MaxSteps = 3
  MaxWeight = 5
  StepId <- MCStepId
  Concurrency = 2
  None = None
PROPERTIES
  TerminalIsFinal
  QuietAfterPreempt
  CooperativeStop
  Returns
  ImplementsPlanRun
CHECK_DEADLOCK FALSE
