SPECIFICATION ApiSpec
CONSTANTS
  MaxReplans = 2
  MaxResynth = 1
  PlannerMaxAttempts = 2
  MaxSteps = 3
INVARIANTS BackstopUnused ReplanConsumed DraftIsCurrent TerminalTogether StreamShowsEnd
PROPERTIES ProgressSound StreamsEnd CancelWins
CHECK_DEADLOCK FALSE
