SPECIFICATION Spec
CONSTANTS
  Query = {q1, q2}
  Slot = {s1, s2}
  MaxSearchCalls = 2
  RunLimit = 2
  ToolRetryAttempts = 1
INVARIANTS
  SearchBudget
  Grounded
CHECK_DEADLOCK FALSE
