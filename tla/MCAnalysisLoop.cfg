SPECIFICATION Spec
CONSTANTS
  Slot = {s1, s2, s3}
  MaxComputeCalls = 4
  RunLimit = 4
  Scale = 32768
INVARIANTS BudgetHonest SpendReported MetricsAgree
CHECK_DEADLOCK FALSE
