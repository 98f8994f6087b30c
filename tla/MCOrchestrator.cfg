SPECIFICATION Spec
CONSTANTS
  Names = {a, b}
  Squatted = {a}
  MaxReplans = 1
  MaxResynth = 1
  PlannerMaxAttempts = 2
  Concurrency = 2
  MaxSteps = 2
INVARIANTS KahnDecides PlanSound GroundedInputs HandedOverFresh 
PROPERTIES FrozenForGood ImplementsOuterLoop
CHECK_DEADLOCK FALSE
