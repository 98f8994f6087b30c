SPECIFICATION Spec
CONSTANTS
  MaxSyntaxRetries = 8
  MaxReviewRetries = 5
INVARIANTS
  ParseStateHonest
  WithinEstimate
PROPERTY ImplementsReview
CHECK_DEADLOCK FALSE
