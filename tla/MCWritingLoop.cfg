SPECIFICATION Spec
CONSTANTS
  MaxRevisions = 2
  MaxAttempts = 3
INVARIANTS
  ShipsReviewedText
  IssuesCurrent
PROPERTIES
  ImplementsReview
CHECK_DEADLOCK FALSE
