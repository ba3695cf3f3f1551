SPECIFICATION Spec
CONSTANTS
  MaxPrompts = 2
  MaxResponses = 3
  MaxCalls = 2
  MaxRetries = 1
INVARIANTS
  ContinuationIsLossless
CHECK_DEADLOCK FALSE
