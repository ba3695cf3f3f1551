SPECIFICATION Spec
CONSTANTS
  MaxPrompts = 2
  MaxResponses = 3
  MaxCalls = 1
  MaxRetries = 1
INVARIANTS
  TypeOK
  CursorCoversPrefix
  NoOrphanOutputs
CHECK_DEADLOCK FALSE
