SPECIFICATION Spec
CONSTANTS
  Workers = {w1, w2}
  None = None
  MaxPrompts = 1
  MaxExtras = 1
PROPERTY WaitRefusesOnlyUnfinished
CHECK_DEADLOCK FALSE
