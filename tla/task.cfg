SPECIFICATION Spec
CONSTANTS
  Workers = {w1, w2}
  None = None
  MaxPrompts = 2
  MaxExtras = 2
INVARIANTS TypeOK PromptsOnceInOrder CancelsItsOwnTurn IdleShowsItsResult
PROPERTIES WaitPrintsItsTurn LaunchIsTakenOrRetryable ReportSettles
CHECK_DEADLOCK FALSE
