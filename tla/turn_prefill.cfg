SPECIFICATION Spec
CONSTANTS
  Blank = Blank
  RawIds = {1}
  Tools = {"read"}
  FailureKinds = {"other"}
  Verdicts = {"allow"}
  AutoCompact = TRUE
  Interactive = FALSE
  MaxBatch = 1
  MaxTurns = 2
  MaxSteers = 0
  MaxRounds = 2
  MaxParallel = 2
  MaxTransient = 1
  MaxMalformed = 1
  MaxRecovery = 1
  MaxEscalations = 1
INVARIANT
  NoAssistantPrefill
