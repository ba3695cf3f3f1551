SPECIFICATION Spec
CONSTANTS
  Blank = Blank
  RawIds = {1}
  Tools = {"read"}
  FailureKinds = {"transient"}
  Verdicts = {"allow", "ask"}
  AutoCompact = TRUE
  Interactive = TRUE
  MaxBatch = 1
  MaxTurns = 2
  MaxSteers = 2
  MaxRounds = 2
  MaxParallel = 2
  MaxTransient = 1
  MaxMalformed = 1
  MaxRecovery = 1
  MaxEscalations = 1
INVARIANTS
  SteersConserved
  SkippedCallsAreSuperseded
