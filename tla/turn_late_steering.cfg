SPECIFICATION Spec
CONSTANTS
  Blank = Blank
  RawIds = {1}
  Tools = {"read"}
  FailureKinds = {"other"}
  Verdicts = {"allow"}
  AutoCompact = FALSE
  Interactive = FALSE
  MaxBatch = 1
  MaxTurns = 2
  MaxSteers = 1
  MaxRounds = 2
  MaxParallel = 2
  MaxTransient = 1
  MaxMalformed = 1
  MaxRecovery = 1
  MaxEscalations = 1
PROPERTY
  SteeringHeardInItsTurn
