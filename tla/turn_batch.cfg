SPECIFICATION FairSpec
CONSTANTS
  Blank = Blank
  RawIds = {1}
  Tools = {"read", "write"}
  FailureKinds = {"outputLimit", "transient"}
  Verdicts = {"allow", "ask", "deny"}
  AutoCompact = TRUE
  Interactive = TRUE
  MaxBatch = 3
  MaxTurns = 1
  MaxSteers = 1
  MaxRounds = 1
  MaxParallel = 2
  MaxTransient = 1
  MaxMalformed = 1
  MaxRecovery = 1
  MaxEscalations = 0
INVARIANTS
  TypeOK
  PermissionIsForTheCall
  BarriersHold
  StopsPromptly
PROPERTIES
  CancelEndsTurn
  TurnEnds
