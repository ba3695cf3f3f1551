SPECIFICATION Spec
CONSTANTS
  Blank = Blank
  RawIds = {2, Blank}
  Tools = {"manage"}
  FailureKinds = {"malformed", "context", "other"}
  Verdicts = {"allow"}
  AutoCompact = TRUE
  Interactive = FALSE
  MaxBatch = 2
  MaxTurns = 2
  MaxSteers = 0
  MaxRounds = 2
  MaxParallel = 2
  MaxTransient = 1
  MaxMalformed = 1
  MaxRecovery = 1
  MaxEscalations = 1
INVARIANTS
  HistoryPaired
  UniqueIds
  BaselineMeasuresPrefix
  ArchiveComplete
  AnnouncedCallsAnswered
