SPECIFICATION Spec
CONSTANTS
    j1 = j1  j2 = j2  j3 = j3
    gitignore = gitignore  notes = notes  x = x  y = y
    JobIds = {j1, j2, j3}
    NoJob = NoJob
    MaxRunning = 2
    MaxRetained = 2
    ReapLimit = 1
    DrainLimit = 1
    Patience = 4
    Files = {gitignore, notes}
    Contents = {x, y}
    Absent = Absent
    IgnoreFile = gitignore
    Hides <- MCHides
    Tracked = {}
    NoFile = NoFile
    WorkTrees <- MCWorkTrees
    Budgets <- MCBudgets
INVARIANTS ToldIsFinal RunningIsListed ClosedIsQuiet UndoRunsAlone
PROPERTIES UndoIsExact SessionCloses
CHECK_DEADLOCK FALSE
