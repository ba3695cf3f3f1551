SPECIFICATION Spec
CONSTANTS
    s1 = s1  s2 = s2
    Sessions = {s1, s2}
    NoSession = NoSession
    Screens = {tui}
    Lines = {repl}
    OldMessages <- MCOldMessages
    OldArchives <- MCOldArchives
    Budgets <- MCBudgets
INVARIANTS NothingLost OriginalsKept
PROPERTIES ArchiveIsALog SavedOverItsOwn
CHECK_DEADLOCK FALSE
