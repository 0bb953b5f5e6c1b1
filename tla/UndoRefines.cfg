SPECIFICATION Spec
CONSTANTS
    f1 = f1
    f2 = f2
    c1 = c1
    c2 = c2
    Files = {f1, f2}
    Contents = {c1, c2}
    Absent = Absent
    Partial = Partial
    NoFile = NoFile
    MaxSessions = 2
    MaxChanges = 2
    MaxUndos = 3
    MaxNotes = 1
    CanCrash = TRUE
    TornExtents = {"whole", "unterminated", "part", "character", "nothing"}
    CanFail = FALSE
    Concurrent = FALSE
PROPERTIES
    StackIsImplemented
    UndoAdvances
    NothingToUndoIsTrue
CHECK_DEADLOCK FALSE
