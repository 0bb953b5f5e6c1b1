SPECIFICATION Spec
CONSTANTS
    f1 = f1
    f2 = f2
    c1 = c1
    c2 = c2
    Files = {f1, f2}
    Contents = {c1, c2}
    Absent = Absent
    Partial = Partial
    NoFile = NoFile
    MaxSessions = 1
    MaxChanges = 2
    MaxUndos = 2
    MaxNotes = 1
    CanCrash = TRUE
    TornExtents = {"whole", "unterminated", "part", "character", "nothing"}
    CanFail = TRUE
    Concurrent = TRUE
INVARIANTS
    SavedCopiesAreGenuine
SYMMETRY MCSymmetry
CHECK_DEADLOCK FALSE
