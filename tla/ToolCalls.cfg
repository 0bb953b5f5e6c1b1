SPECIFICATION Spec
CONSTANTS
    src = src
    gen = gen
    a = a
    b = b
    test = test
    quoting = quoting
    erase = erase
    Unset = Unset
    Absent = Absent
    Binary = Binary
    Half = Half
    Garbled = Garbled
    Files = {src, gen}
    Lines = {a, b}
    Commands = {test, erase}
    Catastrophic = {erase}
    ProjectRules <- MCRules
    Hooks <- MCHooks
    Requests <- MCRequests
    Texts <- MCTexts
    CheckOf <- MCCheckOf
    ExitLinesIn <- MCExitLines
    InitialDisks <- MCInitialDisks
    MaxCalls = 1
    MaxEdits = 2
INVARIANTS
    FileIsWhole
    HooksDecide
    EvidenceIsWatched
PROPERTIES
    PatchKeepsOthersLines
    ApprovedIsApplied
    CopyIsWhatWasReplaced
    BrokenRulesAreReported
    CallsEnd
CHECK_DEADLOCK FALSE
