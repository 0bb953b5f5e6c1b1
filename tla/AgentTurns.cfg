SPECIFICATION FairSpec
CONSTANTS
    readFile = readFile
    writeA = writeA
    writeB = writeB
    runTests = runTests
    runBuild = runBuild
    ToolOf <- MCToolOf
    KindOf <- MCKindOf
    CheckOf <- MCCheckOf
    Calls = {readFile, writeA, writeB, runTests}
    MaxTurns = 2
    LoopThreshold = 3
    Limit = 2
    MaxCost = 1
    MaxCalls = 2
    MaxPrompts = 1
    Decisions = {"approve", "always", "deny", "abort"}
    Teaching = TRUE
    CanAbort = TRUE
INVARIANTS
    ChangeIsConfirmed
    PanelCoversWrites
    RepetitionIsCut
PROPERTIES
    RunEnds
CHECK_DEADLOCK FALSE
