SPECIFICATION Spec
CONSTANTS
    readFile = readFile
    writeA = writeA
    writeB = writeB
    runTests = runTests
    runBuild = runBuild
    ToolOf <- MCToolOf
    KindOf <- MCKindOf
    CheckOf <- MCCheckOf
    Calls = {writeA, runTests, runBuild}
    MaxTurns = 2
    LoopThreshold = 2
    Limit = 2
    MaxCost = 1
    MaxCalls = 2
    MaxPrompts = 3
    Decisions = {"approve", "abort"}
    Teaching = TRUE
    CanAbort = TRUE
INVARIANTS
    GreenTickIsEarned
    OverspendBounded
    RunAnswersItsCalls
CHECK_DEADLOCK FALSE
