SPECIFICATION Spec
CONSTANTS
    readFile = readFile
    writeA = writeA
    writeB = writeB
    runTests = runTests
    runBuild = runBuild
    ToolOf <- MCToolOf
    KindOf <- MCKindOf
    CheckOf <- MCCheckOf
    Calls = {readFile, writeA}
    MaxTurns = 2
    LoopThreshold = 3
    Limit = 0
    MaxCost = 0
    MaxCalls = 2
    MaxPrompts = 2
    Decisions = {"approve", "deny", "abort"}
    Teaching = FALSE
    CanAbort = FALSE
INVARIANTS
    EveryRequestIsValid
CHECK_DEADLOCK FALSE
