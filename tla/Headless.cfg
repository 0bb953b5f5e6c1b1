SPECIFICATION HeadlessSpec
CONSTANTS
    readFile = readFile
    writeA = writeA
    writeB = writeB
    runTests = runTests
    runBuild = runBuild
    ToolOf <- MCToolOf
    KindOf <- MCKindOf
    CheckOf <- MCCheckOf
    Calls = {writeA, runTests}
    MaxTurns = 2
    LoopThreshold = 2
    Limit = 2
    MaxCost = 1
    MaxCalls = 2
    MaxPrompts = 1
    Decisions = {"approve", "deny"}
    Teaching = FALSE
    CanAbort = FALSE
    ChannelSize = 2
    MaxTexts = 1
INVARIANTS
    ZeroExitIsEarned
PROPERTIES
    CommandEnds
CHECK_DEADLOCK FALSE
