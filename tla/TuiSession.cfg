SPECIFICATION FairSpec
CONSTANTS
    j1 = j1
    EventCap = 2
    ApprovalCap = 2
    MaxRuns = 2
    MaxEvents = 2
    MaxAsks = 2
    Jobs = {j1}
INVARIANTS
    AskedIsHeard
    StatusIsRight
PROPERTIES
    DecisionsAreAboutTheShownChange
    EveryRunEnds
CHECK_DEADLOCK FALSE
