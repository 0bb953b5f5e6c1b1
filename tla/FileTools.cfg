SPECIFICATION FilesSpec
CONSTANTS
    Open = Open
    Root <- MCRoot
    InitialTrees <- MCInitialTrees
    Paths <- MCPaths
    Ranges <- MCRanges
    Targets <- MCTargets
    Globs = {{"f"}, {"f", "g", "tmp", "x"}}
    Names = {"a"}
    Ignored = {"tmp"}
    Hits = {"hit", "secret"}
    NewText <- MCNewText
    MAX_ENTRIES = 3
    MAX_MATCHES = 3
    MaxOutput = 3
    MaxSteps = 3
INVARIANTS
    ReadsStayInside
    FragmentsAreMarked

    
CHECK_DEADLOCK FALSE
