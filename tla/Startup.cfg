SPECIFICATION StartupSpec
CONSTANTS
    Unset = Unset
    Layers <- MCLayers
    Environments <- MCEnvironments
    KeyringModes = {"works", "locked", "absent"}
    Parts = {"rules", "mcp", "commands", "hooks", "profile"}
    Flags <- MCFlags
    WantedModels <- MCWantedModels
    Servers <- MCServers
    CommandFiles <- MCCommandFiles
    TypedWords <- MCTypedWords
    PartStates = {"broken"}
    MaxStarts = 2
    MaxEdits = 1
    MaxKey = 1
    CanCrash = TRUE
INVARIANTS
    SetupLasts
    KeyMeetsItsProvider
    KeysAreFiledWhereTyped
    DoctorIsRight
    EveryServerIsAccountedFor
    ArgumentsArrive
CHECK_DEADLOCK FALSE
