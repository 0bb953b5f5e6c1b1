SPECIFICATION Spec
CONSTANTS
    first = first
    second = second
    Sessions = {first, second}
    Order <- MCOrder
    Names <- MCNames
    Concept <- MCConcept
    Wide = {"oe-ownership"}
    RawQuestions <- MCRawQuestions
    PromptLimit = 1
    Base = 2
    Mixes <- MCMixes
    MaxStarts = 3
    MaxQuestions = 3
INVARIANTS
    CountsAreEarned
    NothingIsForgotten
CHECK_DEADLOCK FALSE
