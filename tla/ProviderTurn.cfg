SPECIFICATION Spec
CONSTANTS
    Protocols = {"anthropic", "openai"}
    MaxBlocks = 3
    MaxPieces = 2
    Replies <- MCReplies
INVARIANTS
    CallsAreWhole
    CallsKeepTheirOrder
    WholeStreamIsAccountedFor
    NamedEndingIsTrue
CHECK_DEADLOCK FALSE
