SPECIFICATION FairSpec
INVARIANT ShownWithinBudget
PROPERTY ImplementsStream
PROPERTY SearchIsStopped
PROPERTY TurnEnds
CONSTANTS
    None = None
    search = search
    nearby = nearby
    lookup = lookup
    misnamed = misnamed
    Calls <- MCCalls
    Unknown <- MCUnknown
    Factual <- MCFactual
    Openings <- MCOpenings
    MaxToolCalls = 4
    MaxCallsPerRound = 2
    TotalBudget = 2
    ToolTimeout = 1
    DecideLimit = 2
    MaxPieces = 2
CHECK_DEADLOCK FALSE
