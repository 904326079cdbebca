SPECIFICATION ClientFairSpec
INVARIANT TurnsAreApart
PROPERTY EndedStays
PROPERTY TurnSettles
CONSTANTS
    None = None
    SentTexts <- MCTexts
    ErrorEvents = FALSE
    MaxToolCalls = 1
    MaxTurns = 2
    MaxAttempts = 3
    MaxWire = 1
CHECK_DEADLOCK FALSE
