SPECIFICATION FairSpec
INVARIANT NothingSkipped
PROPERTY RowsAreKept
PROPERTY CatalogueCatchesUp
CONSTANTS
    None = None
    a = a
    b = b
    c = c
    Spots <- MCSpots
    Early <- MCEarly
    Order <- MCOrder
    PageSize = 1
    PerDay = 1
    PerMonth = 3
    MaxCatchupDays = 1
    MaxCatchupMonths = 1
    Churn = FALSE
    MaxTime = 3
    MaxChanges = 2
    MaxFaults = 1
CHECK_DEADLOCK FALSE
