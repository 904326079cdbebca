SPECIFICATION FairSpec
CONSTANTS
    r1 = r1
    r2 = r2
    None = None
    Requests <- MCRequests
    Kinds <- MCKindsDeferred
    BlankOverview <- MCNoVersion
    Hidden <- MCNoVersion
    DetailTtl = 2
    Prewarms = FALSE
    Galleries = FALSE
    ModifyMidFetch = FALSE
    LockOutlived = TRUE
    MaxTime = 2
    MaxFaults = 1
PROPERTY SettlesFresh
PROPERTY LockRemovedByOwner
