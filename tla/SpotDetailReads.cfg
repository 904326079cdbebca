SPECIFICATION Spec
CONSTANTS
    r1 = r1
    r2 = r2
    None = None
    Requests <- MCRequests
    Kinds <- MCKindsReaders
    BlankOverview <- MCNoVersion
    Hidden <- MCHidden
    DetailTtl = 2
    Prewarms = FALSE
    Galleries = FALSE
    ModifyMidFetch = FALSE
    LockOutlived = FALSE
    MaxTime = 3
    MaxFaults = 1
SYMMETRY RequestSymmetry
INVARIANT TypeOK
INVARIANT RefreshExclusive
INVARIANT FreshReplyIsCurrent
PROPERTY CellsSurvive
