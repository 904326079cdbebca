SPECIFICATION Spec
CONSTANTS
    r1 = r1
    r2 = r2
    None = None
    Requests <- MCRequests
    Kinds <- MCKindsAll
    BlankOverview <- MCBlank
    Hidden <- MCNoVersion
    DetailTtl = 2
    Prewarms = TRUE
    Galleries = TRUE
    ModifyMidFetch = FALSE
    LockOutlived = FALSE
    MaxTime = 2
    MaxFaults = 0
SYMMETRY RequestSymmetry
INVARIANT JobsKeepCurrent
