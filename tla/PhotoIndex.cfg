\* Two spots, two images of which one cannot be decoded, two processes.
SPECIFICATION FairSpec
CONSTANTS
    NumSpots = 2
    Urls = {u1, u2}
    Dead = {u2}
    MorePhotos = {1}
    Near <- AllNear
    Jobs = {j1, j2}
    Limit = 2
    BatchSize = 2
    MatchCount = 1
    LockOutlived = FALSE
    MaxChanges = 1
    MaxFaults = 1
    None = None
    Absent = Absent
INVARIANTS TypeOK IndexIsCurrent
PROPERTIES RetryListHolds PhotosCatchUp
CHECK_DEADLOCK FALSE
