SPECIFICATION Spec
CHECK_DEADLOCK FALSE
CONSTANTS
    None = None
    NoRegion = NoRegion
    SpotCount = 9
    Code <- MCCode
    Sido <- MCNull
    Sigungu <- MCNull
    Place <- MCPlace
    PerDay = 3
    Outlier = 60
    Named <- MCNamed
    Merged <- MCMerged
    Photo <- MCPhoto
    Addr <- MCAddr
    Title <- MCTitle
    Rate <- MCRate
    Moods <- MCMoods
    Score <- MCScore
    Embedded <- MCEmbedded
    Fit <- MCFit
    Vector <- MCVector
    Codes <- MCCodes
    Eats <- MCEats
    Dish <- MCDish
    Levels <- MCLevels
    CandidateLimit = 6
    ResultLimit = 4
    TitleLimit = 3
    MatchLimit = 3
    KeepRatio = 30
    Likeness <- MCLikeness
    Queries <- MCQueries
    Preferred <- MCPreferred
    CloseBy = 1
    SceneVector <- MCSceneVector
    Festivals <- MCFestivals
    Label <- MCLabel
    Begins <- MCBegins
    NaverSays <- MCNaverSays
    KtoSays <- MCKtoSays
    AnchorRadius = 3
    NearbyLimit = 4
    MinSeeds = 2
    SeedLimit = 3
    SavedShown = 4
    Seeds = 2
    Neighbours = 4
    TopRegions = 2
    SimilarShown = 3
    TopPerRegion = 2
    MaxRegions = 3
    ProfileShown = 2
    MaxRegionHints = 3
    MaxDays = 4
    Users <- MCUsers
    Rounds <- MCRounds
    MaxCalls = 2
    MaxPerRound = 3
    MaxRounds = 2
    MaxTurns = 2
    MaxChanges = 1
INVARIANTS RegionsKept ConditionsKept PlanKept SavedNeverRecommended DialogueAccepted
 
