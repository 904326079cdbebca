SPECIFICATION Spec
INVARIANT FestivalsAreCurrent
INVARIANT RankingsHold
 
INVARIANT PagedWhole
PROPERTY FestaCatchesUp
CONSTANTS
    None = None
    r1 = r1
    r2 = r2
    g1 = g1
    g2 = g2
    g3 = g3
    SpotCount = 8
    Code <- MCCode
    Sido <- MCSido
    Sigungu <- MCSigungu
    Place <- MCPlace
    Photo <- MCPhoto
    Signal <- MCSignal
    Nearness <- MCNearness
    Aesthetic <- MCAesthetic
    Rate <- MCRate
    Shuffle <- MCShuffle
    Embedded <- MCEmbedded
    Between <- MCBetween
    Regions <- MCRegions
    Here = 0
    Radius = 2
    FestaLists <- MCFestaLists
    SavedLists <- MCSavedLists
    Course <- MCCourse
    Program = g1
    TrendingPattern <- MCTrending
    NearbyPattern <- MCNearby
    CardCount = 6
    MapLimit = 3
    TasteLimit = 2
    SeedLimit = 2
    MinTasteSeeds = 2
    NeighborOverfetch = 2
    MaxLoads = 2
    MaxFlags = 1
    Posts = {1, 2, 3, 4, 5}
    Seeds = {1, 2}
    Key <- MCKey
    Country <- MCCountry
    PostLimit = 3
    MaxChanges = 2
    NoList = NoList
    f1 = f1
    f2 = f2
    f3 = f3
    Festivals <- MCFestivals
    Begins <- MCBegins
    Ends <- MCEnds
    Pictured <- MCPictured
    Listings <- MCListings
    Slots = {1, 2}
    FestaCards = 2
    PageRows = 2
    MaxPages = 2
    PoolWave = 2
    FestaWindow = 0
    PoolWindow = 9
    FestaTtl = 2
    PoolTtl = 2
    MaxDay = 3
    MaxFailures = 1
CHECK_DEADLOCK FALSE
