SPECIFICATION JobsSpec
CONSTANTS
    park = park
    beach = beach
    market = market
    gangnam = gangnam
    haeundae = haeundae
    jeju = jeju
    seoul = seoul
    cafe = cafe
    food = food
    b1 = b1
    b2 = b2
    kr = kr
    fr = fr
    it = it
    f1 = f1
    f2 = f2
    Places = {park, beach, market}
    Sigungus <- MCSigungus
    SigunguOf <- MCSigunguOf
    Called <- MCCalled
    Normal <- MCNormal
    Forecasts <- MCForecasts
    NoRate = NoRate
    NoRow = NoRow
    LastDay = 1
    SyncFaults = 1
    NumRated = 3
    Regions <- MCRegions
    RegionAt <- MCRegionAt
    LongTitle = {1, 3}
    Themes <- MCThemes
    Posts <- MCPosts
    Searches <- MCSearches
    PageSize = 1
    NoLink = NoLink
    NoBuzz = NoBuzz
    MaxTouched = 1
    WeekFaults = 1
    NumPosts = 3
    Countries <- MCCountries
    Of <- MCOf
    Towns = {3}
    Files = {f1, f2}
    Undecodable <- MCUndecodable
    Intro <- MCIntro
    Lengths = {0, 2}
    MinDesc = 2
    BatchOf = 1
    MaxEdits = 1
    MonthFaults = 1
    Gone = Gone
INVARIANTS CrowdsAreOwn PostsCountedOnce
PROPERTIES PostsKept JobsCatchUp
