SPECIFICATION UsersSpec
CONSTANTS
    d1 = d1  d2 = d2  kakao = kakao  apple = apple  s1 = s1  mail = mail
    Device <- MCDevice
    Call <- MCCall
    Identity <- MCIdentity
    EmailOf <- MCEmailOf
    Spot = {s1}
    NoEmail = NoEmail
    NoUser = NoUser
    NoToken = NoToken
    MaxLogin = 2
    MaxAct = 1
    MaxFault = 1
    SignIn = {l1, l2}
    NumKeys = 2
    FreshFor = 2
    StaleFor = 3
    FetchTime = 1
    NoKeys = NoKeys
    Place = {p1, p2}
    PageLimit = 1
    Unknown = Unknown
    MaxTaps = 3
    MaxTroubles = 1
INVARIANTS AccountsAreApart KeysFollow
PROPERTIES SavedSettles
CHECK_DEADLOCK FALSE
