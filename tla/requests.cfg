CONSTANTS
    m1 = m1
    c1 = c1
    c2 = c2
    Callers <- TwoCallers
    Maps <- OneMap
    NoMap = NoMap
    NoValue = NoValue
    Second = 3
    W = 2
    Asked <- AllAsked
    PermissionLists <- Lists10
    MaxClock = 2
    MaxRecords = 3
    FirstRecords <- TwoRecords
    DefaultLease = 2
SPECIFICATION AllSpec
INVARIANTS
    KeysendPaysItself
    TimeoutsFit
    RecipeIsRight
    KeyIsFound
    BasicClientIsAsAsked
    PagesAreComplete
    ChannelsAreSeen
    ToldIsHeld
CHECK_DEADLOCK FALSE
