SPECIFICATION RouteSpec
CONSTANTS
    a = a
    b = b
    c = c
    own = own
    other = other
    AllRoutes = {a, b, c}
    Requests = {x, y}
    Own = own
    Models = {own, other}
    Similar = {other}
    RememberFor = 4
    ModelCooldown = 2
    FreshFor = 4
    Listed <- MCListed
    Priority <- MCPriority
    Offers <- MCOffers
    Session <- MCSession
    Configs <- MCConfigs
    NoRoute = NoRoute
    Threshold = 2
    Cooldown = 2
    CooldownMax = 3
    CooldownTimes = 2
    PriorityWeight = 150
    ProbeFor = 2
    IdleAfter = 2
    MaxClock = 4
INVARIANT OwnModelFirst
PROPERTIES PriorityHonoured SessionStays
SYMMETRY Symmetry
CHECK_DEADLOCK FALSE
CONSTRAINT OneOnRoute
