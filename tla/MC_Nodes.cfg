SPECIFICATION AllSpec
CONSTANTS
    Ids <- TwoNodes
    LCC_IF_RX_Q_LEN = 1
    ALIAS_WAIT_TICKS = 2
    ALIAS_MAX_RETRIES = 2
    RetryModulus = 4
    RemoteAliases <- FirstCandidates
    MaxRemote = 3
    QuickReplug = FALSE
    Searches <- SomeSearches
    VerifyIds <- SomeIds
    LCC_TRAIN_POOL_SIZE = 3
    MaxRequests = 4
    Trains = {"t1", "t2", "t3"}
    Far = "far"
    Throttles = {"h1", "h2"}
    Aliases = {"x", "y"}
    Speeds = {0, 200}
    Fns = {0, 69}
    LCC_MAX_CONSIST_SLAVES = 2
    Mixes <- ThreeMixes
    LCC_MAX_EVENT_REGISTRATIONS = 16
    LCC_MAX_EVENT_RANGES = 4
    EventTrains = {"t1"}
    Addrs = {4, 2047}
    Aspects = {129}
    MaxReports = 2
INVARIANTS 
    AllTypeOK AliasesAreSound SearchesFindTrains ConsistsObey ControllersAreTold EventsAreTrue
PROPERTY NodesAnswer
CHECK_DEADLOCK FALSE
