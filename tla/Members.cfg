SPECIFICATION MembersSpec
CONSTANTS
    p1 = p1
    p2 = p2
    q1 = q1
    q2 = q2
    Uploaders = {"u1"}
    Pictures = {p1, p2}
    Offers = {"o1"}
    Requests = {q1, q2}
    NoPicture = NoPicture
    r1 = "r1"
    r2 = "r2"
    r3 = "r3"
    Keepers = {"k1"}
    Browsing = {1, 2}
    Releases = {"r1", "r2", "r3"}
    Titles <- TwoNamesakes
    Wishes = {1}
    CartCap = 1
    CartMax = 1
    WishCap = 1
    NoKeeper = "nobody"
    s1 = s1
    s2 = s2
    Seeders = {s1, s2}
    Runs = {"loop", "trigger"}
    Economies = {"classic", "pool"}
    Rate <- Rates
    CapRate = 1
    Unit = 3
    Interval = 1
    Never = Never
    LastTick = 3
    MaxMishaps = 1
    Processes = {"web", "worker"}
    DonationsOn = TRUE
    TrackerOn = TRUE
    DispatchOn = TRUE
    MaxTroubles = 1
    Servers = {"web"}
    Admins = {"admin"}
    Shipped <- OneLink
    Custom = "extra"
    Page = "/pages/p"
    Gated = {}
    Edits = {"remove menu", "remove link", "add link"}
    MaxRow = 2
    MaxNavMishaps = 1
    Arrangers = {"o1", "o2"}
    Hosts = {"web"}
    Alphabet <- TwoWidgets
    Optional = {"swarm"}
    Regions = {"release-main"}
    Viewed = {"/", "/admin"}
    Rules <- NotForAdmins
    MaxPosition = 2
    MaxWidgetMishaps = 1
    Planters = {"web"}
    Picks <- ThreePicks
    Shares <- TwoShares
    Trimmed = {"ranks", "items", "categories"}
    MaxEdits = 2
    MaxPlantMishaps = 2
    Torrents = {0, 1, 2, 3}
    Holders = {0, 1}
    LastSeenStep = 4
    LastSeenMax = 55
    SwarmEvery = 20
    SwarmWindow = 60
    AnnounceEvery = 30
    Grain = 10
    Clients <- OneClient
    LastMinute = 240
    MaxSwarmMishaps = 1
    Workers = {"w1"}
    Owners = {"o1", "o2"}
    Names = {"n1"}
    Keys = {"k1", "k2"}
    Nobody = "nobody"
    MaxAgents = 2
    MaxTokens = 4
    MaxAsking = 1
    MaxRegistryMishaps = 1
SYMMETRY MembersSymmetry
INVARIANTS
    SweptIsUnneeded
    CartBounded
    EarnedIsPaidOnce
    ServesWhole
    MenusAreWhole
    CredentialsHold
PROPERTIES
    LayoutIsTheOperators
    SeedsKeepTheirWord
    SwarmIsPlausible
CHECK_DEADLOCK FALSE
