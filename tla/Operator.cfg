SPECIFICATION OperatorSpec
CONSTANTS
    a1 = a1
    a2 = a2
    NoAgent = NoAgent
    NoHash = ""
    Agents = {a1}
    PollSlots = {1}
    Offers <- ThreeTorrents
    InfoHash <- ThreeTorrentsHash
    MaxTasks = 3
    Caps = {1, 2}
    DefaultCap = 1
    TTL = 1
    MaxCompleted = 2
    MaxInFlight = 1
    Prompt = {}
    Mortal = {}
    Restarts = FALSE
    Lossy = FALSE
    ProgressLines = FALSE
    Faults = FALSE
    RetireAgents = {}
    RetireTasks = FALSE
    Order <- Providers
    Kind <- Matchers
    Noise <- EncodingNoise
    LocalIds = {0, 2}
    Stride = 2
    Titles = {{"thing"}, {"thing", "called", "love"}}
    Raws = {{"thing", "2160p"}}
    NoId = NoId
    p1 = p1
    p2 = p2
    j1 = j1
    j2 = j2
    Posters = {"poster"}
    Releases = {"r1"}
    PosterOf <- OnePoster
    Callers = {j1, j2}
    MaxGets = 2
    Processes = {p1, p2}
    Saves = {j1, j2}
    Forms = {"access", "invite", "search", "shop", "donate"}
    Unset = Unset
    MaxSaves = 2
    MaxBoots = 1
    MaxMishaps = 1
    Torrents = {"t1", "t2"}
    Admins = {"admin"}
    MaxWindow = 2
    Hours = {0, 1, 3}
    LastHour = 3
    MaxFailures = 1
SYMMETRY OperatorSymmetry
INVARIANTS
    CatalogAnswersRight
    CoversAreSound
    MemoryFollowsRows
    AnnounceFollowsWrites
PROPERTIES
    CappedAndCounted
CHECK_DEADLOCK FALSE
