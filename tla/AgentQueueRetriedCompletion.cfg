SPECIFICATION Spec
CONSTANTS
    a1 = a1
    a2 = a2
    NoAgent = NoAgent
    NoHash = ""
    Agents = {a1}
    PollSlots = {1}
    Offers <- TwoTorrents
    InfoHash <- TwoTorrentsHash
    MaxTasks = 2
    Caps = {1}
    DefaultCap = 1
    TTL = 1
    MaxCompleted = 2
    MaxInFlight = 2
    Prompt = {}
    Mortal = {}
    Restarts = FALSE
    Lossy = TRUE
    ProgressLines = FALSE
    Faults = FALSE
    RetireAgents = {}
    RetireTasks = FALSE
INVARIANTS
    CounterWithinGrants
CHECK_DEADLOCK FALSE
