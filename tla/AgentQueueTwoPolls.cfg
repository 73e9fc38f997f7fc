SPECIFICATION Spec
CONSTANTS
    a1 = a1
    a2 = a2
    NoAgent = NoAgent
    NoHash = ""
    Agents = {a1}
    PollSlots = {1, 2}
    Offers <- TwoTorrents
    InfoHash <- TwoTorrentsHash
    MaxTasks = 2
    Caps = {1}
    DefaultCap = 1
    TTL = 1
    MaxCompleted = 1
    MaxInFlight = 2
    Prompt = {}
    Mortal = {}
    Restarts = FALSE
    Lossy = FALSE
    ProgressLines = FALSE
    Faults = FALSE
    RetireAgents = {}
    RetireTasks = FALSE
PROPERTIES
    GrantWithinCap
CHECK_DEADLOCK FALSE
