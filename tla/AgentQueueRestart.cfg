SPECIFICATION FairSpec
CONSTANTS
    a1 = a1
    a2 = a2
    NoAgent = NoAgent
    NoHash = ""
    Agents = {a1, a2}
    PollSlots = {1}
    Offers <- OneTorrent
    InfoHash <- OneTorrentHash
    MaxTasks = 1
    Caps = {1}
    DefaultCap = 1
    TTL = 1
    MaxCompleted = 2
    MaxInFlight = 4
    Prompt = {a1, a2}
    Mortal = {a1}
    Restarts = TRUE
    Lossy = FALSE
    ProgressLines = FALSE
    Faults = FALSE
    RetireAgents = {}
    RetireTasks = FALSE
PROPERTIES
    CrashedWorkReturns
CHECK_DEADLOCK FALSE
