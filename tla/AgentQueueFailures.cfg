SPECIFICATION Spec
CONSTANTS
    a1 = a1
    a2 = a2
    NoAgent = NoAgent
    NoHash = ""
    Agents = {a1, a2}
    PollSlots = {1}
    Offers <- OneTorrent
    InfoHash <- OneTorrentHash
    MaxTasks = 2
    Caps = {1, 2}
    DefaultCap = 1
    TTL = 0
    MaxCompleted = 1
    MaxInFlight = 1
    Prompt = {}
    Mortal = {a1}
    Restarts = TRUE
    Lossy = TRUE
    ProgressLines = FALSE
    Faults = TRUE
    RetireAgents = {a1}
    RetireTasks = TRUE
INVARIANTS
    OneRowPerTorrent
PROPERTIES
    DealtWithOnce
    FinishedIsFinal
CHECK_DEADLOCK FALSE
