SPECIFICATION Spec
CONSTANTS
    m1 = m1
    m2 = m2
    m3 = m3
    c1 = c1
    c2 = c2
    c3 = c3
    Nobody = Nobody
    NoEmail = ""
    Emails = {"e1"}
    Modes = {"invite"}
    FirstMode = "invite"
    PluginModes = {}
    InviteModes = {}
    SiteIssues = FALSE
    Faults = FALSE
    Members = {m1}
    Founders = {m1}
    Codes = {c1}
    Visitors = {}
    Issuers = {1}
    Options <- DefaultOptions
    MaxGranted = 1
PROPERTIES
    OnlyPendingIsCancelled
CHECK_DEADLOCK FALSE
