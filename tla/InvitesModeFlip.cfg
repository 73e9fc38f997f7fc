SPECIFICATION Spec
CONSTANTS
    m1 = m1
    m2 = m2
    m3 = m3
    c1 = c1
    c2 = c2
    c3 = c3
    Nobody = Nobody
    NoEmail = ""
    Emails = {"e1"}
    Modes = {"application", "closed"}
    FirstMode = "application"
    PluginModes = {"application"}
    InviteModes = {"application"}
    SiteIssues = FALSE
    Faults = FALSE
    Members = {m1, m2}
    Founders = {m1}
    Codes = {c1}
    Visitors = {1}
    Issuers = {}
    Options <- DefaultOptions
    MaxGranted = 0
INVARIANTS
    NoFallThrough
CHECK_DEADLOCK FALSE
