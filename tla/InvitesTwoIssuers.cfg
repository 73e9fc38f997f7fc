SPECIFICATION Spec
CONSTANTS
    m1 = m1
    m2 = m2
    m3 = m3
    c1 = c1
    c2 = c2
    c3 = c3
    Nobody = Nobody
    NoEmail = ""
    Emails = {"e1"}
    Modes = {"invite"}
    FirstMode = "invite"
    PluginModes = {}
    InviteModes = {}
    SiteIssues = FALSE
    Faults = FALSE
    Members = {m1, m2}
    Founders = {m1, m2}
    Codes = {c1, c2}
    Visitors = {}
    Issuers = {1, 2}
    Options <- DefaultOptions
    MaxGranted = 1
INVARIANTS
    OneLiveInvitePerAddress
CHECK_DEADLOCK FALSE
