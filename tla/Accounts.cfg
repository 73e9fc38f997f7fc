SPECIFICATION AccountsSpec
CONSTANTS
    s1 = s1
    s2 = s2
    s3 = s3
    b1 = b1
    b2 = b2
    None = None
    Secrets = {s1, s2, s3}
    Tabs = {1, 2}
    Browsers = {b1, b2}
    PerSet = 1
    MaxSets = 2
    a1 = a1
    a2 = a2
    NoAddress = NoAddress
    Accounts = {a1, a2}
    Addresses = {"x1", "x2", "x3"}
    Links = {1, 2}
    OneOwner = TRUE
    k1 = k1
    k2 = k2
    Redis = "redis"
    Callers = {k1, k2}
    Replicas = {"r1"}
    Burst = 1
    Every = 2
    Minute = 3
    Second = 1
    MaxBuckets = 2
    MaxTrying = 1
    Voters = {"v1", "v2", "v3"}
    Curators = {"v1", "v2"}
    Subjects = {"m"}
    Community = "nobody"
    MaxItems = 1
    MaxPictures = 1
    MaxModMishaps = 1
SYMMETRY AccountsSymmetry
INVARIANTS
    CodeOpensOnce
    CodesStandBehindFactor
    NoLinkFromOldAddress
PROPERTIES
    AcceptedCodeWasValid
    PasswordAloneOnlyWhileOff
    SecretMovesAsVerified
    KeepsBudget
    VotesDecide
CHECK_DEADLOCK FALSE
