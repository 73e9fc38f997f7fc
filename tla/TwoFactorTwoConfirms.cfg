SPECIFICATION Spec
CONSTANTS
    s1 = s1
    s2 = s2
    s3 = s3
    b1 = b1
    b2 = b2
    None = None
    Secrets = {s1, s2, s3}
    Tabs = {1, 2}
    Browsers = {b1}
    PerSet = 1
    MaxSets = 2
SYMMETRY SignInSymmetry
PROPERTIES
    OffOnlyByDisable
CHECK_DEADLOCK FALSE
