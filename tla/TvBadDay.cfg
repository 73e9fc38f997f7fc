SPECIFICATION JobsSpec
CONSTANTS
    Members = {"m1", "m2"}
    Gifts = {"g1", "g2"}
    Changes = {"c1"}
    Amounts = {1, 2}
    GiftMin = 1
    GiftMax = 1
    Nobody = Nobody
    Bonus = 1
    MaxMinted = 3
    MaxApart = 2
    Kinds <- Movies
    KindOf <- MoviesAndTv
    TitleOf <- TwoTitles
    Batch = 1
    MaxId = 3
    MaxSlips = 1
    LastEpisode = 3
    Days = {"mon", "tue"}
    DayOf <- MondayTuesday
    ShowOf <- OneShow
    Runners = {"loop"}
    FilePerPass = 1
    MaxBad = 1
    Processes = {"web"}
    DonationsOn = FALSE
    TrackerOn = FALSE
    DispatchOn = FALSE
    MaxTroubles = 0
INVARIANTS
    BadDayIsAbsorbed
CHECK_DEADLOCK FALSE
