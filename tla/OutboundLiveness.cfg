\* One attempt under every interleaving, in fair runs without a crash.
CONSTANTS
    Leads = {l1}
    Attempts = {a1}
    None = None
    MaxConcurrent = 1
    MaxOps = 1
    MaxCrashes = 0
    HistoryMayFail = TRUE
    StaleMayRace = TRUE
    LossyAri = FALSE
SPECIFICATION FairSpec
PROPERTY
    AttemptCloses
