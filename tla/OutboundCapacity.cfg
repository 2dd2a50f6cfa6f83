\* One slot and two attempts: an operator interferes once, and a recycled lead
\* competes with its own call.
CONSTANTS
    Leads = {l1}
    Attempts = {a1, a2}
    None = None
    MaxConcurrent = 1
    MaxOps = 1
    MaxCrashes = 0
    HistoryMayFail = TRUE
    StaleMayRace = FALSE
    LossyAri = FALSE
SYMMETRY Symm
SPECIFICATION Spec
INVARIANTS
    CapacityRespected
PROPERTY
    CompletedIsQuiet
