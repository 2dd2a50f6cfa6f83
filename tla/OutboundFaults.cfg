\* Two attempts for one lead and every fault of the engine and of Asterisk at
\* once; no operator, so only a bug dials twice.
CONSTANTS
    Leads = {l1}
    Attempts = {a1, a2}
    None = None
    MaxConcurrent = 1
    MaxOps = 0
    MaxCrashes = 1
    HistoryMayFail = TRUE
    StaleMayRace = TRUE
    LossyAri = TRUE
SYMMETRY Symm
SPECIFICATION Spec
INVARIANTS
    TypeOK
    NoAutoRedial
    FailClosed
    RejectedIsOwned
    GuardReleased
