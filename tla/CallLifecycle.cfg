\* Two attach attempts: one can fail and the other succeed.
CONSTANT AttachAttempts = 2
SPECIFICATION FairSpec
INVARIANTS
    TypeOK
    NothingLeft
PROPERTIES
    Released
    DeadAirEnds
CHECK_DEADLOCK FALSE
