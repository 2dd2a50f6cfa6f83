CONSTANTS
    MaxCheckIns = 1
    Window = 2
    Grace = 1
    Talk = 2
    Solo = 1
    Transfers = 1
    Faults = 2
SPECIFICATION FairSpec
INVARIANTS
    TypeOK
    HangupEarned
PROPERTIES
    Released
CHECK_DEADLOCK FALSE
