\* Two playbacks, a barge-in, lost events and lost answers.
CONSTANTS
    Playbacks = {p1, p2}
    Bargers = {b1}
    EventsLost = TRUE
    RepliesLost = TRUE
SPECIFICATION FairSpec
INVARIANTS
    TypeOK
    TokenOwned
    PlaybackCovered
PROPERTIES
    GateKept
CHECK_DEADLOCK FALSE
