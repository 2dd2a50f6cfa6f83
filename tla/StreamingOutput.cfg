SPECIFICATION Spec
CONSTANTS
  Bargers = {"vad", "event"}
  InProvider = {"event"}
  Segments = 2
  Chunks = 3
  Barges = 2
  LongAudio = TRUE
INVARIANTS StopSilences NothingLate PlayoutCovered BoundaryHonest StreamPlays NotStranded
PROPERTY CaptureReopens
CHECK_DEADLOCK FALSE
