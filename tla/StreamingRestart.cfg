SPECIFICATION Spec
CONSTANTS
  Bargers = {"vad", "event"}
  InProvider = {"event"}
  Segments = 2
  Chunks = 3
  Barges = 2
  LongAudio = TRUE
INVARIANT PlaybackRestarts
CHECK_DEADLOCK FALSE
