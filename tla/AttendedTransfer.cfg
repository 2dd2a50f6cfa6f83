\* Two transfers, the first with a recording of the caller, and two incidents; the transfers may overlap.
CONSTANTS
  Attempts = 2
  Incidents = 2
  Recorded = {1}
SPECIFICATION Spec
INVARIANTS LegEndSpares CallerHeard CallerServed LegsOwned NoMappingLeft
PROPERTIES PendingSettles MusicStops
CHECK_DEADLOCK FALSE
