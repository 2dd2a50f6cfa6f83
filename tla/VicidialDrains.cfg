CONSTANTS
  Dnc = {}
  Callbacks = {}
  Sales = {sale}
  MaxCrashes = 1
SPECIFICATION FairSpec
PROPERTIES Drains
CHECK_DEADLOCK FALSE
