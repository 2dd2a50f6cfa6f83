CONSTANTS
  Dnc = {"dnc"}
  Callbacks = {b1}
  Sales = {sale}
  MaxCrashes = 0
SPECIFICATION Spec
INVARIANTS OwnerRetained
CHECK_DEADLOCK FALSE
