\* One call, one callback appointment besides the DNC, one business disposition, one engine stop.
CONSTANTS
  Dnc = {"dnc"}
  Callbacks = {b1}
  Sales = {sale}
  MaxCrashes = 1
SPECIFICATION Spec
INVARIANTS TypeOK CommittedIsApplied AckedIsDurable NoDuplicateCallback LiveComplianceFirst
PROPERTIES CloseAfterHistory
CHECK_DEADLOCK FALSE
