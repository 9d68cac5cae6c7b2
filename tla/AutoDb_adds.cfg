SPECIFICATION Spec
CONSTANTS
  none = none
  NoFs = none
  Jobs <- CaseJobs
  MaxAdditions = 2
  MaxFaults = 1
  MaxCrashes = 1
INVARIANTS
  Transactional
  CompleteIfOk
  UnallocExact
  StopHeeded
CHECK_DEADLOCK FALSE
