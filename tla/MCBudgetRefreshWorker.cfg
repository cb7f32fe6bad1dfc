SPECIFICATION Spec
CONSTANTS
  Workers = {w1, w2}
  NoWorker = none
  Periods = 2
  MaxAttempts = 2
  MaxFaults = 1
  MaxDrains = 2
  MaxReruns = 1
INVARIANTS
  WorkerTypeOK
  SucceededMeansRefreshed
PROPERTIES
  EndedPeriodsAreRefreshed
CHECK_DEADLOCK FALSE
