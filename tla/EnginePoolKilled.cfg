SPECIFICATION Spec
CONSTANTS
  Play = {p1}
  Analysis = {}
  Worker = {w1, w2, w3, w4}
  NoJob = NoJob
  MinWorkers = 1
  MaxWorkers = 2
  Capacity = 2
  MaxAttempts = 2
  FailureThreshold = 3
  MaxFaults = 1
INVARIANTS
  OneFaultIsSurvived
CHECK_DEADLOCK FALSE
